--------------------------- MODULE NetworkProofs ---------------------------
(***************************************************************************)
(* Networks of nodes.  First their chains: in a network that satisfies     *)
(* Synchronised, a node keeps its chain valid and on disk, never loses a   *)
(* block, and implements LongestChain; a node by itself also keeps nonces  *)
(* in order, its coins and a solvent mempool.  Then their messages: nodes  *)
(* that exchange messages, for any topology, any window of the duplicate   *)
(* filter, any capacity of the seen sets and of the write queues and any   *)
(* number of failures, do only what module Blockchain allows, so what is   *)
(* proved of chains holds for them; and no node sends a block twice.       *)
(***************************************************************************)
EXTENDS Network, BlockchainProofs, FiniteSetTheorems

-----------------------------------------------------------------------------
(* Valid chains *)

LEMMA ClockType ==
  ASSUME TypeOK, NEW n \in Nodes
  PROVE  clock(n) \in Int
BY NodesAssumption DEF TypeOK, clock

\* Clocks that agree are one clock.
LEMMA OneClock ==
  ASSUME Synchronised, NEW m \in Nodes, NEW n \in Nodes
  PROVE  clock(m) = clock(n)
BY DEF Synchronised, clock

LEMMA NextDifficultyRange ==
  ASSUME Synchronised, NEW c, Linked(c), NEW d \in 1..MaxBlockDifficulty
  PROVE  calculateNextDifficulty(c, d) \in 1..MaxBlockDifficulty
<1>1. ASSUME NEW e \in Int PROVE Clamp(e) \in 1..MaxBlockDifficulty
  <2> DEFINE low == Min({MaxDifficulty, e})
  <2>1. MaxDifficulty \in Int /\ MinDifficulty \in Int /\ MinDifficulty <= MaxDifficulty
        /\ MinDifficulty >= 1 /\ MaxDifficulty <= MaxBlockDifficulty
    BY ConsensusAssumption DEF Synchronised
  <2>2. low \in {MaxDifficulty, e} /\ low <= MaxDifficulty
    BY <2>1, MinMaxOfTwo
  <2> HIDE DEF low
  <2>3. low \in Int
    BY <2>1, <2>2
  <2>4. /\ Max({MinDifficulty, low}) \in {MinDifficulty, low}
        /\ Max({MinDifficulty, low}) >= MinDifficulty
    BY <2>1, <2>3, MinMaxOfTwo
  <2>5. Max({MinDifficulty, low}) \in 1..MaxBlockDifficulty
    BY <2>1, <2>2, <2>3, <2>4 DEF MaxBlockDifficulty
  <2> QED
    BY <2>5 DEF Clamp, low
<1> DEFINE actual == c[Len(c)].timestamp - c[Len(c) - Window].timestamp
<1>2. ASSUME ~ (Len(c) < Window + 1), ~ (actual <= 0)
      PROVE  Rescale(d, Window * TargetBlockTime, actual) \in Int
  <2>0. Len(c) \in Nat \ {0}
    BY LinkedType
  <2>1. Len(c) \in 1..Len(c) /\ Len(c) - Window \in 1..Len(c)
    BY <1>2, <2>0, ConsensusAssumption
  <2>2. actual \in Int
    BY <2>1 DEF Linked
  <2>3. actual \in Nat \ {0}
    BY <1>2, <2>2
  <2> DEFINE expected == Window * TargetBlockTime
  <2>4. expected \in Nat /\ d \in Nat
    BY ConsensusAssumption DEF MaxBlockDifficulty
  <2> HIDE DEF expected, actual
  <2>5. 2 * actual \in Nat \ {0} /\ 2 * d * expected + actual \in Nat
    BY <2>3, <2>4
  <2>6. ((2 * d * expected + actual) \div (2 * actual)) \in Int
    BY <2>5
  <2>7. Rescale(d, expected, actual) \in Int
    BY <2>4, <2>6 DEF Rescale, MaxFactor
  <2> QED
    BY <2>7 DEF expected
<1> QED
  BY <1>1, <1>2 DEF calculateNextDifficulty

\* A valid chain stays valid when a valid block is added to it.
LEMMA ValidAppend ==
  ASSUME NEW c, NEW b, NEW t \in Int, Linked(c), Linked(Append(c, b)),
         validateChainAgainstConsensus(c, t), validateBlock(b, Last(c), t),
         b.index = Len(c)
  PROVE  validateChainAgainstConsensus(Append(c, b), t)
<1> DEFINE d == Append(c, b)
<1>1. c \in Seq(ToSet(c) \cup {b}) /\ Len(c) \in Nat \ {0}
  BY LinkedType
<1>2. /\ Len(d) = Len(c) + 1
      /\ \A i \in 1..Len(c) : d[i] = c[i]
      /\ d[Len(c) + 1] = b
  BY <1>1
<1>3. Linked(d)
  OBVIOUS
<1> HIDE DEF d
<1>4. \A i \in 2..Len(d) :
        /\ i - 1 \in 1..Len(c) /\ d[i-1] = c[i-1]
        /\ (i \in 2..Len(c) /\ d[i] = c[i]) \/ (i = Len(c) + 1 /\ d[i] = b)
  BY <1>1, <1>2
<1>5. \A i \in 2..Len(d) : validateBlock(d[i], d[i-1], t)
  <2> SUFFICES ASSUME NEW i \in 2..Len(d) PROVE validateBlock(d[i], d[i-1], t)
    OBVIOUS
  <2>1. CASE i \in 2..Len(c) /\ d[i] = c[i]
    BY <1>4, <2>1 DEF validateChainAgainstConsensus
  <2>2. CASE i = Len(c) + 1 /\ d[i] = b
    <3>1. i - 1 = Len(c)
      BY <1>1, <2>2
    <3>2. d[i-1] = Last(c)
      BY <1>4, <3>1 DEF Last
    <3> QED
      BY <2>2, <3>2
  <2> QED
    BY <1>4, <2>1, <2>2
<1>6. \A i \in 2..Len(d) : /\ d[i].index = i - 1
                           /\ d[i].previousHash = Hash(d[i-1])
                           /\ hasValidTransactions(d[i])
  <2> SUFFICES ASSUME NEW i \in 2..Len(d)
               PROVE  /\ d[i].index = i - 1
                      /\ d[i].previousHash = Hash(d[i-1])
                      /\ hasValidTransactions(d[i])
    OBVIOUS
  <2>1. validateBlock(d[i], d[i-1], t) /\ i \in 1..Len(d)
    BY <1>1, <1>2, <1>5
  <2>2. d[i].index = i - 1
    BY <1>3, <2>1 DEF Linked
  <2> QED
    BY <2>1, <2>2 DEF validateBlock
<1>7. d # <<>> /\ d[1].previousHash = ZeroHash
  BY <1>3 DEF Linked
<1>8. isChainValid(d)
  BY <1>6, <1>7 DEF isChainValid
<1>9. validateChainAgainstConsensus(d, t)
  BY <1>5, <1>8 DEF validateChainAgainstConsensus
<1> QED
  BY <1>9 DEF d

\* Time only makes timestamps older.
LEMMA ValidLater ==
  ASSUME NEW c, NEW t \in Int, NEW u \in Int, t <= u, Linked(c),
         validateChainAgainstConsensus(c, t)
  PROVE  validateChainAgainstConsensus(c, u)
<1>1. ASSUME NEW i \in 2..Len(c) PROVE validateBlock(c[i], c[i-1], u)
  <2>1. validateBlock(c[i], c[i-1], t)
    BY DEF validateChainAgainstConsensus
  <2>2. i \in 1..Len(c)
    BY LinkedType
  <2>3. c[i].timestamp \in Int /\ c[i].timestamp <= t + FutureLimit /\ FutureLimit \in Nat
    BY <2>1, <2>2, ConsensusAssumption DEF Linked, validateBlock, validateBlockTimestamp
  <2>4. c[i].timestamp <= u + FutureLimit
    BY <2>3
  <2> QED
    BY <2>1, <2>4 DEF validateBlock, validateBlockTimestamp
<1> QED
  BY <1>1 DEF validateChainAgainstConsensus

\* What a node mines passes the validation that mining skips.
LEMMA MinedValid ==
  ASSUME Synchronised, ReplicaInv, NEW n \in Nodes, NEW miner \in Accounts
  PROVE  validateBlock(newBlock(n, miner), Last(chain[n]), clock(n))
<1> DEFINE b == newBlock(n, miner)
<1>1. ChainInv /\ Linked(chain[n]) /\ chain[n] \in published /\ mempool[n] \in Seq(Txs)
      /\ DOMAIN mempool[n] = 1..Len(mempool[n])
  BY HeldChain DEF ReplicaInv
<1>2. /\ b.previousHash = Hash(Last(chain[n]))
      /\ b.transactions \in Seq(TxType)
      /\ isCoinbase(b.transactions[1])
      /\ \A p \in 1..Len(b.transactions) : p # 1 =>
           p - 1 \in 1..txCount(n) /\ b.transactions[p] = mempool[n][p-1]
  BY <1>1, MinedBlock
<1>3. txCount(n) \in 0..Len(mempool[n])
  BY <1>1, TxCountType
<1>4. b.difficulty \in 1..MaxBlockDifficulty
  <2>1. difficulty[n] \in 1..MaxBlockDifficulty
    BY DEF ReplicaInv
  <2> QED
    BY <1>1, <2>1, NextDifficultyRange DEF newBlock, Block
<1>5. clock(n) \in Int /\ b.timestamp = clock(n)
  BY <1>1, ClockType DEF newBlock, Block, ChainInv
<1>6. validateBlockTimestamp(b, Last(chain[n]), clock(n))
  <2>1. Len(chain[n]) \in 1..Len(chain[n])
    BY <1>1, LinkedType
  <2>2. chain[n][Len(chain[n])].timestamp <= clock(n)
    BY <1>1, <2>1 DEF ReplicaInv, PublishedValid
  <2>3. chain[n][Len(chain[n])].timestamp \in Int
    BY <1>1, <2>1 DEF Linked
  <2>4. clock(n) <= clock(n) + FutureLimit
    BY <1>5, ConsensusAssumption
  <2>5. clock(n) >= chain[n][Len(chain[n])].timestamp
    BY <1>5, <2>2, <2>3
  <2> HIDE DEF b
  <2> QED
    BY <1>5, <2>4, <2>5 DEF validateBlockTimestamp, Last
<1> HIDE DEF b
<1>7. \A p \in 1..Len(b.transactions) : verify(b.transactions[p])
  <2> SUFFICES ASSUME NEW p \in 1..Len(b.transactions) PROVE verify(b.transactions[p])
    OBVIOUS
  <2>1. CASE p = 1
    BY <1>2, <2>1 DEF verify
  <2>2. CASE p # 1
    <3>1. p - 1 \in DOMAIN mempool[n] /\ b.transactions[p] = mempool[n][p-1]
      BY <1>1, <1>2, <1>3, <2>2
    <3> QED
      BY <3>1 DEF ReplicaInv
  <2> QED
    BY <2>1, <2>2
<1>8. hasValidTransactions(b)
  BY <1>2, <1>7 DEF hasValidTransactions
<1> QED
  BY <1>2, <1>4, <1>6, <1>8 DEF validateBlock, b

-----------------------------------------------------------------------------
(* ReplicaInv is inductive *)

LEMMA ReplicaInvInit ==
  ASSUME Synchronised, Init
  PROVE  ReplicaInv
<1>1. ChainInv
  BY ChainInvInit
<1>2. DiskMatchesChain
  <2>1. PICK ok \in [Nodes -> WriteOutcomes] :
          disk = [n \in Nodes |-> saveChain(<<>>, GenesisChain(n), ok[n])]
    BY DEF Init
  <2>2. \A n \in Nodes : ok[n] = TRUE
    BY <2>1 DEF Synchronised
  <2> QED
    BY <2>1, <2>2 DEF DiskMatchesChain, saveChain, Init
<1>3. PublishedValid
  <2> SUFFICES ASSUME NEW n \in Nodes, NEW c \in published
               PROVE  /\ validateChainAgainstConsensus(c, clock(n))
                      /\ \A i \in 1..Len(c) : c[i].timestamp <= clock(n)
    BY DEF PublishedValid
  <2>1. PICK m \in Nodes : c = GenesisChain(m)
    BY DEF Init
  <2>2. Len(c) = 1 /\ c[1].timestamp = 0 /\ c[1].previousHash = ZeroHash /\ c # <<>>
    BY <2>1 DEF GenesisChain, createGenesis, Block
  <2>3. clock(n) >= 0 /\ clock(n) \in Int
    BY NodesAssumption DEF Init, Synchronised, clock
  <2>4. 2..Len(c) = {}
    BY <2>2
  <2>5. \A i \in 1..Len(c) : i = 1
    BY <2>2
  <2> QED
    BY <2>2, <2>3, <2>4, <2>5 DEF validateChainAgainstConsensus, isChainValid
<1>4. \A n \in Nodes : difficulty[n] \in 1..MaxBlockDifficulty
  BY DEF Init, Synchronised
<1>5. \A n \in Nodes : \A i \in DOMAIN mempool[n] : verify(mempool[n][i])
  BY DEF Init
<1> QED
  BY <1>1, <1>2, <1>3, <1>4, <1>5 DEF ReplicaInv

\* Steps that publish nothing keep PublishedValid.
LEMMA PublishedValidSame ==
  ASSUME PublishedValid, published' = published, now' = now
  PROVE  PublishedValid'
BY DEF PublishedValid, clock

LEMMA ReplicaInvAdd ==
  ASSUME ReplicaInv, NEW n \in Nodes, NEW tx \in Txs, addTransaction(n, tx), ChainInv'
  PROVE  ReplicaInv'
<1>1. DiskMatchesChain' /\ \A k \in Nodes : difficulty'[k] \in 1..MaxBlockDifficulty
  BY DEF ReplicaInv, DiskMatchesChain, addTransaction, admissible
<1>2. PublishedValid'
  BY PublishedValidSame DEF ReplicaInv, addTransaction, admissible
<1>3. \A k \in Nodes : \A i \in DOMAIN mempool'[k] : verify(mempool'[k][i])
  <2> SUFFICES ASSUME NEW k \in Nodes, NEW i \in DOMAIN mempool'[k]
               PROVE  verify(mempool'[k][i])
    OBVIOUS
  <2>1. mempool \in [Nodes -> Seq(Txs)] /\ mempool' = [mempool EXCEPT ![n] = Append(mempool[n], tx)]
    BY DEF ReplicaInv, ChainInv, TypeOK, addTransaction, admissible
  <2>2. CASE k # n
    BY <2>1, <2>2 DEF ReplicaInv
  <2>3. CASE k = n
    <3>1. mempool'[k] = Append(mempool[n], tx) /\ mempool[n] \in Seq(Txs)
      BY <2>1, <2>3
    <3>2. \/ i \in DOMAIN mempool[n] /\ mempool'[k][i] = mempool[n][i]
          \/ mempool'[k][i] = tx
      BY <3>1
    <3>3. verify(tx)
      BY DEF addTransaction, admissible
    <3> QED
      BY <3>2, <3>3 DEF ReplicaInv
  <2> QED
    BY <2>2, <2>3
<1> QED
  BY <1>1, <1>2, <1>3 DEF ReplicaInv

\* When the file holds the chain, appendBlock adds the block.
LEMMA AppendedChain ==
  ASSUME NEW c, NEW b, Linked(c), b.index = Len(c), b.previousHash = Hash(Last(c))
  PROVE  appendBlock(c, b, TRUE) = Append(c, b)
<1>1. Len(c) \in Nat \ {0} /\ Len(c) \in 1..Len(c)
  BY LinkedType
<1>2. Last(c).index = Len(c) - 1
  BY <1>1 DEF Linked, Last
<1>3. b.index = Last(c).index + 1
  BY <1>1, <1>2
<1> QED
  BY <1>3 DEF appendBlock, extendsStored

\* What is left in a mempool was there before.
LEMMA StillVerified ==
  ASSUME ReplicaInv, NEW n \in Nodes, NEW m \in Seq(Txs),
         \A i \in 1..Len(m) : \E j \in 1..Len(mempool[n]) : m[i] = mempool[n][j],
         mempool' = [mempool EXCEPT ![n] = m]
  PROVE  \A k \in Nodes : \A i \in DOMAIN mempool'[k] : verify(mempool'[k][i])
<1> SUFFICES ASSUME NEW k \in Nodes, NEW i \in DOMAIN mempool'[k]
             PROVE  verify(mempool'[k][i])
  OBVIOUS
<1>1. mempool \in [Nodes -> Seq(Txs)]
  BY DEF ReplicaInv, ChainInv, TypeOK
<1>2. CASE k # n
  BY <1>1, <1>2 DEF ReplicaInv
<1>3. CASE k = n
  <2>1. mempool'[k] = m /\ DOMAIN m = 1..Len(m)
        /\ DOMAIN mempool[n] = 1..Len(mempool[n])
    BY <1>1, <1>3
  <2>2. PICK j \in DOMAIN mempool[n] : m[i] = mempool[n][j]
    BY <2>1
  <2> QED
    BY <2>1, <2>2 DEF ReplicaInv
<1> QED
  BY <1>2, <1>3

LEMMA ReplicaInvMine ==
  ASSUME Synchronised, ReplicaInv, NEW n \in Nodes, NEW miner \in Accounts,
         minePendingTransactions(n, miner), ChainInv'
  PROVE  ReplicaInv'
<1> DEFINE b == newBlock(n, miner)
           c == Append(chain[n], b)
           rest == SubSeq(mempool[n], txCount(n) + 1, Len(mempool[n]))
<1>1. ChainInv /\ Linked(chain[n]) /\ chain[n] \in published /\ mempool[n] \in Seq(Txs)
  BY HeldChain DEF ReplicaInv
<1>2. /\ b.index = Len(chain[n]) /\ b.previousHash = Hash(Last(chain[n]))
      /\ b.transactions \in Seq(TxType) /\ b.timestamp \in Int
  BY <1>1, MinedBlock
<1>3. /\ chain' = [chain EXCEPT ![n] = c] /\ now' = now
      /\ published' = published \cup {c}
      /\ difficulty' = [difficulty EXCEPT ![n] = b.difficulty]
      /\ mempool' = [mempool EXCEPT ![n] = rest]
  BY <1>1 DEF minePendingTransactions, ChainInv, TypeOK
<1>4. disk' = [disk EXCEPT ![n] = appendBlock(disk[n], b, TRUE)]
  BY DEF minePendingTransactions, Synchronised, ReplicaInv, ChainInv
<1>5. validateBlock(b, Last(chain[n]), clock(n))
  BY MinedValid
<1>6. b.timestamp = clock(n) /\ clock(n) \in Int
  BY <1>1, ClockType DEF newBlock, Block, ChainInv
<1> HIDE DEF b
<1>7. /\ Linked(c) /\ Len(c) = Len(chain[n]) + 1 /\ Last(c) = b
      /\ \A i \in 1..Len(chain[n]) : c[i] = chain[n][i]
  BY <1>1, <1>2, LinkedAppend
<1> HIDE DEF rest
<1>8. DiskMatchesChain'
  <2>1. disk[n] = chain[n] /\ \A k \in Nodes : disk[k] = chain[k]
    BY DEF ReplicaInv, DiskMatchesChain
  <2>2. appendBlock(disk[n], b, TRUE) = c
    BY <1>1, <1>2, <2>1, AppendedChain
  <2> HIDE DEF c
  <2> QED
    BY <1>1, <1>3, <1>4, <2>1, <2>2 DEF DiskMatchesChain, ChainInv, TypeOK
<1>9. PublishedValid'
  <2>1. validateChainAgainstConsensus(chain[n], clock(n))
    BY <1>1 DEF ReplicaInv, PublishedValid
  <2>2. validateChainAgainstConsensus(c, clock(n))
    BY <1>1, <1>2, <1>5, <1>6, <1>7, <2>1, ValidAppend
  <2>3. \A i \in 1..Len(c) : c[i].timestamp <= clock(n)
    <3> SUFFICES ASSUME NEW i \in 1..Len(c) PROVE c[i].timestamp <= clock(n)
      OBVIOUS
    <3>1. Len(chain[n]) \in Nat
      BY <1>1, LinkedType
    <3>2. CASE i \in 1..Len(chain[n])
      <4>1. chain[n][i].timestamp <= clock(n)
        BY <1>1, <3>2 DEF ReplicaInv, PublishedValid
      <4> HIDE DEF c
      <4> QED
        BY <1>7, <3>2, <4>1
    <3>3. CASE i = Len(chain[n]) + 1
      <4> HIDE DEF c
      <4> QED
        BY <1>6, <1>7, <3>3 DEF Last
    <3> HIDE DEF c
    <3> QED
      BY <1>7, <3>1, <3>2, <3>3
  <2> HIDE DEF c
  <2> SUFFICES ASSUME NEW k \in Nodes, NEW d \in published'
               PROVE  /\ validateChainAgainstConsensus(d, clock(k))
                      /\ \A i \in 1..Len(d) : d[i].timestamp <= clock(k)
    BY <1>3 DEF PublishedValid, clock
  <2>4. CASE d \in published
    BY <2>4 DEF ReplicaInv, PublishedValid
  <2>5. CASE d = c
    <3>1. clock(k) = clock(n)
      BY OneClock
    <3> QED
      BY <2>2, <2>3, <2>5, <3>1
  <2> QED
    BY <1>3, <2>4, <2>5
<1>10. \A k \in Nodes : difficulty'[k] \in 1..MaxBlockDifficulty
  BY <1>1, <1>3, <1>5 DEF ReplicaInv, ChainInv, TypeOK, validateBlock
<1>11. \A k \in Nodes : \A i \in DOMAIN mempool'[k] : verify(mempool'[k][i])
  <2>1. txCount(n) \in 0..Len(mempool[n])
    BY <1>1, TxCountType
  <2>2. /\ rest \in Seq(Txs)
        /\ \A i \in 1..Len(rest) : \E j \in 1..Len(mempool[n]) : rest[i] = mempool[n][j]
    <3>1. /\ rest \in Seq(Txs) /\ Len(rest) = Len(mempool[n]) - txCount(n)
          /\ \A i \in 1..Len(rest) : rest[i] = mempool[n][i+txCount(n)]
      BY <1>1, <2>1, TailFacts DEF rest
    <3>2. \A i \in 1..Len(rest) : i + txCount(n) \in 1..Len(mempool[n])
      BY <1>1, <2>1, <3>1
    <3> QED
      BY <3>1, <3>2
  <2> QED
    BY <1>3, <2>2, StillVerified
<1> QED
  BY <1>8, <1>9, <1>10, <1>11 DEF ReplicaInv

LEMMA ReplicaInvAccept ==
  ASSUME Synchronised, ReplicaInv, NEW n \in Nodes, NEW c \in published,
         acceptBlock(n, Last(c)), ChainInv'
  PROVE  ReplicaInv'
<1> DEFINE b == Last(c)
           kept == EraseAll(mempool[n], ToSet(b.transactions))
<1>1. ChainInv /\ Linked(chain[n]) /\ mempool[n] \in Seq(Txs)
      /\ DOMAIN mempool[n] = 1..Len(mempool[n])
  BY HeldChain DEF ReplicaInv
<1>2. /\ chain' = [chain EXCEPT ![n] = Append(chain[n], b)] /\ now' = now
      /\ published' = published /\ difficulty' = difficulty
      /\ mempool' = [mempool EXCEPT ![n] = kept]
      /\ b.index = Len(chain[n]) /\ b.previousHash = Hash(Last(chain[n]))
  BY <1>1 DEF acceptBlock, acceptable, extendsTip, ChainInv, TypeOK
<1>3. disk' = [disk EXCEPT ![n] = appendBlock(disk[n], b, TRUE)]
  BY DEF acceptBlock, acceptable, extendsTip, Synchronised, ReplicaInv, ChainInv
<1>4. DiskMatchesChain'
  <2>1. disk[n] = chain[n] /\ \A k \in Nodes : disk[k] = chain[k]
    BY DEF ReplicaInv, DiskMatchesChain
  <2>2. appendBlock(disk[n], b, TRUE) = Append(chain[n], b)
    BY <1>1, <1>2, <2>1, AppendedChain
  <2> HIDE DEF b
  <2> QED
    BY <1>1, <1>2, <1>3, <2>1, <2>2 DEF DiskMatchesChain, ChainInv, TypeOK
<1>5. PublishedValid' /\ \A k \in Nodes : difficulty'[k] \in 1..MaxBlockDifficulty
  BY <1>2, PublishedValidSame DEF ReplicaInv
<1>6. \A i, j \in 1..Len(mempool[n]) : mempool[n][i] = mempool[n][j] => i = j
  BY <1>1 DEF ChainInv, MempoolFresh
<1>7. /\ kept \in Seq(Txs)
      /\ \A i \in 1..Len(kept) : \E j \in 1..Len(mempool[n]) : kept[i] = mempool[n][j]
  BY <1>1, <1>6, EraseAllFacts
<1> HIDE DEF kept
<1>8. \A k \in Nodes : \A i \in DOMAIN mempool'[k] : verify(mempool'[k][i])
  BY <1>2, <1>7, StillVerified
<1> QED
  BY <1>4, <1>5, <1>8 DEF ReplicaInv

LEMMA ReplicaInvReplace ==
  ASSUME Synchronised, ReplicaInv, NEW n \in Nodes, NEW c \in published,
         replaceChain(n, c), ChainInv'
  PROVE  ReplicaInv'
<1> DEFINE kept == EraseAll(mempool[n], RebuildSpent(c))
<1>1. ChainInv /\ mempool[n] \in Seq(Txs) /\ DOMAIN mempool[n] = 1..Len(mempool[n])
  BY HeldChain DEF ReplicaInv
<1>2. /\ chain' = [chain EXCEPT ![n] = c] /\ now' = now
      /\ published' = published /\ difficulty' = difficulty
      /\ mempool' = [mempool EXCEPT ![n] = kept]
  BY <1>1 DEF replaceChain, preferable, ChainInv, TypeOK
<1>3. disk' = [disk EXCEPT ![n] = c]
  BY DEF replaceChain, preferable, Synchronised, saveChain
<1>4. DiskMatchesChain'
  BY <1>1, <1>2, <1>3 DEF DiskMatchesChain, ReplicaInv, ChainInv, TypeOK
<1>5. PublishedValid' /\ \A k \in Nodes : difficulty'[k] \in 1..MaxBlockDifficulty
  BY <1>2, PublishedValidSame DEF ReplicaInv
<1>6. \A i, j \in 1..Len(mempool[n]) : mempool[n][i] = mempool[n][j] => i = j
  BY <1>1 DEF ChainInv, MempoolFresh
<1>7. /\ kept \in Seq(Txs)
      /\ \A i \in 1..Len(kept) : \E j \in 1..Len(mempool[n]) : kept[i] = mempool[n][j]
  BY <1>1, <1>6, EraseAllFacts
<1> HIDE DEF kept
<1>8. \A k \in Nodes : \A i \in DOMAIN mempool'[k] : verify(mempool'[k][i])
  BY <1>2, <1>7, StillVerified
<1> QED
  BY <1>4, <1>5, <1>8 DEF ReplicaInv

\* A restart finds the chain the node had, and takes it back.
LEMMA Restarted ==
  ASSUME Synchronised, ReplicaInv, NEW n \in Nodes, CrashRestart(n) \/ GracefulRestart(n)
  PROVE  construct(n, chain[n]) /\ chain' = chain /\ disk' = disk
<1>1. disk[n] = chain[n]
  BY DEF ReplicaInv, DiskMatchesChain
<1>2. construct(n, chain[n])
  BY <1>1 DEF CrashRestart, GracefulRestart, saveChain
<1>3. /\ Linked(chain[n]) /\ chain[n] # <<>>
      /\ validateChainAgainstConsensus(chain[n], clock(n))
  BY HeldChain DEF ReplicaInv, PublishedValid, Linked
<1>4. chain' = [chain EXCEPT ![n] = chain[n]] /\ disk' = [disk EXCEPT ![n] = disk[n]]
  BY <1>1, <1>2, <1>3 DEF construct
<1>5. chain' = chain /\ disk' = disk
  BY <1>4 DEF ReplicaInv, ChainInv, TypeOK
<1> QED
  BY <1>2, <1>5

LEMMA ReplicaInvRestart ==
  ASSUME Synchronised, ReplicaInv, NEW n \in Nodes, CrashRestart(n) \/ GracefulRestart(n),
         ChainInv'
  PROVE  ReplicaInv'
<1>1. construct(n, chain[n]) /\ chain' = chain /\ disk' = disk
  BY Restarted
<1>2. DiskMatchesChain'
  BY <1>1 DEF ReplicaInv, DiskMatchesChain
<1>3. PublishedValid'
  BY <1>1, PublishedValidSame DEF ReplicaInv, construct
<1>4. \A k \in Nodes : difficulty'[k] \in 1..MaxBlockDifficulty
  <2>1. difficulty' = [difficulty EXCEPT ![n] = InitialDifficulty[n]]
    BY <1>1 DEF construct
  <2> QED
    BY <2>1 DEF ReplicaInv, ChainInv, TypeOK, Synchronised
<1>5. \A k \in Nodes : \A i \in DOMAIN mempool'[k] : verify(mempool'[k][i])
  <2> DEFINE m == <<>>
  <2>1. /\ mempool' = [mempool EXCEPT ![n] = m] /\ m \in Seq(Txs)
        /\ \A i \in 1..Len(m) : \E j \in 1..Len(mempool[n]) : m[i] = mempool[n][j]
    BY <1>1 DEF construct
  <2> HIDE DEF m
  <2> QED
    BY <2>1, StillVerified
<1> QED
  BY <1>2, <1>3, <1>4, <1>5 DEF ReplicaInv

LEMMA ReplicaInvTick ==
  ASSUME ReplicaInv, Tick, ChainInv'
  PROVE  ReplicaInv'
<1>1. /\ DiskMatchesChain'
      /\ \A k \in Nodes : difficulty'[k] \in 1..MaxBlockDifficulty
      /\ \A k \in Nodes : \A i \in DOMAIN mempool'[k] : verify(mempool'[k][i])
  BY DEF ReplicaInv, DiskMatchesChain, Tick
<1>2. PublishedValid'
  <2> SUFFICES ASSUME NEW n \in Nodes, NEW c \in published'
               PROVE  /\ validateChainAgainstConsensus(c, clock(n)')
                      /\ \A i \in 1..Len(c) : c[i].timestamp <= clock(n)'
    BY DEF PublishedValid
  <2>1. c \in published /\ Linked(c)
    BY DEF Tick, ReplicaInv, ChainInv
  <2>2. clock(n) \in Int /\ clock(n)' \in Int /\ clock(n) <= clock(n)'
    BY NodesAssumption DEF Tick, clock, ReplicaInv, ChainInv, TypeOK
  <2>3. /\ validateChainAgainstConsensus(c, clock(n))
        /\ \A i \in 1..Len(c) : c[i].timestamp <= clock(n)
    BY <2>1 DEF ReplicaInv, PublishedValid
  <2>4. validateChainAgainstConsensus(c, clock(n)')
    BY <2>1, <2>2, <2>3, ValidLater
  <2>5. \A i \in 1..Len(c) : c[i].timestamp \in Int
    BY <2>1 DEF Linked
  <2>6. \A i \in 1..Len(c) : c[i].timestamp <= clock(n)'
    BY <2>2, <2>3, <2>5
  <2> QED
    BY <2>4, <2>6
<1> QED
  BY <1>1, <1>2 DEF ReplicaInv

LEMMA ReplicaInvNext ==
  ASSUME Synchronised, ReplicaInv, [Next]_vars
  PROVE  ReplicaInv'
<1>0. ChainInv'
  BY ChainInvNext DEF ReplicaInv
<1>1. ASSUME NEW n \in Nodes, NEW tx \in Txs, addTransaction(n, tx) PROVE ReplicaInv'
  BY <1>0, <1>1, ReplicaInvAdd
<1>2. ASSUME NEW n \in Nodes, NEW miner \in Accounts, minePendingTransactions(n, miner)
      PROVE  ReplicaInv'
  BY <1>0, <1>2, ReplicaInvMine
<1>3. ASSUME NEW n \in Nodes, NEW c \in published, acceptBlock(n, Last(c))
      PROVE  ReplicaInv'
  BY <1>0, <1>3, ReplicaInvAccept
<1>4. ASSUME NEW n \in Nodes, NEW c \in published, replaceChain(n, c) PROVE ReplicaInv'
  BY <1>0, <1>4, ReplicaInvReplace
<1>5. ASSUME NEW n \in Nodes, CrashRestart(n) \/ GracefulRestart(n) PROVE ReplicaInv'
  BY <1>0, <1>5, ReplicaInvRestart
<1>6. ASSUME Tick PROVE ReplicaInv'
  BY <1>0, <1>6, ReplicaInvTick
<1>7. ASSUME UNCHANGED vars PROVE ReplicaInv'
  <2>1. PublishedValid'
    BY <1>7, PublishedValidSame DEF ReplicaInv, vars
  <2> QED
    BY <1>0, <1>7, <2>1 DEF ReplicaInv, DiskMatchesChain, vars
<1> QED
  BY <1>1, <1>2, <1>3, <1>4, <1>5, <1>6, <1>7 DEF Next

-----------------------------------------------------------------------------
(* Every step is a step of LongestChain *)

LEMMA RefinementInit == Init => Replica!Init
<1> SUFFICES ASSUME Init PROVE Replica!Init
  OBVIOUS
<1>1. published = {chain[n] : n \in Nodes}
  BY DEF Init
<1>2. \A n \in Nodes : Len(chain[n]) = 1
  BY DEF Init, GenesisChain
<1> QED
  BY <1>1, <1>2 DEF Replica!Init

LEMMA RefinementMine ==
  ASSUME ChainInv, NEW n \in Nodes, NEW miner \in Accounts, minePendingTransactions(n, miner)
  PROVE  Replica!Next
<1> DEFINE b == newBlock(n, miner)
<1>1. Linked(chain[n])
  BY HeldChain
<1>2. /\ b.index = Len(chain[n]) /\ b.previousHash = Hash(Last(chain[n]))
      /\ b.transactions \in Seq(TxType) /\ b.timestamp \in Int
  BY MinedBlock
<1>3. /\ chain' = [chain EXCEPT ![n] = Append(chain[n], b)]
      /\ published' = published \cup {Append(chain[n], b)}
  BY DEF minePendingTransactions, ChainInv, TypeOK
<1> HIDE DEF b
<1>4. chain'[n] = Append(chain[n], b)
  BY <1>3 DEF ChainInv, TypeOK
<1>5. /\ Len(Append(chain[n], b)) = Len(chain[n]) + 1
      /\ \A i \in 1..Len(chain[n]) : Append(chain[n], b)[i] = chain[n][i]
  BY <1>1, <1>2, LinkedAppend
<1>6. Replica!Extend(n)
  BY <1>3, <1>4, <1>5 DEF Replica!Extend
<1> QED
  BY <1>3, <1>4, <1>6 DEF Replica!Next

LEMMA RefinementAdopt ==
  ASSUME ChainInv, NEW n \in Nodes, NEW c \in published,
         acceptBlock(n, Last(c)) \/ replaceChain(n, c)
  PROVE  Replica!Next
<1>1. Linked(chain[n]) /\ Linked(c)
  BY HeldChain DEF ChainInv
<1>2. /\ chain' = [chain EXCEPT ![n] = c] /\ published' = published
      /\ Len(c) > Len(chain[n])
  <2>1. CASE acceptBlock(n, Last(c))
    <3>1. Append(chain[n], Last(c)) = c
      BY <1>1, <2>1, AcceptedChain DEF acceptBlock, acceptable, extendsTip
    <3>2. chain[n] \in Seq(ToSet(chain[n]) \cup {Last(c)}) /\ Len(chain[n]) \in Nat
      BY <1>1, LinkedType
    <3>3. Len(Append(chain[n], Last(c))) = Len(chain[n]) + 1
      BY <3>2
    <3>4. Len(c) > Len(chain[n])
      BY <3>1, <3>2, <3>3
    <3> QED
      BY <2>1, <3>1, <3>4 DEF acceptBlock, acceptable, extendsTip
  <2>2. CASE replaceChain(n, c)
    BY <2>2 DEF replaceChain, preferable, shouldAcceptChain
  <2> QED
    BY <2>1, <2>2
<1>3. chain'[n] = c
  BY <1>2 DEF ChainInv, TypeOK
<1>4. Replica!Adopt(n)
  BY <1>2, <1>3 DEF Replica!Adopt
<1> QED
  BY <1>2, <1>3, <1>4 DEF Replica!Next

LEMMA RefinementNext ==
  ASSUME Synchronised, ReplicaInv, [Next]_vars
  PROVE  [Replica!Next]_<<chain, published>>
<1>0. ChainInv
  BY DEF ReplicaInv
<1>1. ASSUME NEW n \in Nodes, NEW tx \in Txs, addTransaction(n, tx)
      PROVE  UNCHANGED <<chain, published>>
  BY <1>1 DEF addTransaction, admissible
<1>2. ASSUME NEW n \in Nodes, NEW miner \in Accounts, minePendingTransactions(n, miner)
      PROVE  Replica!Next
  BY <1>0, <1>2, RefinementMine
<1>3. ASSUME NEW n \in Nodes, NEW c \in published,
             acceptBlock(n, Last(c)) \/ replaceChain(n, c)
      PROVE  Replica!Next
  BY <1>0, <1>3, RefinementAdopt
<1>4. ASSUME NEW n \in Nodes, CrashRestart(n) \/ GracefulRestart(n)
      PROVE  UNCHANGED <<chain, published>>
  <2>1. construct(n, chain[n]) /\ chain' = chain
    BY <1>4, Restarted
  <2> QED
    BY <2>1 DEF construct
<1>5. ASSUME Tick \/ UNCHANGED vars PROVE UNCHANGED <<chain, published>>
  BY <1>5 DEF Tick, vars
<1> QED
  BY <1>1, <1>2, <1>3, <1>4, <1>5 DEF Next

\* A step of LongestChain makes no replica's chain shorter.
LEMMA ReplicaGrows ==
  ASSUME ReplicaInv, [Replica!Next]_<<chain, published>>
  PROVE  \A n \in Nodes : Len(chain'[n]) >= Len(chain[n])
<1> SUFFICES ASSUME NEW n \in Nodes PROVE Len(chain'[n]) >= Len(chain[n])
  OBVIOUS
<1>1. Len(chain[n]) \in Nat
  BY HeldChain, LinkedType DEF ReplicaInv
<1>2. CASE UNCHANGED <<chain, published>>
  BY <1>1, <1>2
<1>3. CASE Replica!Next
  <2>1. PICK m \in Nodes : /\ Replica!Extend(m) \/ Replica!Adopt(m)
                           /\ chain' = [chain EXCEPT ![m] = chain'[m]]
    BY <1>3 DEF Replica!Next
  <2>2. CASE n = m
    <3>1. Len(chain'[n]) > Len(chain[n])
      BY <1>1, <2>1, <2>2, HeldChain, LinkedType DEF Replica!Extend, Replica!Adopt, ReplicaInv
    <3>2. Len(chain'[n]) \in Nat
      <4>1. CASE Replica!Extend(m)
        BY <1>1, <2>2, <4>1 DEF Replica!Extend
      <4>2. CASE Replica!Adopt(m)
        BY <2>2, <4>2, LinkedType DEF Replica!Adopt, ReplicaInv, ChainInv
      <4> QED
        BY <2>1, <4>1, <4>2
    <3> QED
      BY <1>1, <3>1, <3>2
  <2>3. CASE n # m
    <3>1. chain'[n] = chain[n]
      BY <2>1, <2>3 DEF ReplicaInv, ChainInv, TypeOK
    <3> QED
      BY <1>1, <3>1
  <2> QED
    BY <2>2, <2>3
<1> QED
  BY <1>2, <1>3

-----------------------------------------------------------------------------
(* The nonces of a network of one node.  addTransaction alone orders them: *)
(* no check of a block or of a chain looks at a nonce, so what a sender    *)
(* has on the chain is in order as long as every block was mined from this *)
(* mempool on top of the chain that the mempool was checked against.       *)

OneNode == \A m, n \in Nodes : m = n

\* The nonces of a sender increase along c.
Increasing(c) ==
  \A i, j \in DOMAIN c :
    \A p \in DOMAIN c[i].transactions, q \in DOMAIN c[j].transactions :
      LET s == c[i].transactions[p]
          t == c[j].transactions[q]
      IN  /\ i < j \/ (i = j /\ p < q)
          /\ ~isCoinbase(s) /\ s.from = t.from
          => s.nonce < t.nonce

\* The nonces of a sender increase along a mempool and go on from the confirmed one.
Queued(m, nonces) ==
  /\ \A i, j \in DOMAIN m : i < j /\ m[i].from = m[j].from => m[i].nonce < m[j].nonce
  /\ \A i \in DOMAIN m : nonces[m[i].from] < m[i].nonce

\* The node has the longest chain there is, so it is never offered a better one.
SoloInv ==
  /\ ReplicaInv /\ StateInv
  /\ \A n \in Nodes : \A c \in published : Len(c) <= Len(chain[n])
  /\ \A n \in Nodes : Queued(mempool[n], lastNonceMap[n])
  /\ \A c \in published : Increasing(c)

\* A chain stays in order when a block is added whose transfers are in order and go
\* on from what the chain has.
LEMMA IncreasingAppend ==
  ASSUME NEW c, Linked(c), Increasing(c), NEW b, b.transactions \in Seq(TxType),
         \A s \in RebuildSpent(c) : \A q \in 1..Len(b.transactions) :
           s.from = b.transactions[q].from => s.nonce < b.transactions[q].nonce,
         \A p, q \in 1..Len(b.transactions) :
           /\ p < q
           /\ ~isCoinbase(b.transactions[p])
           /\ b.transactions[p].from = b.transactions[q].from
           => b.transactions[p].nonce < b.transactions[q].nonce
  PROVE  Increasing(Append(c, b))
<1> DEFINE d == Append(c, b)
<1>1. PICK l \in Nat : l = Len(c)
  BY LinkedType
<1>2. DOMAIN c = 1..l
  BY <1>1, LinkedType
<1>3. /\ DOMAIN d = 1..(l + 1) /\ d[l + 1] = b
      /\ \A i \in 1..l : d[i] = c[i]
  <2>1. c \in Seq(ToSet(c) \cup {b}) /\ b \in ToSet(c) \cup {b}
    BY LinkedType
  <2> QED
    BY <1>1, <2>1
<1> HIDE DEF d
<1>4. DOMAIN b.transactions = 1..Len(b.transactions)
  OBVIOUS
<1> SUFFICES ASSUME NEW i \in DOMAIN d, NEW j \in DOMAIN d,
                    NEW p \in DOMAIN d[i].transactions, NEW q \in DOMAIN d[j].transactions,
                    i < j \/ (i = j /\ p < q),
                    ~isCoinbase(d[i].transactions[p]),
                    d[i].transactions[p].from = d[j].transactions[q].from
             PROVE  d[i].transactions[p].nonce < d[j].transactions[q].nonce
  BY DEF Increasing, d
<1>5. CASE i \in 1..l /\ j \in 1..l
  BY <1>2, <1>3, <1>5 DEF Increasing
<1>6. CASE i \in 1..l /\ j = l + 1
  <2>1. d[i] = c[i] /\ d[j] = b
    BY <1>3, <1>6
  <2>2. DOMAIN c[i].transactions = 1..Len(c[i].transactions)
    BY <1>1, <1>6 DEF Linked
  <2>3. c[i].transactions[p] \in RebuildSpent(c)
    BY <1>1, <1>6, <2>1, <2>2, SpentMember
  <2> QED
    BY <1>4, <2>1, <2>3
<1>7. CASE i = l + 1 /\ j = l + 1
  BY <1>3, <1>4, <1>7
<1>8. i \in 1..(l + 1) /\ j \in 1..(l + 1) /\ ~(j < i)
  BY <1>3
<1> QED
  BY <1>5, <1>6, <1>7, <1>8

\* Where ApplyNonces takes a last nonce from.
LEMMA AppliedNonce ==
  ASSUME NEW x \in [Addresses -> Nat], NEW b, b.transactions \in Seq(TxType),
         NEW a \in Addresses
  PROVE  \/ ApplyNonces(x, b)[a] = x[a]
         \/ \E tx \in TxIDs(b) : tx.from = a /\ tx.nonce = ApplyNonces(x, b)[a]
<1> DEFINE Of == {t \in TxIDs(b) : t.from = a}
           M == {x[a]} \cup {tx.nonce : tx \in Of}
<1>1. Of \subseteq ToSet(b.transactions) /\ x[a] \in Nat
  BY DEF TxIDs
<1>2. Max(M) \in M
  BY <1>1, NonceMax
<1>3. ApplyNonces(x, b)[a] = Max(M)
  BY DEF ApplyNonces
<1> HIDE DEF M
<1>4. ApplyNonces(x, b)[a] \in M
  BY <1>2, <1>3
<1> QED
  BY <1>4 DEF M

\* The last nonces of a node, as StateMatchesChain gives them.
LEMMA HeldNonces ==
  ASSUME StateInv, NEW n \in Nodes
  PROVE  /\ lastNonceMap[n] \in [Addresses -> Nat]
         /\ \A tx \in RebuildSpent(chain[n]) :
              tx.from \in Addresses /\ tx.nonce \in 0..lastNonceMap[n][tx.from]
<1>1. Linked(chain[n]) /\ lastNonceMap[n] = RebuildNonces(chain[n])
  BY HeldChain DEF StateInv, StateMatchesChain
<1> QED
  BY <1>1, NoncesOf DEF NoncesHold

LEMMA PendingTypes ==
  ASSUME ChainInv, NEW n \in Nodes, NEW i \in 1..Len(mempool[n])
  PROVE  /\ mempool[n][i] \in Txs /\ mempool[n][i] \in TxType
         /\ mempool[n][i].from \in Addresses /\ mempool[n][i].nonce \in Nat
         /\ ~isCoinbase(mempool[n][i])
<1>1. mempool[n][i] \in Txs
  BY HeldChain
<1>2. mempool[n][i] \in TxType
  BY <1>1 DEF TxType
<1> QED
  BY <1>1, <1>2, TxTypes, TxsAreTransfers

\* What addTransaction admits continues the queue of its sender.
LEMMA QueuedAdd ==
  ASSUME StateInv, NEW n \in Nodes, NEW tx \in Txs, expectedNonce(n, tx),
         Queued(mempool[n], lastNonceMap[n])
  PROVE  Queued(Append(mempool[n], tx), lastNonceMap[n])
<1> DEFINE m == Append(mempool[n], tx)
           Of == {t \in ToSet(mempool[n]) : t.from = tx.from}
           M == {lastNonceMap[n][tx.from]} \cup {t.nonce : t \in Of}
<1>0. ChainInv /\ mempool[n] \in Seq(Txs)
  BY HeldChain DEF StateInv
<1>1. PICK l \in Nat : l = Len(mempool[n])
  BY <1>0
<1>2. /\ DOMAIN mempool[n] = 1..l /\ DOMAIN m = 1..(l + 1) /\ m[l + 1] = tx
      /\ \A i \in 1..l : m[i] = mempool[n][i]
  BY <1>0, <1>1
<1> HIDE DEF m
<1>3. tx \in TxType /\ tx.from \in Addresses /\ tx.nonce \in Nat
  <2>1. tx \in TxType
    BY DEF TxType
  <2> QED
    BY <2>1, TxTypes, TxsAreTransfers
<1>4. lastNonceMap[n][tx.from] \in Nat
  BY <1>3, HeldNonces
<1>5. mempool[n] \in Seq(TxType)
  BY <1>0 DEF TxType
<1>6. Max(M) \in Nat /\ \A y \in M : y <= Max(M)
  <2>1. Of \subseteq ToSet(mempool[n])
    OBVIOUS
  <2> QED
    BY <1>4, <1>5, <2>1, NonceMax
<1>7. tx.nonce = Max(M) + 1
  BY DEF expectedNonce, highestSeenNonce
<1>8. ASSUME NEW y \in M, y \in Nat PROVE y < tx.nonce
  <2>1. y <= Max(M)
    BY <1>6
  <2> HIDE DEF M
  <2> QED
    BY <1>6, <1>7, <1>8, <2>1
<1>9. ASSUME NEW i \in 1..l, mempool[n][i].from = tx.from
      PROVE  mempool[n][i].nonce < tx.nonce
  <2>1. mempool[n][i] \in Of
    BY <1>2, <1>9 DEF ToSet
  <2>2. mempool[n][i].nonce \in M
    BY <2>1
  <2>3. mempool[n][i].nonce \in Nat
    BY <1>0, <1>1, PendingTypes
  <2> HIDE DEF M
  <2> QED
    BY <1>8, <2>2, <2>3
<1>10. lastNonceMap[n][tx.from] < tx.nonce
  <2>1. lastNonceMap[n][tx.from] \in M
    OBVIOUS
  <2> HIDE DEF M
  <2> QED
    BY <1>4, <1>8, <2>1
<1> HIDE DEF M, Of
<1>11. \A i \in DOMAIN m : lastNonceMap[n][m[i].from] < m[i].nonce
  <2>1. \A i \in 1..(l + 1) : i \in 1..l \/ i = l + 1
    OBVIOUS
  <2> QED
    BY <1>2, <1>10, <2>1 DEF Queued
<1>12. ASSUME NEW i \in DOMAIN m, NEW j \in DOMAIN m, i < j, m[i].from = m[j].from
       PROVE  m[i].nonce < m[j].nonce
  <2>1. i \in 1..l /\ (j \in 1..l \/ j = l + 1)
    BY <1>2, <1>12
  <2>2. CASE j \in 1..l
    BY <1>2, <1>12, <2>1, <2>2 DEF Queued
  <2>3. CASE j = l + 1
    BY <1>2, <1>9, <1>12, <2>1, <2>3
  <2> QED
    BY <2>1, <2>2, <2>3
<1> QED
  BY <1>11, <1>12 DEF Queued, m

\* The mined block takes the front of the queue: it is in order on the chain, and what
\* is left goes on from it.
LEMMA QueuedMine ==
  ASSUME StateInv, NEW n \in Nodes, NEW miner \in Accounts,
         Queued(mempool[n], lastNonceMap[n]), Increasing(chain[n])
  PROVE  /\ Increasing(Append(chain[n], newBlock(n, miner)))
         /\ Queued(SubSeq(mempool[n], txCount(n) + 1, Len(mempool[n])),
                   ApplyNonces(lastNonceMap[n], newBlock(n, miner)))
<1>0. ChainInv /\ mempool[n] \in Seq(Txs) /\ Linked(chain[n])
  BY HeldChain DEF StateInv
<1>1. PICK l \in Nat : l = Len(mempool[n])
  BY <1>0
<1>2. DOMAIN mempool[n] = 1..l
  BY <1>0, <1>1
<1>3. PICK k \in 0..l : k = txCount(n)
  BY <1>0, <1>1, TxCountType
<1>4. PICK b : b = newBlock(n, miner)
  OBVIOUS
<1>5. PICK txs \in Seq(TxType) : txs = b.transactions
  BY <1>0, <1>4, MinedBlock
<1>6. /\ Len(txs) = k + 1 /\ DOMAIN txs = 1..(k + 1) /\ isCoinbase(txs[1])
      /\ \A p \in 1..(k + 1) : p # 1 => p - 1 \in 1..k /\ txs[p] = mempool[n][p-1]
  BY <1>0, <1>3, <1>4, <1>5, MinedBlock
<1>7. ASSUME NEW p \in 1..(k + 1), ~isCoinbase(txs[p])
      PROVE  /\ p # 1 /\ p - 1 \in 1..l /\ p - 1 <= k /\ txs[p] = mempool[n][p-1]
             /\ txs[p].from \in Addresses /\ txs[p].nonce \in Nat
  <2>1. p # 1 /\ p - 1 \in 1..l /\ p - 1 <= k /\ txs[p] = mempool[n][p-1]
    BY <1>6, <1>7
  <2> QED
    BY <1>0, <1>1, <2>1, PendingTypes
<1>8. PICK N \in [Addresses -> Nat] : N = lastNonceMap[n]
  BY HeldNonces
<1>9. \A p, q \in 1..(k + 1) :
        p < q /\ ~isCoinbase(txs[p]) /\ txs[p].from = txs[q].from => txs[p].nonce < txs[q].nonce
  <2> SUFFICES ASSUME NEW p \in 1..(k + 1), NEW q \in 1..(k + 1), p < q,
                      ~isCoinbase(txs[p]), txs[p].from = txs[q].from
               PROVE  txs[p].nonce < txs[q].nonce
    OBVIOUS
  <2>1. ~isCoinbase(txs[q])
    BY DEF isCoinbase
  <2>2. p - 1 \in 1..l /\ txs[p] = mempool[n][p-1]
    BY <1>7
  <2>3. q - 1 \in 1..l /\ txs[q] = mempool[n][q-1]
    BY <1>7, <2>1
  <2>4. p - 1 < q - 1
    OBVIOUS
  <2> QED
    BY <1>2, <2>2, <2>3, <2>4 DEF Queued
<1>10. \A s \in RebuildSpent(chain[n]) : \A q \in 1..(k + 1) :
         s.from = txs[q].from => s.nonce < txs[q].nonce
  <2> SUFFICES ASSUME NEW s \in RebuildSpent(chain[n]), NEW q \in 1..(k + 1),
                      s.from = txs[q].from
               PROVE  s.nonce < txs[q].nonce
    OBVIOUS
  <2>1. ~isCoinbase(s)
    BY DEF RebuildSpent, TxIDs
  <2>2. ~isCoinbase(txs[q])
    BY <2>1 DEF isCoinbase
  <2>3. q - 1 \in 1..l /\ txs[q] = mempool[n][q-1] /\ txs[q].nonce \in Nat
    BY <1>7, <2>2
  <2>4. PICK y \in Nat : y = N[s.from] /\ s.nonce \in 0..y
    BY <1>8, HeldNonces
  <2>5. y < txs[q].nonce
    BY <1>2, <1>8, <2>3, <2>4 DEF Queued
  <2> QED
    BY <2>3, <2>4, <2>5
<1>11. Increasing(Append(chain[n], b))
  BY <1>0, <1>5, <1>6, <1>9, <1>10, IncreasingAppend
<1>12. PICK r : r = SubSeq(mempool[n], k + 1, l)
  OBVIOUS
<1>13. DOMAIN r = 1..(l - k) /\ \A i \in 1..(l - k) : r[i] = mempool[n][i+k]
  BY <1>0, <1>1, <1>12, TailFacts
<1>14. \A i, j \in DOMAIN r : i < j /\ r[i].from = r[j].from => r[i].nonce < r[j].nonce
  <2> SUFFICES ASSUME NEW i \in 1..(l - k), NEW j \in 1..(l - k), i < j,
                      r[i].from = r[j].from
               PROVE  r[i].nonce < r[j].nonce
    BY <1>13
  <2>1. i + k \in 1..l /\ j + k \in 1..l /\ i + k < j + k
    OBVIOUS
  <2> QED
    BY <1>2, <1>13, <2>1 DEF Queued
<1>15. ASSUME NEW i \in DOMAIN r PROVE ApplyNonces(N, b)[r[i].from] < r[i].nonce
  <2>1. i + k \in 1..l /\ r[i] = mempool[n][i+k]
    BY <1>13
  <2>2. r[i].from \in Addresses
    BY <1>0, <1>1, <2>1, PendingTypes
  <2>3. CASE ApplyNonces(N, b)[r[i].from] = N[r[i].from]
    BY <1>2, <1>8, <2>1, <2>3 DEF Queued
  <2>4. ASSUME NEW tx \in TxIDs(b), tx.from = r[i].from,
               tx.nonce = ApplyNonces(N, b)[r[i].from]
        PROVE  ApplyNonces(N, b)[r[i].from] < r[i].nonce
    <3>1. ~isCoinbase(tx) /\ tx \in ToSet(txs)
      BY <1>5, <2>4 DEF TxIDs
    <3>2. PICK p \in 1..(k + 1) : tx = txs[p]
      BY <1>6, <3>1 DEF ToSet
    <3>3. p - 1 \in 1..l /\ p - 1 < i + k /\ tx = mempool[n][p-1]
      BY <1>7, <1>13, <3>1, <3>2
    <3>4. tx.nonce < r[i].nonce
      BY <1>2, <2>1, <2>4, <3>3 DEF Queued
    <3> QED
      BY <2>4, <3>4
  <2> QED
    BY <1>5, <2>2, <2>3, <2>4, AppliedNonce
<1>16. Queued(r, ApplyNonces(N, b))
  BY <1>14, <1>15 DEF Queued
<1> QED
  BY <1>1, <1>3, <1>4, <1>8, <1>11, <1>12, <1>16

LEMMA SoloInit ==
  ASSUME Synchronised, OneNode, Init
  PROVE  SoloInv
<1>1. ReplicaInv /\ StateInv
  BY ReplicaInvInit, StateInvInit
<1>2. ASSUME NEW c \in published
      PROVE  /\ c \in {GenesisChain(m) : m \in Nodes}
             /\ Len(c) = 1 /\ DOMAIN c = {1} /\ isCoinbase(c[1].transactions[1])
             /\ DOMAIN c[1].transactions = {1}
  <2>1. PICK m \in Nodes : c = GenesisChain(m)
    BY DEF Init
  <2>2. /\ Len(c) = 1 /\ c[1] = createGenesis(InitialDifficulty[m])
        /\ DOMAIN c = {1}
    BY <2>1 DEF GenesisChain
  <2>3. c[1].transactions = <<Coinbase(GENESIS, 0)>>
    BY <2>2 DEF createGenesis, Block
  <2> QED
    BY <2>1, <2>2, <2>3 DEF Coinbase, isCoinbase
<1>3. \A n \in Nodes : \A c \in published : Len(c) <= Len(chain[n])
  <2>1. \A n \in Nodes : chain[n] \in published
    BY DEF Init
  <2> QED
    BY <1>2, <2>1
<1>4. \A n \in Nodes : Queued(mempool[n], lastNonceMap[n])
  BY DEF Init, Queued
<1>5. \A c \in published : Increasing(c)
  BY <1>2 DEF Increasing
<1> QED
  BY <1>1, <1>3, <1>4, <1>5 DEF SoloInv

\* The only node is never offered a longer chain than its own.
LEMMA NothingToAdopt ==
  ASSUME SoloInv, NEW n \in Nodes, NEW c \in published
  PROVE  ~acceptBlock(n, Last(c)) /\ ~replaceChain(n, c)
<1>1. Linked(chain[n]) /\ Linked(c)
  BY HeldChain DEF SoloInv, ReplicaInv, ChainInv
<1>2. PICK k \in Nat : k = Len(chain[n])
  BY <1>1, LinkedType
<1>3. PICK l \in Nat : l = Len(c) /\ l <= k
  BY <1>1, <1>2, LinkedType DEF SoloInv
<1>4. ASSUME acceptBlock(n, Last(c)) PROVE FALSE
  <2>1. Append(chain[n], Last(c)) = c
    BY <1>1, <1>4, AcceptedChain DEF acceptBlock, acceptable, extendsTip
  <2>2. chain[n] \in Seq(ToSet(chain[n]) \cup {Last(c)})
    BY <1>1, LinkedType
  <2>3. Len(Append(chain[n], Last(c))) = k + 1
    BY <1>2, <2>2
  <2> QED
    BY <1>3, <2>1, <2>3
<1>5. ASSUME replaceChain(n, c) PROVE FALSE
  <2>1. l > k
    BY <1>2, <1>3, <1>5 DEF replaceChain, preferable, shouldAcceptChain
  <2> QED
    BY <1>3, <2>1
<1> QED
  BY <1>4, <1>5

\* A step of the only node that gives it the chain x, the mempool m and the last
\* nonces N.
LEMMA SoloStep ==
  ASSUME OneNode, SoloInv, ReplicaInv', StateInv', NEW n \in Nodes, NEW m, NEW N,
         mempool' = [mempool EXCEPT ![n] = m],
         lastNonceMap'[n] = N, Queued(m, N),
         chain' = chain, published' = published
  PROVE  SoloInv'
<1>1. \A k \in Nodes : k = n
  BY DEF OneNode
<1>2. mempool'[n] = m
  BY DEF SoloInv, ReplicaInv, ChainInv, TypeOK
<1>3. \A k \in Nodes : Queued(mempool'[k], lastNonceMap'[k])
  BY <1>1, <1>2
<1>4. /\ \A k \in Nodes : \A c \in published' : Len(c) <= Len(chain'[k])
      /\ \A c \in published' : Increasing(c)
  BY DEF SoloInv
<1> QED
  BY <1>3, <1>4 DEF SoloInv

LEMMA SoloAdd ==
  ASSUME OneNode, SoloInv, ReplicaInv', StateInv', NEW n \in Nodes, NEW tx \in Txs,
         addTransaction(n, tx)
  PROVE  SoloInv'
<1>1. /\ mempool' = [mempool EXCEPT ![n] = Append(mempool[n], tx)]
      /\ lastNonceMap'[n] = lastNonceMap[n] /\ chain' = chain /\ published' = published
      /\ expectedNonce(n, tx)
  BY DEF addTransaction, admissible, stateVars, SoloInv, ReplicaInv, ChainInv, TypeOK
<1>2. Queued(Append(mempool[n], tx), lastNonceMap[n])
  BY <1>1, QueuedAdd DEF SoloInv
<1> QED
  BY <1>1, <1>2, SoloStep

LEMMA SoloMine ==
  ASSUME OneNode, SoloInv, ReplicaInv', StateInv', NEW n \in Nodes, NEW miner \in Accounts,
         minePendingTransactions(n, miner)
  PROVE  SoloInv'
<1>0. /\ ChainInv /\ StateInv /\ chain[n] \in published /\ Linked(chain[n])
      /\ Increasing(chain[n]) /\ Queued(mempool[n], lastNonceMap[n])
  BY HeldChain DEF SoloInv, ReplicaInv
<1>1. PICK b : b = newBlock(n, miner)
  OBVIOUS
<1>2. PICK r : r = SubSeq(mempool[n], txCount(n) + 1, Len(mempool[n]))
  OBVIOUS
<1>3. PICK x : x = Append(chain[n], b)
  OBVIOUS
<1>4. /\ chain' = [chain EXCEPT ![n] = x] /\ published' = published \cup {x}
      /\ mempool' = [mempool EXCEPT ![n] = r]
      /\ lastNonceMap' = [lastNonceMap EXCEPT ![n] = ApplyNonces(lastNonceMap[n], b)]
  <2>1. applyBlockState(n, b)
    BY <1>1 DEF minePendingTransactions
  <2>2. lastNonceMap' = [lastNonceMap EXCEPT ![n] = ApplyNonces(lastNonceMap[n], b)]
    BY <2>1 DEF applyBlockState
  <2> QED
    BY <1>0, <1>1, <1>2, <1>3, <2>2 DEF minePendingTransactions, ChainInv, TypeOK
<1>5. /\ chain'[n] = x /\ mempool'[n] = r
      /\ lastNonceMap'[n] = ApplyNonces(lastNonceMap[n], b)
  BY <1>0, <1>4 DEF ChainInv, TypeOK, StateInv
<1>6. Increasing(x) /\ Queued(r, ApplyNonces(lastNonceMap[n], b))
  BY <1>0, <1>1, <1>2, <1>3, QueuedMine
<1>7. PICK l \in Nat : l = Len(chain[n])
  BY <1>0, LinkedType
<1>8. Len(x) = l + 1
  <2>1. chain[n] \in Seq(ToSet(chain[n]) \cup {b}) /\ b \in ToSet(chain[n]) \cup {b}
    BY <1>0, LinkedType
  <2> QED
    BY <1>3, <1>7, <2>1
<1>9. \A k \in Nodes : k = n
  BY DEF OneNode
<1>10. ASSUME NEW k \in Nodes, NEW c \in published' PROVE Len(c) <= Len(chain'[k])
  <2>1. chain'[k] = x
    BY <1>5, <1>9
  <2>2. CASE c = x
    BY <1>8, <2>1, <2>2
  <2>3. CASE c \in published
    <3>1. PICK j \in Nat : j = Len(c)
      BY <1>0, <2>3, LinkedType DEF ChainInv
    <3>2. j <= l
      BY <1>7, <2>3, <3>1 DEF SoloInv
    <3> QED
      BY <1>8, <2>1, <3>1, <3>2
  <2> QED
    BY <1>4, <2>2, <2>3
<1>11. \A k \in Nodes : Queued(mempool'[k], lastNonceMap'[k])
  BY <1>5, <1>6, <1>9
<1>12. \A c \in published' : Increasing(c)
  BY <1>4, <1>6 DEF SoloInv
<1> QED
  BY <1>10, <1>11, <1>12 DEF SoloInv

LEMMA SoloRestart ==
  ASSUME Synchronised, OneNode, SoloInv, ReplicaInv', StateInv', NEW n \in Nodes,
         CrashRestart(n) \/ GracefulRestart(n)
  PROVE  SoloInv'
<1>1. construct(n, chain[n]) /\ chain' = chain
  BY Restarted DEF SoloInv
<1>2. mempool' = [mempool EXCEPT ![n] = <<>>] /\ published' = published
  BY <1>1 DEF construct
<1>3. Queued(<<>>, lastNonceMap'[n])
  BY DEF Queued
<1> QED
  BY <1>1, <1>2, <1>3, SoloStep

LEMMA SoloNext ==
  ASSUME Synchronised, OneNode, SoloInv, [Next]_vars
  PROVE  SoloInv'
<1>0. ReplicaInv' /\ StateInv'
  BY ReplicaInvNext, StateInvNext DEF SoloInv
<1>1. ASSUME NEW n \in Nodes, NEW tx \in Txs, addTransaction(n, tx) PROVE SoloInv'
  BY <1>0, <1>1, SoloAdd
<1>2. ASSUME NEW n \in Nodes, NEW miner \in Accounts, minePendingTransactions(n, miner)
      PROVE  SoloInv'
  BY <1>0, <1>2, SoloMine
<1>3. ASSUME NEW n \in Nodes, NEW c \in published, acceptBlock(n, Last(c)) \/ replaceChain(n, c)
      PROVE  SoloInv'
  BY <1>3, NothingToAdopt
<1>4. ASSUME NEW n \in Nodes, CrashRestart(n) \/ GracefulRestart(n) PROVE SoloInv'
  BY <1>0, <1>4, SoloRestart
<1>5. ASSUME Tick \/ UNCHANGED vars PROVE SoloInv'
  BY <1>0, <1>5 DEF SoloInv, Tick, vars, stateVars
<1> QED
  BY <1>1, <1>2, <1>3, <1>4, <1>5 DEF Next

-----------------------------------------------------------------------------
(* Sums of balances *)

Balances == [Addresses -> Nat]

LEMMA TotalIs ==
  /\ BalanceFold!IsFiniteSet(Addresses)
  /\ \A bal : TotalBalance(bal) = BalanceFold!Sum(bal, Addresses)
<1>1. IsFiniteSet(Addresses)
  BY AccountsAssumption, FS_AddElement, Zenon DEF Addresses
<1>2. BalanceFold!IsFiniteSet(Addresses)
  BY <1>1 DEF IsFiniteSet, BalanceFold!IsFiniteSet
<1>3. ASSUME NEW bal PROVE TotalBalance(bal) = BalanceFold!Sum(bal, Addresses)
  BY DEF TotalBalance, FoldFunctionOnSet, MapThenFoldSet, BalanceFold!Sum,
     BalanceFold!FoldFunctionOnSet, BalanceFold!MapThenFoldSet
<1> QED
  BY <1>2, <1>3

\* Changing one balance changes the sum by as much.
LEMMA TotalUpdate ==
  ASSUME NEW x \in Balances, NEW y \in Balances, NEW a \in Addresses,
         \A c \in Addresses \ {a} : y[c] = x[c]
  PROVE  /\ TotalBalance(x) \in Nat /\ TotalBalance(y) \in Nat
         /\ TotalBalance(y) + x[a] = TotalBalance(x) + y[a]
<1>1. x \in [Addresses -> Nat] /\ y \in [Addresses -> Nat]
  BY DEF Balances
<1>2. /\ BalanceFold!Sum(x, Addresses) \in Nat /\ BalanceFold!Sum(y, Addresses) \in Nat
      /\ BalanceFold!Sum(y, Addresses) + x[a] = BalanceFold!Sum(x, Addresses) + y[a]
  BY <1>1, TotalIs, BalanceFold!SumUpdate
<1> QED
  BY <1>2, TotalIs

\* Nobody has anything.
LEMMA TotalOfNothing == TotalBalance(NoBalances) = 0
<1>1. \A a \in Addresses : NoBalances[a] = 0
  BY DEF NoBalances
<1> QED
  BY <1>1, TotalIs, BalanceFold!SumOfZeros

-----------------------------------------------------------------------------
(* The coins of a network of one node.  As with the nonces, no check of a  *)
(* block or of a chain looks at a balance: with two nodes the same coins   *)
(* are spent twice (run fork_supply).                                      *)

\* What the transfers of c take from and bring to each address, and the balances after
\* executing them.
Out(c) == FoldLeft(Debit, NoBalances, c)
In(c)  == FoldLeft(Credit, NoBalances, c)
Run(bal, c) == FoldLeft(Transfer, bal, c)

\* What was taken out of circulation after the transfers of c.
Burning(sum, c) == FoldLeft(Burn, sum, c)

\* Every transfer of c is covered by the balances and by the transfers before it: what
\* addTransaction tests when it admits them one by one.
Covered(bal, c) ==
  \A i \in DOMAIN c :
    LET before == SubSeq(c, 1, i - 1)
        from == c[i].from
    IN  Out(before)[from] + c[i].amount <= bal[from] + In(before)[from]

\* The inductive invariant: the balances are the rewards of the chain less what it burnt,
\* and they cover what is pending.
CoinInv ==
  /\ SoloInv /\ SupplyConserved
  /\ \A n \in Nodes : /\ balances[n] \in Balances /\ Covered(balances[n], mempool[n])
                      /\ Burnt(chain[n]) \in Nat

\* Induction along the folds above.
Typed(base, c, x) == x \in Balances
DebitsAdd(base, c, x) ==
  \A p \in Seq(Txs) : p \o c \in Seq(Txs) /\ \A a \in Addresses : Out(p \o c)[a] = Out(p)[a] + x[a]
CreditsAdd(base, c, x) ==
  \A p \in Seq(Txs) : p \o c \in Seq(Txs) /\ \A a \in Addresses : In(p \o c)[a] = In(p)[a] + x[a]
FirstThen(base, c, x) ==
  \A bal, tx : tx \in TxType /\ base = Transfer(bal, tx) => x = Run(bal, <<tx>> \o c)
Executed(base, c, x) ==
  Covered(base, c) =>
    /\ x \in Balances /\ TotalBalance(x) + Burning(0, c) = TotalBalance(base)
    /\ \A a \in Addresses : x[a] + Out(c)[a] = base[a] + In(c)[a]
AfterReward(base, c, x) ==
  /\ x \in Nat
  /\ \A s \in Nat, to \in Addresses, time \in Int :
       Burning(s, <<Coinbase(to, time)>> \o c) = s + x

DebitType  == INSTANCE FoldFacts WITH Op <- Debit, Holds <- Typed
DebitSum   == INSTANCE FoldFacts WITH Op <- Debit, Holds <- DebitsAdd
CreditType == INSTANCE FoldFacts WITH Op <- Credit, Holds <- Typed
CreditSum  == INSTANCE FoldFacts WITH Op <- Credit, Holds <- CreditsAdd
RunFirst   == INSTANCE FoldFacts WITH Op <- Transfer, Holds <- FirstThen
RunFold    == INSTANCE FoldFacts WITH Op <- Transfer, Holds <- Executed
LostFold   == INSTANCE FoldFacts WITH Op <- Burn, Holds <- AfterReward
BurntFold  == INSTANCE FoldFacts WITH Op <- BurnBlock, Holds <- Typed

LEMMA OutIs ==
  ASSUME NEW c
  PROVE  Out(c) = DebitType!Fold(NoBalances, c) /\ Out(c) = DebitSum!Fold(NoBalances, c)
<1>1. Out(c) = DebitType!Fold(NoBalances, c)
  BY DEF Out, FoldLeft, MapThenFoldSet, Max, DebitType!Fold,
     DebitType!MapThenFoldSet, DebitType!Max
<1>2. Out(c) = DebitSum!Fold(NoBalances, c)
  BY DEF Out, FoldLeft, MapThenFoldSet, Max, DebitSum!Fold,
     DebitSum!MapThenFoldSet, DebitSum!Max
<1> QED
  BY <1>1, <1>2

LEMMA InIs ==
  ASSUME NEW c
  PROVE  In(c) = CreditType!Fold(NoBalances, c) /\ In(c) = CreditSum!Fold(NoBalances, c)
<1>1. In(c) = CreditType!Fold(NoBalances, c)
  BY DEF In, FoldLeft, MapThenFoldSet, Max, CreditType!Fold,
     CreditType!MapThenFoldSet, CreditType!Max
<1>2. In(c) = CreditSum!Fold(NoBalances, c)
  BY DEF In, FoldLeft, MapThenFoldSet, Max, CreditSum!Fold,
     CreditSum!MapThenFoldSet, CreditSum!Max
<1> QED
  BY <1>1, <1>2

LEMMA RunIs ==
  ASSUME NEW bal, NEW c
  PROVE  Run(bal, c) = RunFirst!Fold(bal, c) /\ Run(bal, c) = RunFold!Fold(bal, c)
<1>1. Run(bal, c) = RunFirst!Fold(bal, c)
  BY DEF Run, FoldLeft, MapThenFoldSet, Max, RunFirst!Fold,
     RunFirst!MapThenFoldSet, RunFirst!Max
<1>2. Run(bal, c) = RunFold!Fold(bal, c)
  BY DEF Run, FoldLeft, MapThenFoldSet, Max, RunFold!Fold,
     RunFold!MapThenFoldSet, RunFold!Max
<1> QED
  BY <1>1, <1>2

LEMMA TransferTypes ==
  ASSUME NEW tx \in Txs
  PROVE  /\ tx.from \in Addresses /\ tx.amount \in Nat
         /\ tx.to \in Addresses \/ tx.to = NoAddress
         /\ ~isCoinbase(tx) /\ tx \in TxType
BY TxsAssumption, AccountsAssumption DEF Addresses, isCoinbase, TxType

LEMMA NoSuchAddress == NoAddress \notin Addresses
BY AccountsAssumption DEF Addresses, NoAddress, GENESIS

LEMMA DebitCredit ==
  ASSUME NEW x \in Balances, NEW tx \in Txs
  PROVE  /\ Debit(x, tx) \in Balances /\ Credit(x, tx) \in Balances
         /\ \A a \in Addresses :
              /\ Debit(x, tx)[a] = x[a] + (IF a = tx.from THEN tx.amount ELSE 0)
              /\ Credit(x, tx)[a] = x[a] + (IF a = tx.to THEN tx.amount ELSE 0)
BY TransferTypes, NoSuchAddress DEF Balances, Debit, Credit

\* The sums of no transfers, of one more, and their types.
LEMMA SumsStep ==
  /\ NoBalances \in Balances
  /\ Out(<<>>) = NoBalances /\ In(<<>>) = NoBalances
  /\ \A c \in Seq(Txs) : Out(c) \in Balances /\ In(c) \in Balances
  /\ \A c \in Seq(Txs), tx \in Txs : /\ Out(Append(c, tx)) = Debit(Out(c), tx)
                                     /\ In(Append(c, tx)) = Credit(In(c), tx)
<1>1. NoBalances \in Balances
  BY DEF NoBalances, Balances
<1>2. Out(<<>>) = NoBalances /\ In(<<>>) = NoBalances
  BY OutIs, InIs, DebitType!FoldEmpty, CreditType!FoldEmpty
<1>3. \A c \in Seq(Txs) : Out(c) \in Balances
  <2>1. Typed(NoBalances, <<>>, NoBalances)
    BY <1>1 DEF Typed
  <2>2. ASSUME NEW c \in Seq(Txs), NEW tx \in Txs,
               Typed(NoBalances, c, DebitType!Fold(NoBalances, c))
        PROVE  Typed(NoBalances, Append(c, tx), Debit(DebitType!Fold(NoBalances, c), tx))
    BY <2>2, DebitCredit DEF Typed
  <2>3. \A c \in Seq(Txs) : Typed(NoBalances, c, DebitType!Fold(NoBalances, c))
    BY <2>1, <2>2, DebitType!FoldInduction
  <2> QED
    BY <2>3, OutIs DEF Typed
<1>4. \A c \in Seq(Txs) : In(c) \in Balances
  <2>1. Typed(NoBalances, <<>>, NoBalances)
    BY <1>1 DEF Typed
  <2>2. ASSUME NEW c \in Seq(Txs), NEW tx \in Txs,
               Typed(NoBalances, c, CreditType!Fold(NoBalances, c))
        PROVE  Typed(NoBalances, Append(c, tx), Credit(CreditType!Fold(NoBalances, c), tx))
    BY <2>2, DebitCredit DEF Typed
  <2>3. \A c \in Seq(Txs) : Typed(NoBalances, c, CreditType!Fold(NoBalances, c))
    BY <2>1, <2>2, CreditType!FoldInduction
  <2> QED
    BY <2>3, InIs DEF Typed
<1>5. ASSUME NEW c \in Seq(Txs), NEW tx \in Txs
      PROVE  /\ Out(Append(c, tx)) = Debit(Out(c), tx)
             /\ In(Append(c, tx)) = Credit(In(c), tx)
  BY OutIs, InIs, DebitType!FoldAppend, CreditType!FoldAppend
<1> QED
  BY <1>1, <1>2, <1>3, <1>4, <1>5

\* The sums of two lists of transfers add up.
LEMMA SumsAdd ==
  ASSUME NEW p \in Seq(Txs), NEW c \in Seq(Txs), NEW a \in Addresses
  PROVE  Out(p \o c)[a] = Out(p)[a] + Out(c)[a] /\ In(p \o c)[a] = In(p)[a] + In(c)[a]
<1>1. ASSUME NEW q \in Seq(Txs), NEW b \in Addresses
      PROVE  Out(q)[b] \in Nat /\ In(q)[b] \in Nat /\ NoBalances[b] = 0
  BY SumsStep DEF Balances, NoBalances
<1>2. DebitsAdd(NoBalances, <<>>, NoBalances) /\ CreditsAdd(NoBalances, <<>>, NoBalances)
  <2>1. \A q \in Seq(Txs) : q \o <<>> = q
    OBVIOUS
  <2> QED
    BY <1>1, <2>1 DEF DebitsAdd, CreditsAdd
<1>3. ASSUME NEW d \in Seq(Txs), NEW tx \in Txs, NEW q \in Seq(Txs), q \o d \in Seq(Txs)
      PROVE  /\ q \o Append(d, tx) \in Seq(Txs)
             /\ q \o Append(d, tx) = Append(q \o d, tx)
  OBVIOUS
<1>4. ASSUME NEW d \in Seq(Txs), NEW tx \in Txs, DebitsAdd(NoBalances, d, Out(d))
      PROVE  DebitsAdd(NoBalances, Append(d, tx), Debit(Out(d), tx))
  <2> SUFFICES ASSUME NEW q \in Seq(Txs)
               PROVE  /\ q \o Append(d, tx) \in Seq(Txs)
                      /\ \A b \in Addresses :
                           Out(q \o Append(d, tx))[b] = Out(q)[b] + Debit(Out(d), tx)[b]
    BY DEF DebitsAdd
  <2>1. q \o d \in Seq(Txs) /\ \A b \in Addresses : Out(q \o d)[b] = Out(q)[b] + Out(d)[b]
    BY <1>4 DEF DebitsAdd
  <2>2. q \o Append(d, tx) \in Seq(Txs) /\ q \o Append(d, tx) = Append(q \o d, tx)
    BY <1>3, <2>1
  <2>3. Out(q \o Append(d, tx)) = Debit(Out(q \o d), tx)
    BY <2>1, <2>2, SumsStep
  <2>4. Out(q \o d) \in Balances /\ Out(d) \in Balances
    BY <2>1, SumsStep
  <2>5. ASSUME NEW b \in Addresses
        PROVE  Out(q \o Append(d, tx))[b] = Out(q)[b] + Debit(Out(d), tx)[b]
    <3>1. PICK k \in Nat : k = IF b = tx.from THEN tx.amount ELSE 0
      BY TransferTypes
    <3>2. Debit(Out(q \o d), tx)[b] = Out(q \o d)[b] + k /\ Debit(Out(d), tx)[b] = Out(d)[b] + k
      BY <2>4, <3>1, DebitCredit
    <3>3. Out(q)[b] \in Nat /\ Out(d)[b] \in Nat /\ Out(q \o d)[b] = Out(q)[b] + Out(d)[b]
      BY <1>1, <2>1
    <3> QED
      BY <2>3, <3>2, <3>3
  <2> QED
    BY <2>2, <2>5
<1>5. ASSUME NEW d \in Seq(Txs), NEW tx \in Txs, CreditsAdd(NoBalances, d, In(d))
      PROVE  CreditsAdd(NoBalances, Append(d, tx), Credit(In(d), tx))
  <2> SUFFICES ASSUME NEW q \in Seq(Txs)
               PROVE  /\ q \o Append(d, tx) \in Seq(Txs)
                      /\ \A b \in Addresses :
                           In(q \o Append(d, tx))[b] = In(q)[b] + Credit(In(d), tx)[b]
    BY DEF CreditsAdd
  <2>1. q \o d \in Seq(Txs) /\ \A b \in Addresses : In(q \o d)[b] = In(q)[b] + In(d)[b]
    BY <1>5 DEF CreditsAdd
  <2>2. q \o Append(d, tx) \in Seq(Txs) /\ q \o Append(d, tx) = Append(q \o d, tx)
    BY <1>3, <2>1
  <2>3. In(q \o Append(d, tx)) = Credit(In(q \o d), tx)
    BY <2>1, <2>2, SumsStep
  <2>4. In(q \o d) \in Balances /\ In(d) \in Balances
    BY <2>1, SumsStep
  <2>5. ASSUME NEW b \in Addresses
        PROVE  In(q \o Append(d, tx))[b] = In(q)[b] + Credit(In(d), tx)[b]
    <3>1. PICK k \in Nat : k = IF b = tx.to THEN tx.amount ELSE 0
      BY TransferTypes
    <3>2. Credit(In(q \o d), tx)[b] = In(q \o d)[b] + k /\ Credit(In(d), tx)[b] = In(d)[b] + k
      BY <2>4, <3>1, DebitCredit
    <3>3. In(q)[b] \in Nat /\ In(d)[b] \in Nat /\ In(q \o d)[b] = In(q)[b] + In(d)[b]
      BY <1>1, <2>1
    <3> QED
      BY <2>3, <3>2, <3>3
  <2> QED
    BY <2>2, <2>5
<1>6. \A d \in Seq(Txs) : DebitsAdd(NoBalances, d, Out(d))
  <2>1. ASSUME NEW d \in Seq(Txs), NEW tx \in Txs,
               DebitsAdd(NoBalances, d, DebitSum!Fold(NoBalances, d))
        PROVE  DebitsAdd(NoBalances, Append(d, tx), Debit(DebitSum!Fold(NoBalances, d), tx))
    BY <1>4, <2>1, OutIs
  <2>2. \A d \in Seq(Txs) : DebitsAdd(NoBalances, d, DebitSum!Fold(NoBalances, d))
    BY <1>2, <2>1, DebitSum!FoldInduction
  <2> QED
    BY <2>2, OutIs
<1>7. \A d \in Seq(Txs) : CreditsAdd(NoBalances, d, In(d))
  <2>1. ASSUME NEW d \in Seq(Txs), NEW tx \in Txs,
               CreditsAdd(NoBalances, d, CreditSum!Fold(NoBalances, d))
        PROVE  CreditsAdd(NoBalances, Append(d, tx), Credit(CreditSum!Fold(NoBalances, d), tx))
    BY <1>5, <2>1, InIs
  <2>2. \A d \in Seq(Txs) : CreditsAdd(NoBalances, d, CreditSum!Fold(NoBalances, d))
    BY <1>2, <2>1, CreditSum!FoldInduction
  <2> QED
    BY <2>2, InIs
<1> QED
  BY <1>6, <1>7 DEF DebitsAdd, CreditsAdd

LEMMA LostIs ==
  ASSUME NEW s, NEW c
  PROVE  Burning(s, c) = LostFold!Fold(s, c) /\ Burnt(c) = BurntFold!Fold(0, c)
<1>1. Burning(s, c) = LostFold!Fold(s, c)
  BY DEF Burning, FoldLeft, MapThenFoldSet, Max, LostFold!Fold, LostFold!MapThenFoldSet, LostFold!Max
<1>2. Burnt(c) = BurntFold!Fold(0, c)
  BY DEF Burnt, FoldLeft, MapThenFoldSet, Max, BurntFold!Fold,
     BurntFold!MapThenFoldSet, BurntFold!Max
<1> QED
  BY <1>1, <1>2

\* What one more block burns is added.
LEMMA BurntStep ==
  ASSUME NEW T, NEW c \in Seq(T), NEW b \in T
  PROVE  Burnt(<<>>) = 0 /\ Burnt(Append(c, b)) = BurnBlock(Burnt(c), b)
<1>1. BurntFold!Fold(0, Append(c, b)) = BurnBlock(BurntFold!Fold(0, c), b)
  BY BurntFold!FoldAppend
<1>2. BurntFold!Fold(0, <<>>) = 0
  BY BurntFold!FoldEmpty
<1> QED
  BY <1>1, <1>2, LostIs

\* One more transfer is burnt or is not.
LEMMA LostStep ==
  ASSUME NEW s, NEW c \in Seq(TxType), NEW tx \in TxType
  PROVE  /\ Burning(s, <<>>) = s
         /\ Burning(s, Append(c, tx)) = Burn(Burning(s, c), tx)
<1>1. LostFold!Fold(s, Append(c, tx)) = Burn(LostFold!Fold(s, c), tx)
  BY LostFold!FoldAppend
<1>2. LostFold!Fold(s, <<>>) = s
  BY LostFold!FoldEmpty
<1> QED
  BY <1>1, <1>2, LostIs

\* A block burns what the transfers after its reward burn.
LEMMA LostAfterReward ==
  ASSUME NEW c \in Seq(Txs)
  PROVE  AfterReward(0, c, Burning(0, c))
<1>1. ASSUME NEW to \in Addresses, NEW time \in Int
      PROVE  Coinbase(to, time) \in TxType /\ Coinbase(to, time).to # NoAddress
  BY RewardAssumption, NoSuchAddress DEF Coinbase, TxType
<1>2. AfterReward(0, <<>>, 0)
  <2> SUFFICES ASSUME NEW s \in Nat, NEW to \in Addresses, NEW time \in Int
               PROVE  Burning(s, <<Coinbase(to, time)>> \o <<>>) = s + 0
    BY DEF AfterReward
  <2>1. PICK cb \in TxType : cb = Coinbase(to, time) /\ cb.to # NoAddress
    BY <1>1
  <2>2. <<cb>> \o <<>> = Append(<<>>, cb) /\ <<>> \in Seq(TxType)
    OBVIOUS
  <2>3. Burning(s, Append(<<>>, cb)) = Burn(s, cb)
    <3>1. /\ Burning(s, <<>>) = s
          /\ Burning(s, Append(<<>>, cb)) = Burn(Burning(s, <<>>), cb)
      BY <2>2, LostStep
    <3> QED
      BY <3>1
  <2>4. Burn(s, cb) = s
    BY <2>1 DEF Burn
  <2>5. Burning(s, <<Coinbase(to, time)>> \o <<>>) = s
    BY <2>1, <2>2, <2>3, <2>4, Zenon
  <2> QED
    BY <2>5
<1>3. ASSUME NEW d \in Seq(Txs), NEW tx \in Txs, AfterReward(0, d, Burning(0, d))
      PROVE  AfterReward(0, Append(d, tx), Burn(Burning(0, d), tx))
  <2>1. PICK l \in Nat : l = Burning(0, d)
    BY <1>3 DEF AfterReward
  <2>2. PICK k \in Nat : k = IF tx.to = NoAddress THEN tx.amount ELSE 0
    BY TransferTypes
  <2>3. \A s \in Nat : Burn(s, tx) = s + k
    BY <2>2 DEF Burn
  <2>4. ASSUME NEW s \in Nat, NEW to \in Addresses, NEW time \in Int
        PROVE  Burning(s, <<Coinbase(to, time)>> \o Append(d, tx)) = s + (l + k)
    <3>1. PICK cb \in TxType : cb = Coinbase(to, time)
      BY <1>1
    <3>2. d \in Seq(TxType) /\ tx \in TxType /\ <<cb>> \in Seq(TxType)
      BY <3>1 DEF TxType
    <3>3. <<cb>> \o d \in Seq(TxType) /\ <<cb>> \o Append(d, tx) = Append(<<cb>> \o d, tx)
      BY <3>2
    <3>4. Burning(s, Append(<<cb>> \o d, tx)) = Burn(Burning(s, <<cb>> \o d), tx)
      BY <3>2, <3>3, LostStep
    <3>5. Burning(s, <<cb>> \o d) = s + l
      BY <1>3, <2>1, <3>1 DEF AfterReward
    <3>6. Burn(s + l, tx) = s + (l + k)
      BY <2>1, <2>2, <2>3
    <3> QED
      BY <3>1, <3>3, <3>4, <3>5, <3>6, Zenon
  <2>5. Burn(Burning(0, d), tx) = l + k /\ l + k \in Nat
    <3>1. Burn(l, tx) = l + k
      BY <2>3
    <3>2. Burn(Burning(0, d), tx) = Burn(l, tx)
      BY <2>1
    <3> QED
      BY <3>1, <3>2
  <2> QED
    BY <2>4, <2>5 DEF AfterReward
<1>4. ASSUME NEW d \in Seq(Txs), NEW tx \in Txs, AfterReward(0, d, LostFold!Fold(0, d))
      PROVE  AfterReward(0, Append(d, tx), Burn(LostFold!Fold(0, d), tx))
  <2>1. LostFold!Fold(0, d) = Burning(0, d)
    BY LostIs
  <2> QED
    BY <1>3, <1>4, <2>1
<1>5. AfterReward(0, c, LostFold!Fold(0, c))
  BY <1>2, <1>4, LostFold!FoldInduction
<1> QED
  BY <1>5, LostIs

\* A transfer that is covered moves coins or burns them, and makes none.
LEMMA CoveredTransfer ==
  ASSUME NEW x \in Balances, NEW tx \in Txs, tx.amount <= x[tx.from]
  PROVE  /\ Transfer(x, tx) \in Balances
         /\ TotalBalance(Transfer(x, tx)) + Burn(0, tx) = TotalBalance(x)
         /\ \A a \in Addresses :
              Transfer(x, tx)[a] + (IF a = tx.from THEN tx.amount ELSE 0)
                = x[a] + (IF a = tx.to THEN tx.amount ELSE 0)
<1>1. /\ tx.from \in Addresses /\ tx.amount \in Nat
      /\ ~isCoinbase(tx) /\ x[tx.from] \in Nat
  BY TransferTypes DEF Balances
<1>2. PICK y : y = Credit(x, tx)
  OBVIOUS
<1>3. /\ y \in Balances
      /\ \A a \in Addresses : y[a] = x[a] + (IF a = tx.to THEN tx.amount ELSE 0)
  BY <1>2, DebitCredit
<1>4. y[tx.from] \in Nat /\ tx.amount <= y[tx.from]
  BY <1>1, <1>3 DEF Balances
<1>5. PICK z : z = [y EXCEPT ![tx.from] = y[tx.from] - tx.amount]
  OBVIOUS
<1>6. Transfer(x, tx) = z
  <2>1. Transfer(x, tx) =
          [y EXCEPT ![tx.from] = IF y[tx.from] > tx.amount THEN y[tx.from] - tx.amount ELSE 0]
    BY <1>1, <1>2 DEF Transfer, Credit
  <2>2. (IF y[tx.from] > tx.amount THEN y[tx.from] - tx.amount ELSE 0) = y[tx.from] - tx.amount
    BY <1>1, <1>4
  <2> QED
    BY <1>5, <2>1, <2>2
<1>7. /\ z \in Balances
      /\ z[tx.from] + tx.amount = y[tx.from]
      /\ \A a \in Addresses \ {tx.from} : z[a] = y[a]
  BY <1>1, <1>3, <1>4, <1>5 DEF Balances
<1>8. /\ TotalBalance(x) \in Nat /\ TotalBalance(y) \in Nat /\ Burn(0, tx) \in Nat
      /\ TotalBalance(y) + Burn(0, tx) = TotalBalance(x) + tx.amount
  <2>1. CASE tx.to = NoAddress
    <3>1. y = x
      BY <1>2, <2>1 DEF Credit
    <3>2. TotalBalance(x) \in Nat
      BY <1>1, TotalUpdate
    <3>3. Burn(0, tx) = tx.amount
      BY <1>1, <2>1 DEF Burn
    <3> QED
      BY <1>1, <3>1, <3>2, <3>3
  <2>2. CASE tx.to \in Addresses
    <3>1. y[tx.to] = x[tx.to] + tx.amount /\ \A a \in Addresses \ {tx.to} : y[a] = x[a]
      BY <1>1, <1>3, <2>2 DEF Balances
    <3>2. /\ TotalBalance(x) \in Nat /\ TotalBalance(y) \in Nat
          /\ TotalBalance(y) + x[tx.to] = TotalBalance(x) + y[tx.to]
      BY <1>3, <2>2, <3>1, TotalUpdate
    <3>3. x[tx.to] \in Nat
      BY <2>2 DEF Balances
    <3>4. Burn(0, tx) = 0
      BY <2>2, NoSuchAddress DEF Burn
    <3> QED
      BY <1>1, <3>1, <3>2, <3>3, <3>4
  <2> QED
    BY <2>1, <2>2, TransferTypes
<1>9. TotalBalance(z) + Burn(0, tx) = TotalBalance(x)
  <2>1. /\ TotalBalance(z) \in Nat
        /\ TotalBalance(z) + y[tx.from] = TotalBalance(y) + z[tx.from]
    BY <1>1, <1>3, <1>7, TotalUpdate
  <2>2. z[tx.from] \in Nat /\ y[tx.from] \in Nat
    BY <1>1, <1>3, <1>7 DEF Balances
  <2>3. ASSUME NEW p \in Nat, NEW q \in Nat, NEW r \in Nat, NEW b \in Nat, NEW w \in Nat,
               NEW u \in Nat, NEW m \in Nat,
               q + b = p + m, r + w = q + u, u + m = w
        PROVE  r + b = p
    BY <2>3
  <2> QED
    BY <1>1, <1>7, <1>8, <2>1, <2>2, <2>3
<1>10. ASSUME NEW a \in Addresses
       PROVE  z[a] + (IF a = tx.from THEN tx.amount ELSE 0)
                = x[a] + (IF a = tx.to THEN tx.amount ELSE 0)
  <2>1. z[a] \in Nat /\ y[a] \in Nat /\ x[a] \in Nat
    BY <1>3, <1>7 DEF Balances
  <2>2. z[a] + (IF a = tx.from THEN tx.amount ELSE 0) = y[a]
    BY <1>1, <1>7, <2>1
  <2> QED
    BY <1>3, <2>2
<1> QED
  BY <1>6, <1>7, <1>9, <1>10

\* A reward makes its amount of coins.
LEMMA RewardTransfer ==
  ASSUME NEW x \in Balances, NEW to \in Addresses, NEW time
  PROVE  LET y == Transfer(x, Coinbase(to, time))
         IN  /\ y \in Balances
             /\ TotalBalance(x) \in Nat
             /\ TotalBalance(y) = TotalBalance(x) + Reward
             /\ \A a \in Addresses : x[a] <= y[a]
<1>1. PICK y : y = [x EXCEPT ![to] = x[to] + Reward]
  OBVIOUS
<1>2. Transfer(x, Coinbase(to, time)) = y
  BY <1>1, NoSuchAddress DEF Transfer, Coinbase, isCoinbase
<1>3. Reward \in Nat /\ x[to] \in Nat
  BY RewardAssumption DEF Balances
<1>4. y \in Balances /\ y[to] = x[to] + Reward /\ \A a \in Addresses \ {to} : y[a] = x[a]
  BY <1>1, <1>3 DEF Balances
<1>5. /\ TotalBalance(x) \in Nat /\ TotalBalance(y) \in Nat
      /\ TotalBalance(y) + x[to] = TotalBalance(x) + y[to]
  BY <1>4, TotalUpdate
<1>6. TotalBalance(y) = TotalBalance(x) + Reward
  BY <1>3, <1>4, <1>5
<1>7. \A a \in Addresses : x[a] <= y[a]
  BY <1>3, <1>4 DEF Balances
<1> QED
  BY <1>2, <1>4, <1>5, <1>6, <1>7

\* The beginnings of a sequence with one more member.
LEMMA Beginnings ==
  ASSUME NEW T, NEW c \in Seq(T), NEW e \in T, NEW l \in Nat, l = Len(c)
  PROVE  /\ Append(c, e) \in Seq(T) /\ DOMAIN c = 1..l /\ DOMAIN Append(c, e) = 1..(l + 1)
         /\ Append(c, e)[l + 1] = e /\ SubSeq(Append(c, e), 1, l) = c
         /\ \A i \in 1..l : /\ Append(c, e)[i] = c[i]
                            /\ SubSeq(Append(c, e), 1, i - 1) = SubSeq(c, 1, i - 1)
<1> DEFINE d == Append(c, e)
<1>1. /\ d \in Seq(T) /\ DOMAIN c = 1..l /\ Len(d) = l + 1 /\ DOMAIN d = 1..(l + 1)
      /\ d[l + 1] = e /\ \A i \in 1..l : d[i] = c[i]
  OBVIOUS
<1> HIDE DEF d
<1>2. SubSeq(d, 1, l) = c
  <2>1. SubSeq(d, 1, l) \in Seq(T) /\ Len(SubSeq(d, 1, l)) = l
        /\ \A i \in 1..l : SubSeq(d, 1, l)[i] = d[i]
    BY <1>1
  <2> QED
    BY <1>1, <2>1, SameSeq
<1>3. ASSUME NEW i \in 1..l PROVE SubSeq(d, 1, i - 1) = SubSeq(c, 1, i - 1)
  <2>1. /\ SubSeq(d, 1, i - 1) \in Seq(T) /\ Len(SubSeq(d, 1, i - 1)) = i - 1
        /\ \A j \in 1..(i - 1) : SubSeq(d, 1, i - 1)[j] = d[j]
    BY <1>1
  <2>2. /\ SubSeq(c, 1, i - 1) \in Seq(T) /\ Len(SubSeq(c, 1, i - 1)) = i - 1
        /\ \A j \in 1..(i - 1) : SubSeq(c, 1, i - 1)[j] = c[j]
    OBVIOUS
  <2>3. \A j \in 1..(i - 1) : j \in 1..l
    OBVIOUS
  <2> QED
    BY <1>1, <2>1, <2>2, <2>3, SameSeq
<1> QED
  BY <1>1, <1>2, <1>3 DEF d

\* One more transfer is covered: the test of addTransaction.
LEMMA CoveredAppend ==
  ASSUME NEW bal, NEW c \in Seq(Txs), NEW tx \in Txs
  PROVE  Covered(bal, Append(c, tx)) <=>
           /\ Covered(bal, c)
           /\ Out(c)[tx.from] + tx.amount <= bal[tx.from] + In(c)[tx.from]
<1>1. PICK l \in Nat : l = Len(c)
  OBVIOUS
<1>2. PICK d : d = Append(c, tx)
  OBVIOUS
<1>3. /\ DOMAIN c = 1..l /\ DOMAIN d = 1..(l + 1) /\ d[l + 1] = tx /\ SubSeq(d, 1, l) = c
      /\ \A i \in 1..l : d[i] = c[i] /\ SubSeq(d, 1, i - 1) = SubSeq(c, 1, i - 1)
  BY <1>1, <1>2, Beginnings
<1>4. (l + 1) - 1 = l /\ \A i \in 1..(l + 1) : i \in 1..l \/ i = l + 1
  OBVIOUS
<1>5. l + 1 \in 1..(l + 1) /\ \A i \in 1..l : i \in 1..(l + 1)
  OBVIOUS
<1>6. ASSUME Covered(bal, d)
      PROVE  /\ Covered(bal, c)
             /\ Out(c)[tx.from] + tx.amount <= bal[tx.from] + In(c)[tx.from]
  <2>1. Covered(bal, c)
    BY <1>3, <1>5, <1>6 DEF Covered
  <2>2. Out(SubSeq(d, 1, (l + 1) - 1))[d[l + 1].from] + d[l + 1].amount
          <= bal[d[l + 1].from] + In(SubSeq(d, 1, (l + 1) - 1))[d[l + 1].from]
    BY <1>3, <1>5, <1>6 DEF Covered
  <2> QED
    BY <1>3, <1>4, <2>1, <2>2
<1>7. ASSUME Covered(bal, c), Out(c)[tx.from] + tx.amount <= bal[tx.from] + In(c)[tx.from]
      PROVE  Covered(bal, d)
  BY <1>3, <1>4, <1>7 DEF Covered
<1> QED
  BY <1>2, <1>6, <1>7

\* Covered transfers can be executed: none is clipped, and none makes coins.
LEMMA CoveredRuns ==
  ASSUME NEW bal \in Balances, NEW c \in Seq(Txs), Covered(bal, c)
  PROVE  /\ Run(bal, c) \in Balances
         /\ TotalBalance(Run(bal, c)) + Burning(0, c) = TotalBalance(bal)
         /\ \A a \in Addresses : Run(bal, c)[a] + Out(c)[a] = bal[a] + In(c)[a]
<1>0. \A x \in Balances : TotalBalance(x) \in Nat
  BY TotalUpdate DEF Addresses
<1>1. Executed(bal, <<>>, bal)
  <2>1. Burning(0, <<>>) = 0
    BY LostIs, LostFold!FoldEmpty
  <2>2. TotalBalance(bal) + Burning(0, <<>>) = TotalBalance(bal)
    BY <1>0, <2>1
  <2>3. \A a \in Addresses : bal[a] + Out(<<>>)[a] = bal[a] + In(<<>>)[a]
    BY SumsStep
  <2> QED
    BY <2>2, <2>3 DEF Executed
<1>2. ASSUME NEW d \in Seq(Txs), NEW tx \in Txs, Executed(bal, d, Run(bal, d))
      PROVE  Executed(bal, Append(d, tx), Transfer(Run(bal, d), tx))
  <2> SUFFICES ASSUME Covered(bal, Append(d, tx))
               PROVE  /\ Transfer(Run(bal, d), tx) \in Balances
                      /\ TotalBalance(Transfer(Run(bal, d), tx)) + Burning(0, Append(d, tx))
                           = TotalBalance(bal)
                      /\ \A a \in Addresses :
                           Transfer(Run(bal, d), tx)[a] + Out(Append(d, tx))[a]
                             = bal[a] + In(Append(d, tx))[a]
    BY DEF Executed
  <2>1. /\ Covered(bal, d)
        /\ Out(d)[tx.from] + tx.amount <= bal[tx.from] + In(d)[tx.from]
    BY CoveredAppend
  <2>2. PICK x : x = Run(bal, d)
    OBVIOUS
  <2>3. /\ x \in Balances /\ TotalBalance(x) + Burning(0, d) = TotalBalance(bal)
        /\ \A a \in Addresses : x[a] + Out(d)[a] = bal[a] + In(d)[a]
    BY <1>2, <2>1, <2>2 DEF Executed
  <2>4. \A a \in Addresses : x[a] \in Nat /\ bal[a] \in Nat /\ Out(d)[a] \in Nat /\ In(d)[a] \in Nat
    BY <2>3, SumsStep DEF Balances
  <2>5. tx.from \in Addresses /\ tx.amount \in Nat
    BY TransferTypes
  <2>6. tx.amount <= x[tx.from]
    BY <2>1, <2>3, <2>4, <2>5
  <2>7. PICK y : y = Transfer(x, tx)
    OBVIOUS
  <2>8. /\ y \in Balances /\ TotalBalance(y) + Burn(0, tx) = TotalBalance(x)
        /\ \A a \in Addresses :
             y[a] + (IF a = tx.from THEN tx.amount ELSE 0)
               = x[a] + (IF a = tx.to THEN tx.amount ELSE 0)
    BY <2>3, <2>6, <2>7, CoveredTransfer
  <2>9. ASSUME NEW a \in Addresses
        PROVE  y[a] + Out(Append(d, tx))[a] = bal[a] + In(Append(d, tx))[a]
    <3>1. PICK o \in Nat : o = IF a = tx.from THEN tx.amount ELSE 0
      BY <2>5
    <3>2. PICK i \in Nat : i = IF a = tx.to THEN tx.amount ELSE 0
      BY <2>5
    <3>3. Out(Append(d, tx)) = Debit(Out(d), tx) /\ In(Append(d, tx)) = Credit(In(d), tx)
          /\ Out(d) \in Balances /\ In(d) \in Balances
      BY SumsStep
    <3>4. Out(Append(d, tx))[a] = Out(d)[a] + o /\ In(Append(d, tx))[a] = In(d)[a] + i
      BY <3>1, <3>2, <3>3, DebitCredit
    <3>5. y[a] + o = x[a] + i /\ x[a] + Out(d)[a] = bal[a] + In(d)[a]
      BY <2>3, <2>8, <3>1, <3>2
    <3>6. y[a] \in Nat
      BY <2>8 DEF Balances
    <3>7. y[a] + (Out(d)[a] + o) = bal[a] + (In(d)[a] + i)
      <4>1. PICK p \in Nat : p = y[a]
        BY <3>6
      <4>2. PICK q \in Nat : q = x[a]
        BY <2>4
      <4>3. PICK r \in Nat : r = bal[a]
        BY <2>4
      <4>4. PICK u \in Nat : u = Out(d)[a]
        BY <2>4
      <4>5. PICK v \in Nat : v = In(d)[a]
        BY <2>4
      <4>6. p + o = q + i /\ q + u = r + v
        BY <3>5, <4>1, <4>2, <4>3, <4>4, <4>5
      <4>7. p + (u + o) = r + (v + i)
        BY <4>6
      <4> QED
        BY <4>1, <4>3, <4>4, <4>5, <4>7
    <3> QED
      BY <3>4, <3>7
  <2>10. TotalBalance(y) + Burning(0, Append(d, tx)) = TotalBalance(bal)
    <3>1. Burning(0, d) \in Nat
      BY LostAfterReward DEF AfterReward
    <3>2. Burning(0, Append(d, tx)) = Burn(Burning(0, d), tx)
      <4>1. d \in Seq(TxType) /\ tx \in TxType
        BY DEF TxType
      <4> QED
        BY <4>1, LostStep
    <3>3. PICK k \in Nat : k = IF tx.to = NoAddress THEN tx.amount ELSE 0
      BY <2>5
    <3>4. Burn(Burning(0, d), tx) = Burning(0, d) + k /\ Burn(0, tx) = k
      BY <3>1, <3>3 DEF Burn
    <3>5. TotalBalance(x) \in Nat /\ TotalBalance(y) \in Nat
      BY <1>0, <2>3, <2>8
    <3> QED
      BY <2>3, <2>8, <3>1, <3>2, <3>3, <3>4, <3>5
  <2> QED
    BY <2>2, <2>7, <2>8, <2>9, <2>10
<1>3. \A d \in Seq(Txs) : Executed(bal, d, RunFold!Fold(bal, d))
  <2>1. ASSUME NEW d \in Seq(Txs), NEW tx \in Txs, Executed(bal, d, RunFold!Fold(bal, d))
        PROVE  Executed(bal, Append(d, tx), Transfer(RunFold!Fold(bal, d), tx))
    BY <1>2, <2>1, RunIs
  <2> QED
    BY <1>1, <2>1, RunFold!FoldInduction
<1>4. Executed(bal, c, Run(bal, c))
  BY <1>3, RunIs
<1> QED
  BY <1>4 DEF Executed

LEMMA FrontType ==
  ASSUME NEW T, NEW c \in Seq(T), NEW i \in 0..Len(c)
  PROVE  SubSeq(c, 1, i) \in Seq(T)
OBVIOUS

\* Larger balances cover what smaller ones do.
LEMMA CoveredMore ==
  ASSUME NEW x \in Balances, NEW y \in Balances, NEW c \in Seq(Txs), Covered(x, c),
         \A a \in Addresses : x[a] <= y[a]
  PROVE  Covered(y, c)
<1> SUFFICES ASSUME NEW i \in DOMAIN c
             PROVE  Out(SubSeq(c, 1, i - 1))[c[i].from] + c[i].amount
                      <= y[c[i].from] + In(SubSeq(c, 1, i - 1))[c[i].from]
  BY DEF Covered
<1>1. PICK a \in Addresses : a = c[i].from
  BY TransferTypes
<1>2. PICK m \in Nat : m = c[i].amount
  BY TransferTypes
<1>3. PICK p \in Seq(Txs) : p = SubSeq(c, 1, i - 1)
  <2>1. i - 1 \in 0..Len(c)
    OBVIOUS
  <2> QED
    BY <2>1, FrontType
<1>4. PICK o \in Nat : o = Out(p)[a]
  BY SumsStep DEF Balances
<1>5. PICK j \in Nat : j = In(p)[a]
  BY SumsStep DEF Balances
<1>6. PICK u \in Nat : u = x[a]
  BY DEF Balances
<1>7. PICK v \in Nat : v = y[a] /\ u <= v
  BY <1>6 DEF Balances
<1>8. o + m <= u + j
  BY <1>1, <1>2, <1>3, <1>4, <1>5, <1>6 DEF Covered
<1>9. o + m <= v + j
  BY <1>7, <1>8
<1> QED
  BY <1>1, <1>2, <1>3, <1>4, <1>5, <1>7, <1>9

\* A beginning of covered transfers is covered.
LEMMA CoveredFront ==
  ASSUME NEW x, NEW m \in Seq(Txs), NEW k \in 0..Len(m), Covered(x, m)
  PROVE  SubSeq(m, 1, k) \in Seq(Txs) /\ Covered(x, SubSeq(m, 1, k))
<1>1. PICK p : p = SubSeq(m, 1, k)
  OBVIOUS
<1>2. /\ p \in Seq(Txs) /\ Len(p) = k /\ DOMAIN p = 1..k
      /\ \A i \in 1..k : p[i] = m[i] /\ i \in DOMAIN m
  BY <1>1
<1>3. ASSUME NEW i \in 1..k PROVE SubSeq(p, 1, i - 1) = SubSeq(m, 1, i - 1)
  <2>1. /\ SubSeq(p, 1, i - 1) \in Seq(Txs) /\ Len(SubSeq(p, 1, i - 1)) = i - 1
        /\ \A j \in 1..(i - 1) : SubSeq(p, 1, i - 1)[j] = p[j]
    BY <1>2
  <2>2. /\ SubSeq(m, 1, i - 1) \in Seq(Txs) /\ Len(SubSeq(m, 1, i - 1)) = i - 1
        /\ \A j \in 1..(i - 1) : SubSeq(m, 1, i - 1)[j] = m[j]
    OBVIOUS
  <2>3. \A j \in 1..(i - 1) : j \in 1..k
    OBVIOUS
  <2> QED
    BY <1>2, <2>1, <2>2, <2>3, SameSeq
<1>4. Covered(x, p)
  BY <1>2, <1>3 DEF Covered
<1> QED
  BY <1>1, <1>2, <1>4

\* A beginning of a list of transfers is the first k of them and a beginning of the rest.
LEMMA FrontAndRest ==
  ASSUME NEW T, NEW m \in Seq(T), NEW l \in Nat, l = Len(m), NEW k \in 0..l, NEW j \in 0..(l - k)
  PROVE  /\ SubSeq(m, 1, k) \in Seq(T) /\ SubSeq(SubSeq(m, k + 1, l), 1, j) \in Seq(T)
         /\ SubSeq(m, 1, k + j) = SubSeq(m, 1, k) \o SubSeq(SubSeq(m, k + 1, l), 1, j)
<1>1. PICK p : p = SubSeq(m, 1, k)
  OBVIOUS
<1>2. PICK r : r = SubSeq(m, k + 1, l)
  OBVIOUS
<1>3. p \in Seq(T) /\ Len(p) = k /\ \A i \in 1..k : p[i] = m[i]
  BY <1>1
<1>4. r \in Seq(T) /\ Len(r) = l - k /\ \A i \in 1..(l - k) : r[i] = m[i + k]
  BY <1>2, TailFacts
<1>5. PICK q : q = SubSeq(r, 1, j)
  OBVIOUS
<1>6. q \in Seq(T) /\ Len(q) = j /\ \A i \in 1..j : q[i] = r[i]
  BY <1>4, <1>5
<1>7. PICK s : s = SubSeq(m, 1, k + j)
  OBVIOUS
<1>8. s \in Seq(T) /\ Len(s) = k + j /\ \A i \in 1..(k + j) : s[i] = m[i]
  BY <1>7
<1>9. /\ p \o q \in Seq(T) /\ Len(p \o q) = k + j
      /\ \A i \in 1..(k + j) : (p \o q)[i] = IF i <= k THEN p[i] ELSE q[i - k]
  BY <1>3, <1>6
<1>10. ASSUME NEW i \in 1..(k + j) PROVE (p \o q)[i] = s[i]
  <2>1. CASE i <= k
    BY <1>3, <1>8, <1>9, <2>1
  <2>2. CASE i > k
    <3>1. i - k \in 1..j /\ i - k \in 1..(l - k) /\ (i - k) + k = i /\ ~(i <= k)
      BY <2>2
    <3>2. (p \o q)[i] = q[i - k]
      BY <1>9, <3>1
    <3>3. q[i - k] = m[i]
      BY <1>4, <1>6, <3>1
    <3> QED
      BY <1>8, <3>2, <3>3
  <2>3. i <= k \/ i > k
    OBVIOUS
  <2> QED
    BY <2>1, <2>2, <2>3, Zenon
<1>11. s = p \o q
  BY <1>8, <1>9, <1>10, SameSeq
<1> QED
  BY <1>1, <1>2, <1>3, <1>5, <1>6, <1>7, <1>11

\* What is left of covered transfers is covered by the balances after the others.
LEMMA CoveredRest ==
  ASSUME NEW x \in Balances, NEW m \in Seq(Txs), NEW k \in 0..Len(m), Covered(x, m)
  PROVE  Covered(Run(x, SubSeq(m, 1, k)), SubSeq(m, k + 1, Len(m)))
<1>1. PICK l \in Nat : l = Len(m)
  OBVIOUS
<1>2. PICK p \in Seq(Txs) : p = SubSeq(m, 1, k)
  BY FrontType
<1>3. PICK y : y = Run(x, p)
  OBVIOUS
<1>4. y \in Balances /\ \A a \in Addresses : y[a] + Out(p)[a] = x[a] + In(p)[a]
  BY <1>2, <1>3, CoveredFront, CoveredRuns
<1>5. PICK r : r = SubSeq(m, k + 1, l)
  OBVIOUS
<1>6. r \in Seq(Txs) /\ DOMAIN r = 1..(l - k) /\ \A i \in 1..(l - k) : r[i] = m[i + k]
  BY <1>1, <1>5, TailFacts
<1>7. ASSUME NEW i \in DOMAIN r
      PROVE  Out(SubSeq(r, 1, i - 1))[r[i].from] + r[i].amount
               <= y[r[i].from] + In(SubSeq(r, 1, i - 1))[r[i].from]
  <2>1. PICK q \in Seq(Txs) : q = SubSeq(r, 1, i - 1)
    <3>1. i - 1 \in 0..Len(r)
      BY <1>6
    <3> QED
      BY <1>6, <3>1, FrontType
  <2>2. i - 1 \in 0..(l - k) /\ (i + k) - 1 = k + (i - 1) /\ i + k \in DOMAIN m /\ i \in 1..(l - k)
    BY <1>1, <1>6
  <2>3. SubSeq(m, 1, (i + k) - 1) = p \o q
    <3>1. PICK j \in 0..(l - k) : j = i - 1 /\ (i + k) - 1 = k + j
      BY <2>2
    <3>2. k \in 0..l
      BY <1>1
    <3>3. SubSeq(m, 1, k + j) = SubSeq(m, 1, k) \o SubSeq(SubSeq(m, k + 1, l), 1, j)
      BY <1>1, <3>2, FrontAndRest
    <3> QED
      BY <1>2, <1>5, <2>1, <3>1, <3>3
  <2>4. PICK tx \in Txs : tx = r[i] /\ tx = m[i + k]
    BY <1>6, <2>2
  <2>5. PICK a \in Addresses : a = tx.from
    BY TransferTypes
  <2>6. PICK u \in Nat : u = tx.amount
    BY TransferTypes
  <2>7. Out(p \o q)[a] + u <= x[a] + In(p \o q)[a]
    BY <2>2, <2>3, <2>4, <2>5, <2>6 DEF Covered
  <2>8. PICK op \in Nat : op = Out(p)[a]
    BY SumsStep DEF Balances
  <2>9. PICK oq \in Nat : oq = Out(q)[a]
    BY SumsStep DEF Balances
  <2>10. PICK ip \in Nat : ip = In(p)[a]
    BY SumsStep DEF Balances
  <2>11. PICK iq \in Nat : iq = In(q)[a]
    BY SumsStep DEF Balances
  <2>12. PICK xa \in Nat : xa = x[a]
    BY DEF Balances
  <2>13. PICK ya \in Nat : ya = y[a]
    BY <1>4 DEF Balances
  <2>14. ya + op = xa + ip
    BY <1>4, <2>8, <2>10, <2>12, <2>13
  <2>15. (op + oq) + u <= xa + (ip + iq)
    BY <2>7, <2>8, <2>9, <2>10, <2>11, <2>12, SumsAdd
  <2>16. oq + u <= ya + iq
    BY <2>14, <2>15
  <2> QED
    BY <2>1, <2>4, <2>5, <2>6, <2>9, <2>11, <2>13, <2>16
<1>8. Covered(y, r)
  BY <1>7 DEF Covered
<1> QED
  BY <1>1, <1>2, <1>3, <1>5, <1>8

LEMMA RunAppend ==
  ASSUME NEW x, NEW c \in Seq(TxType), NEW tx \in TxType
  PROVE  Run(x, Append(c, tx)) = Transfer(Run(x, c), tx)
<1>1. RunFirst!Fold(x, Append(c, tx)) = Transfer(RunFirst!Fold(x, c), tx)
  BY RunFirst!FoldAppend
<1> QED
  BY <1>1, RunIs

\* The first transaction is executed first.
LEMMA RunCons ==
  ASSUME NEW bal, NEW tx \in TxType, NEW c \in Seq(Txs)
  PROVE  Run(bal, <<tx>> \o c) = Run(Transfer(bal, tx), c)
<1>1. PICK base : base = Transfer(bal, tx)
  OBVIOUS
<1>2. ASSUME NEW x, NEW t \in TxType, NEW d \in Seq(Txs), NEW e \in Txs
      PROVE  /\ <<t>> \o Append(d, e) = Append(<<t>> \o d, e)
             /\ Run(x, Append(<<t>> \o d, e)) = Transfer(Run(x, <<t>> \o d), e)
  <2>1. <<t>> \in Seq(TxType) /\ d \in Seq(TxType) /\ e \in TxType
    BY DEF TxType
  <2>2. <<t>> \o d \in Seq(TxType) /\ <<t>> \o Append(d, e) = Append(<<t>> \o d, e)
    BY <2>1
  <2>3. Run(x, Append(<<t>> \o d, e)) = Transfer(Run(x, <<t>> \o d), e)
    BY <2>1, <2>2, RunAppend
  <2> QED
    BY <2>2, <2>3
<1>3. FirstThen(base, <<>>, base)
  <2> SUFFICES ASSUME NEW x, NEW t \in TxType, base = Transfer(x, t)
               PROVE  base = Run(x, <<t>> \o <<>>)
    BY DEF FirstThen
  <2>1. <<t>> \o <<>> = Append(<<>>, t) /\ <<>> \in Seq(TxType)
    OBVIOUS
  <2>2. Run(x, <<>>) = x
    BY RunIs, RunFirst!FoldEmpty
  <2>3. Run(x, Append(<<>>, t)) = Transfer(Run(x, <<>>), t)
    BY <2>1, RunAppend
  <2> QED
    BY <2>1, <2>2, <2>3
<1>4. ASSUME NEW d \in Seq(Txs), NEW e \in Txs, FirstThen(base, d, RunFirst!Fold(base, d))
      PROVE  FirstThen(base, Append(d, e), Transfer(RunFirst!Fold(base, d), e))
  <2> SUFFICES ASSUME NEW x, NEW t \in TxType, base = Transfer(x, t)
               PROVE  Transfer(RunFirst!Fold(base, d), e) = Run(x, <<t>> \o Append(d, e))
    BY DEF FirstThen
  <2>1. RunFirst!Fold(base, d) = Run(x, <<t>> \o d)
    BY <1>4 DEF FirstThen
  <2>2. /\ <<t>> \o Append(d, e) = Append(<<t>> \o d, e)
        /\ Run(x, Append(<<t>> \o d, e)) = Transfer(Run(x, <<t>> \o d), e)
    BY <1>2, Zenon
  <2> QED
    BY <2>1, <2>2, Zenon
<1>5. FirstThen(base, c, RunFirst!Fold(base, c))
  BY <1>3, <1>4, RunFirst!FoldInduction
<1> QED
  BY <1>1, <1>5, RunIs DEF FirstThen

\* Applying a mined block: the reward, then the front of the mempool.
LEMMA MinedBalances ==
  ASSUME ChainInv, NEW n \in Nodes, NEW miner \in Accounts, NEW x
  PROVE  ApplyBalances(x, newBlock(n, miner)) =
           Run(Transfer(x, Coinbase(miner, clock(n))), SubSeq(mempool[n], 1, txCount(n)))
<1>1. PICK p : p = SubSeq(mempool[n], 1, txCount(n))
  OBVIOUS
<1>2. p \in Seq(Txs)
  BY <1>1, HeldChain, TxCountType, FrontType
<1>3. PICK cb : cb = Coinbase(miner, clock(n))
  OBVIOUS
<1>4. cb \in TxType
  <2>1. clock(n) \in Int
    BY ClockType DEF ChainInv
  <2> QED
    BY <1>3, <2>1, RewardAssumption DEF Coinbase, TxType, Addresses
<1>5. newBlock(n, miner).transactions = <<cb>> \o p
  BY <1>1, <1>3, Zenon DEF newBlock, Block
<1>6. ApplyBalances(x, newBlock(n, miner)) = Run(x, <<cb>> \o p)
  BY <1>5, Zenon DEF ApplyBalances, Run
<1>7. Run(x, <<cb>> \o p) = Run(Transfer(x, cb), p)
  BY <1>2, <1>4, RunCons
<1> QED
  BY <1>1, <1>3, <1>6, <1>7, Zenon

\* A mined block burns what the front of the mempool burns.
LEMMA MinedLosses ==
  ASSUME ChainInv, NEW n \in Nodes, NEW miner \in Accounts, NEW s \in Nat
  PROVE  LET p == SubSeq(mempool[n], 1, txCount(n))
         IN  Burning(0, p) \in Nat /\ BurnBlock(s, newBlock(n, miner)) = s + Burning(0, p)
<1>1. PICK p : p = SubSeq(mempool[n], 1, txCount(n))
  OBVIOUS
<1>2. p \in Seq(Txs)
  BY <1>1, HeldChain, TxCountType, FrontType
<1>3. clock(n) \in Int /\ miner \in Addresses
  BY ClockType DEF ChainInv, Addresses
<1>4. AfterReward(0, p, Burning(0, p))
  BY <1>2, LostAfterReward
<1>5. Burning(s, <<Coinbase(miner, clock(n))>> \o p) = s + Burning(0, p) /\ Burning(0, p) \in Nat
  BY <1>3, <1>4 DEF AfterReward
<1>6. newBlock(n, miner).transactions = <<Coinbase(miner, clock(n))>> \o p
  BY <1>1, Zenon DEF newBlock, Block
<1>7. BurnBlock(s, newBlock(n, miner)) = s + Burning(0, p)
  BY <1>5, <1>6, Zenon DEF BurnBlock, Burning
<1> QED
  BY <1>1, <1>5, <1>7

\* Mining takes the front of the mempool and keeps the books.
LEMMA CoveredMine ==
  ASSUME ChainInv, NEW n \in Nodes, NEW miner \in Accounts, NEW x \in Balances,
         Covered(x, mempool[n])
  PROVE  LET y == ApplyBalances(x, newBlock(n, miner))
             p == SubSeq(mempool[n], 1, txCount(n))
         IN  /\ y \in Balances /\ TotalBalance(x) \in Nat /\ TotalBalance(y) \in Nat
             /\ TotalBalance(y) + Burning(0, p) = TotalBalance(x) + Reward
             /\ Covered(y, SubSeq(mempool[n], txCount(n) + 1, Len(mempool[n])))
<1>1. mempool[n] \in Seq(Txs) /\ txCount(n) \in 0..Len(mempool[n])
  BY HeldChain, TxCountType
<1>2. PICK w : w = Transfer(x, Coinbase(miner, clock(n)))
  OBVIOUS
<1>3. miner \in Addresses
  BY DEF Addresses
<1>4. /\ w \in Balances /\ TotalBalance(x) \in Nat /\ TotalBalance(w) = TotalBalance(x) + Reward
      /\ \A a \in Addresses : x[a] <= w[a]
  BY <1>2, <1>3, RewardTransfer
<1>5. Covered(w, mempool[n])
  BY <1>1, <1>4, CoveredMore
<1>6. PICK p : p = SubSeq(mempool[n], 1, txCount(n))
  OBVIOUS
<1>7. p \in Seq(Txs) /\ Covered(w, p)
  BY <1>1, <1>5, <1>6, CoveredFront
<1>8. PICK y : y = Run(w, p)
  OBVIOUS
<1>9. y \in Balances /\ TotalBalance(y) + Burning(0, p) = TotalBalance(w) /\ TotalBalance(y) \in Nat
  BY <1>3, <1>4, <1>7, <1>8, CoveredRuns, TotalUpdate
<1>10. Covered(y, SubSeq(mempool[n], txCount(n) + 1, Len(mempool[n])))
  BY <1>1, <1>4, <1>5, <1>6, <1>8, CoveredRest
<1>11. ApplyBalances(x, newBlock(n, miner)) = y
  BY <1>2, <1>6, <1>8, MinedBalances
<1> QED
  BY <1>4, <1>6, <1>9, <1>10, <1>11

LEMMA CoinInit ==
  ASSUME Synchronised, OneNode, Init
  PROVE  CoinInv
<1>1. SoloInv
  BY SoloInit
<1>2. ASSUME NEW n \in Nodes
      PROVE  /\ balances[n] \in Balances /\ Covered(balances[n], mempool[n])
             /\ TotalBalance(balances[n]) + Burnt(chain[n]) = Reward * Len(chain[n])
             /\ Burnt(chain[n]) \in Nat
  <2>1. PICK g : g = createGenesis(InitialDifficulty[n])
    OBVIOUS
  <2>2. /\ chain[n] = <<g>> /\ mempool[n] = <<>> /\ balances[n] = RebuildBalances(chain[n])
    BY <2>1 DEF Init, GenesisChain
  <2>3. <<g>> = Append(<<>>, g) /\ <<>> \in Seq({g}) /\ g \in {g}
    OBVIOUS
  <2>4. RebuildBalances(<<>>) = NoBalances
    BY FoldsAreRebuilds, BalanceFold!FoldEmpty
  <2>5. balances[n] = ApplyBalances(NoBalances, g)
    <3>1. RebuildBalances(Append(<<>>, g)) = ApplyBalances(RebuildBalances(<<>>), g)
      BY <2>3, RebuildAppend
    <3> QED
      BY <2>2, <2>3, <2>4, <3>1
  <2>6. PICK cb : cb = Coinbase(GENESIS, 0)
    OBVIOUS
  <2>7. ApplyBalances(NoBalances, g) = Run(NoBalances, <<cb>>)
    BY <2>1, <2>6 DEF createGenesis, Block, ApplyBalances, Run
  <2>8. cb \in TxType /\ <<>> \in Seq(TxType) /\ <<cb>> = Append(<<>>, cb)
    BY <2>6, RewardAssumption DEF Coinbase, TxType, Addresses
  <2>9. Run(NoBalances, <<>>) = NoBalances
    BY RunIs, RunFirst!FoldEmpty
  <2>10. Run(NoBalances, <<cb>>) = Transfer(NoBalances, cb)
    <3>1. Run(NoBalances, Append(<<>>, cb)) = Transfer(Run(NoBalances, <<>>), cb)
      BY <2>8, RunAppend
    <3> QED
      BY <2>8, <2>9, <3>1
  <2>11. /\ balances[n] \in Balances
         /\ TotalBalance(balances[n]) = TotalBalance(NoBalances) + Reward
    <3>1. NoBalances \in Balances /\ GENESIS \in Addresses
      BY SumsStep DEF Addresses
    <3>2. /\ Transfer(NoBalances, cb) \in Balances
          /\ TotalBalance(Transfer(NoBalances, cb)) = TotalBalance(NoBalances) + Reward
      BY <2>6, <3>1, RewardTransfer
    <3> QED
      BY <2>5, <2>7, <2>10, <3>2
  <2>12. TotalBalance(NoBalances) = 0
    BY TotalOfNothing
  <2>13. Reward * Len(chain[n]) = Reward /\ Reward \in Nat
    <3>1. Len(chain[n]) = 1
      BY <2>2
    <3> QED
      BY <3>1, RewardAssumption
  <2>14. Covered(balances[n], mempool[n])
    BY <2>2 DEF Covered
  <2>15. Burnt(chain[n]) = 0
    <3>1. Burnt(<<>>) = 0 /\ Burnt(Append(<<>>, g)) = BurnBlock(Burnt(<<>>), g)
      BY <2>3, BurntStep
    <3>2. g.transactions = Append(<<>>, cb)
      BY <2>1, <2>6, <2>8 DEF createGenesis, Block
    <3>3. Burning(0, Append(<<>>, cb)) = Burn(Burning(0, <<>>), cb)
          /\ Burning(0, <<>>) = 0
      BY <2>8, LostStep
    <3>4. cb.to # NoAddress
      BY <2>6, NoSuchAddress DEF Coinbase, Addresses
    <3>5. Burn(0, cb) = 0
      BY <3>4 DEF Burn
    <3>6. BurnBlock(0, g) = Burning(0, Append(<<>>, cb))
      BY <3>2, Zenon DEF BurnBlock, Burning
    <3> QED
      BY <2>2, <2>3, <3>1, <3>3, <3>5, <3>6, Zenon
  <2> QED
    BY <2>11, <2>12, <2>13, <2>14, <2>15
<1> QED
  BY <1>1, <1>2 DEF CoinInv, SupplyConserved

LEMMA CoinAdd ==
  ASSUME OneNode, CoinInv, SoloInv', NEW n \in Nodes, NEW tx \in Txs, addTransaction(n, tx)
  PROVE  CoinInv'
<1>1. ChainInv /\ mempool[n] \in Seq(Txs)
  BY HeldChain DEF CoinInv, SoloInv, ReplicaInv
<1>2. /\ mempool' = [mempool EXCEPT ![n] = Append(mempool[n], tx)]
      /\ balances' = balances /\ chain' = chain /\ sufficientBalance(n, tx)
  BY <1>1 DEF addTransaction, admissible, stateVars, ChainInv, TypeOK
<1>3. mempool'[n] = Append(mempool[n], tx)
  BY <1>1, <1>2 DEF ChainInv, TypeOK
<1>4. balances[n] \in Balances /\ Covered(balances[n], mempool[n])
  BY DEF CoinInv
<1>5. PICK a \in Addresses : a = tx.from
  BY TransferTypes
<1>6. balances[n][a] + In(mempool[n])[a] >= Out(mempool[n])[a] + tx.amount
  BY <1>2, <1>5 DEF sufficientBalance, pendingIncoming, pendingOutgoing, In, Out
<1>7. /\ balances[n][a] \in Nat /\ In(mempool[n])[a] \in Nat /\ Out(mempool[n])[a] \in Nat
      /\ tx.amount \in Nat
  BY <1>1, <1>4, SumsStep, TransferTypes DEF Balances
<1>8. Out(mempool[n])[tx.from] + tx.amount <= balances[n][tx.from] + In(mempool[n])[tx.from]
  BY <1>5, <1>6, <1>7
<1>9. Covered(balances[n], Append(mempool[n], tx))
  BY <1>1, <1>4, <1>8, CoveredAppend
<1>10. \A k \in Nodes : /\ balances'[k] \in Balances /\ Covered(balances'[k], mempool'[k])
                        /\ Burnt(chain'[k]) \in Nat
  BY <1>2, <1>3, <1>4, <1>9 DEF OneNode, CoinInv
<1>11. SupplyConserved'
  BY <1>2 DEF CoinInv, SupplyConserved
<1> QED
  BY <1>10, <1>11 DEF CoinInv

LEMMA CoinMine ==
  ASSUME OneNode, CoinInv, SoloInv', NEW n \in Nodes, NEW miner \in Accounts,
         minePendingTransactions(n, miner)
  PROVE  CoinInv'
<1>0. /\ ChainInv /\ StateInv /\ Linked(chain[n])
      /\ balances[n] \in Balances /\ Covered(balances[n], mempool[n])
      /\ TotalBalance(balances[n]) + Burnt(chain[n]) = Reward * Len(chain[n])
      /\ Burnt(chain[n]) \in Nat
  BY HeldChain DEF CoinInv, SoloInv, ReplicaInv, SupplyConserved
<1>1. PICK b : b = newBlock(n, miner)
  OBVIOUS
<1>2. PICK y : y = ApplyBalances(balances[n], b)
  OBVIOUS
<1>3. PICK r : r = SubSeq(mempool[n], txCount(n) + 1, Len(mempool[n]))
  OBVIOUS
<1>4. PICK q : q = Burning(0, SubSeq(mempool[n], 1, txCount(n)))
  OBVIOUS
<1>4a. /\ y \in Balances /\ TotalBalance(balances[n]) \in Nat /\ TotalBalance(y) \in Nat
       /\ TotalBalance(y) + q = TotalBalance(balances[n]) + Reward
       /\ Covered(y, r)
  BY <1>0, <1>1, <1>2, <1>3, <1>4, CoveredMine
<1>5. PICK x : x = Append(chain[n], b)
  OBVIOUS
<1>6. /\ chain' = [chain EXCEPT ![n] = x] /\ mempool' = [mempool EXCEPT ![n] = r]
      /\ balances' = [balances EXCEPT ![n] = y]
  <2>1. applyBlockState(n, b)
    BY <1>1 DEF minePendingTransactions
  <2>2. balances' = [balances EXCEPT ![n] = y]
    BY <1>2, <2>1 DEF applyBlockState
  <2> QED
    BY <1>0, <1>1, <1>3, <1>5, <2>2 DEF minePendingTransactions, ChainInv, TypeOK
<1>7. chain'[n] = x /\ mempool'[n] = r /\ balances'[n] = y
  BY <1>0, <1>6 DEF ChainInv, TypeOK, StateInv
<1>8. PICK l \in Nat : l = Len(chain[n])
  BY <1>0, LinkedType
<1>9. Len(x) = l + 1 /\ Burnt(x) = Burnt(chain[n]) + q /\ q \in Nat
  <2>1. chain[n] \in Seq(ToSet(chain[n]) \cup {b}) /\ b \in ToSet(chain[n]) \cup {b}
    BY <1>0, LinkedType
  <2>2. Burnt(x) = BurnBlock(Burnt(chain[n]), b)
    BY <1>5, <2>1, BurntStep
  <2>3. q \in Nat /\ BurnBlock(Burnt(chain[n]), b) = Burnt(chain[n]) + q
    BY <1>0, <1>1, <1>4, MinedLosses
  <2> QED
    BY <1>5, <1>8, <2>1, <2>2, <2>3
<1>10. TotalBalance(y) + Burnt(x) = Reward * Len(x) /\ Burnt(x) \in Nat
  <2>1. Reward \in Nat
    BY RewardAssumption
  <2>2. Reward * (l + 1) = Reward * l + Reward /\ Reward * l \in Nat
    BY <2>1
  <2>3. PICK k \in Nat : k = Reward * l
    BY <2>2
  <2>4. TotalBalance(y) + Burnt(x) = k + Reward
    <3>1. TotalBalance(balances[n]) + Burnt(chain[n]) = k
      BY <1>0, <1>8, <2>3
    <3>2. PICK t \in Nat : t = TotalBalance(balances[n])
      BY <1>4a
    <3>3. PICK u \in Nat : u = TotalBalance(y)
      BY <1>4a
    <3>4. PICK v \in Nat : v = Burnt(chain[n])
      BY <1>0
    <3>5. t + v = k /\ u + q = t + Reward /\ Burnt(x) = v + q /\ q \in Nat
      BY <1>4a, <1>9, <3>1, <3>2, <3>3, <3>4
    <3>6. u + (v + q) = k + Reward
      BY <2>1, <3>5
    <3> QED
      BY <3>3, <3>5, <3>6
  <2> QED
    BY <1>0, <1>9, <2>2, <2>3, <2>4
<1>11. \A k \in Nodes : k = n
  BY DEF OneNode
<1>12. /\ SupplyConserved'
       /\ \A k \in Nodes : /\ balances'[k] \in Balances /\ Covered(balances'[k], mempool'[k])
                           /\ Burnt(chain'[k]) \in Nat
  BY <1>4a, <1>7, <1>10, <1>11 DEF SupplyConserved
<1> QED
  BY <1>12 DEF CoinInv

\* A restart rebuilds the balances from the chain it finds, the one it had.
LEMMA CoinRestart ==
  ASSUME Synchronised, OneNode, CoinInv, SoloInv', NEW n \in Nodes,
         CrashRestart(n) \/ GracefulRestart(n)
  PROVE  CoinInv'
<1>1. construct(n, chain[n]) /\ chain' = chain
  BY Restarted DEF CoinInv, SoloInv
<1>2. mempool'[n] = <<>>
  BY <1>1 DEF construct, CoinInv, SoloInv, ReplicaInv, ChainInv, TypeOK
<1>3. balances'[n] = balances[n]
  <2>1. balances[n] = RebuildBalances(chain[n])
    BY DEF CoinInv, SoloInv, StateInv, StateMatchesChain
  <2>2. balances'[n] = RebuildBalances(chain'[n])
    BY DEF SoloInv, StateInv, StateMatchesChain
  <2> QED
    BY <1>1, <2>1, <2>2
<1>4. Covered(balances[n], <<>>)
  BY DEF Covered
<1>5. \A k \in Nodes : k = n
  BY DEF OneNode
<1>6. /\ SupplyConserved'
      /\ \A k \in Nodes : /\ balances'[k] \in Balances /\ Covered(balances'[k], mempool'[k])
                          /\ Burnt(chain'[k]) \in Nat
  BY <1>1, <1>2, <1>3, <1>4, <1>5 DEF CoinInv, SupplyConserved
<1> QED
  BY <1>6 DEF CoinInv

LEMMA CoinNext ==
  ASSUME Synchronised, OneNode, CoinInv, [Next]_vars
  PROVE  CoinInv'
<1>0. SoloInv /\ SoloInv'
  BY SoloNext DEF CoinInv
<1>1. ASSUME NEW n \in Nodes, NEW tx \in Txs, addTransaction(n, tx) PROVE CoinInv'
  BY <1>0, <1>1, CoinAdd
<1>2. ASSUME NEW n \in Nodes, NEW miner \in Accounts, minePendingTransactions(n, miner)
      PROVE  CoinInv'
  BY <1>0, <1>2, CoinMine
<1>3. ASSUME NEW n \in Nodes, NEW c \in published, acceptBlock(n, Last(c)) \/ replaceChain(n, c)
      PROVE  CoinInv'
  BY <1>0, <1>3, NothingToAdopt
<1>4. ASSUME NEW n \in Nodes, CrashRestart(n) \/ GracefulRestart(n) PROVE CoinInv'
  BY <1>0, <1>4, CoinRestart
<1>5. ASSUME Tick \/ UNCHANGED vars PROVE CoinInv'
  BY <1>0, <1>5 DEF CoinInv, SupplyConserved, Tick, vars, stateVars
<1> QED
  BY <1>1, <1>2, <1>3, <1>4, <1>5 DEF Next

LEMMA CoinInvariance ==
  ASSUME Synchronised, OneNode
  PROVE  Spec => []CoinInv
<1>1. Init => CoinInv
  BY CoinInit
<1>2. CoinInv /\ [Next]_vars => CoinInv'
  BY CoinNext
<1> QED
  BY <1>1, <1>2, PTL DEF Spec

-----------------------------------------------------------------------------
(* Theorems about the chains *)

\* ReplicaInv holds in synchronised networks of any size.
THEOREM ReplicaInvariance == Synchronised => (Spec => []ReplicaInv)
<1> SUFFICES ASSUME Synchronised PROVE Spec => []ReplicaInv
  OBVIOUS
<1>1. Init => ReplicaInv
  BY ReplicaInvInit
<1>2. ReplicaInv /\ [Next]_vars => ReplicaInv'
  BY ReplicaInvNext
<1> QED
  BY <1>1, <1>2, PTL DEF Spec

\* A node's own chain passes validation, although mining does not validate.
THEOREM OwnChainStaysValid == Synchronised => (Spec => []OwnChainValid)
<1> SUFFICES ASSUME Synchronised PROVE Spec => []OwnChainValid
  OBVIOUS
<1>1. ReplicaInv => OwnChainValid
  BY DEF ReplicaInv, PublishedValid, OwnChainValid, ChainInv, TypeOK
<1>2. Spec => []ReplicaInv
  BY ReplicaInvariance
<1> QED
  BY <1>1, <1>2, PTL

\* chain.json holds the node's chain after every operation.
THEOREM DiskStaysCurrent == Synchronised => (Spec => []DiskMatchesChain)
<1> SUFFICES ASSUME Synchronised PROVE Spec => []DiskMatchesChain
  OBVIOUS
<1>1. ReplicaInv => DiskMatchesChain
  BY DEF ReplicaInv
<1>2. Spec => []ReplicaInv
  BY ReplicaInvariance
<1> QED
  BY <1>1, <1>2, PTL

\* A node's chain never gets shorter, crashes and restarts included.
THEOREM ChainsOnlyGrow == Synchronised => (Spec => ChainNeverShrinks)
<1> SUFFICES ASSUME Synchronised PROVE Spec => ChainNeverShrinks
  OBVIOUS
<1>1. Spec => []ReplicaInv
  BY ReplicaInvariance
<1>2. ReplicaInv /\ [Next]_vars
        => [\A n \in Nodes : Len(chain'[n]) >= Len(chain[n])]_vars
  BY RefinementNext, ReplicaGrows
<1> QED
  BY <1>1, <1>2, PTL DEF Spec, ChainNeverShrinks

\* The nodes implement LongestChain: they extend their own chain or adopt a
\* strictly longer published one, and restarts are invisible.
THEOREM NodesAreReplicas == Synchronised => (Spec => RefinesLongestChain)
<1> SUFFICES ASSUME Synchronised PROVE Spec => RefinesLongestChain
  OBVIOUS
<1>1. Spec => []ReplicaInv
  BY ReplicaInvariance
<1>2. ReplicaInv /\ [Next]_vars => [Replica!Next]_<<chain, published>>
  BY RefinementNext
<1> QED
  BY <1>1, <1>2, RefinementInit, PTL DEF Spec, RefinesLongestChain, Replica!Spec

\* The nonces of a sender increase along every chain that a node by itself ever has,
\* whatever it mines, however often it restarts, and although no validation looks at
\* a nonce: addTransaction is enough.
THEOREM SoloNoncesIncrease == Synchronised /\ OneNode => (Spec => []NoncesIncrease)
<1> SUFFICES ASSUME Synchronised, OneNode PROVE Spec => []NoncesIncrease
  OBVIOUS
<1>1. Init => SoloInv
  BY SoloInit
<1>2. SoloInv /\ [Next]_vars => SoloInv'
  BY SoloNext
<1>3. SoloInv => NoncesIncrease
  BY DEF SoloInv, Increasing, NoncesIncrease
<1> QED
  BY <1>1, <1>2, <1>3, PTL DEF Spec

\* The balances of a node by itself, and what it burnt in transfers to the empty
\* address, add up to its block rewards: a transfer makes no coins, although StateManager stops a debit at zero instead of refusing it, because
\* addTransaction admits no transfer that would be stopped.
THEOREM SoloSupplyConserved == Synchronised /\ OneNode => (Spec => []SupplyConserved)
<1> SUFFICES ASSUME Synchronised, OneNode PROVE Spec => []SupplyConserved
  OBVIOUS
<1>1. CoinInv => SupplyConserved
  BY DEF CoinInv
<1> QED
  BY <1>1, CoinInvariance, PTL

\* A node by itself can execute its whole mempool without a debit being stopped at
\* zero: the test of addTransaction, which counts what is pending in both directions,
\* stays true while blocks take transfers from the front.
THEOREM SoloMempoolSolvent == Synchronised /\ OneNode => (Spec => []MempoolSolvent)
<1> SUFFICES ASSUME Synchronised, OneNode PROVE Spec => []MempoolSolvent
  OBVIOUS
<1>1. CoinInv => MempoolSolvent
  <2> SUFFICES ASSUME CoinInv, NEW n \in Nodes, NEW a \in Addresses
               PROVE  FoldLeft(Transfer, balances[n], mempool[n])[a] + pendingOutgoing(n, a)
                        = balances[n][a] + pendingIncoming(n, a)
    BY DEF MempoolSolvent
  <2>1. mempool[n] \in Seq(Txs) /\ balances[n] \in Balances /\ Covered(balances[n], mempool[n])
    BY HeldChain DEF CoinInv, SoloInv, ReplicaInv
  <2> QED
    BY <2>1, CoveredRuns DEF Run, Out, In, pendingOutgoing, pendingIncoming
<1> QED
  BY <1>1, CoinInvariance, PTL

-----------------------------------------------------------------------------
(* Channels *)

LEMMA SeqMonotone ==
  ASSUME NEW S, NEW T, S \subseteq T
  PROVE  Seq(S) \subseteq Seq(T)
OBVIOUS

LEMMA EnqueueType ==
  ASSUME NEW S, NEW q \in Seq(S), NEW msg \in S
  PROVE  enqueue(q, msg) \in Seq(S)
BY DEF enqueue

\* What Peer::send and Node::broadcast add to the channels is what they are
\* given.
LEMMA SendType ==
  ASSUME NEW S, channel \in [Pairs -> Seq(S)], NEW msg \in S, NEW n, NEW to,
         send(n, to, msg)
  PROVE  channel' \in [Pairs -> Seq(S)]
BY EnqueueType DEF send

LEMMA PopType ==
  ASSUME NEW S, channel \in [Pairs -> Seq(S)], NEW n, NEW m,
         channel[<<m, n>>] # <<>>, <<m, n>> \in Pairs, Pop(n, m)
  PROVE  channel' \in [Pairs -> Seq(S)]
<1>1. Tail(channel[<<m, n>>]) \in Seq(S)
  OBVIOUS
<1> QED
  BY <1>1 DEF Pop

LEMMA PopAndSendType ==
  ASSUME NEW S, channel \in [Pairs -> Seq(S)], NEW n, NEW m,
         channel[<<m, n>>] # <<>>, <<m, n>> \in Pairs,
         NEW to, NEW msg \in S, popAndSend(n, m, to, msg)
  PROVE  channel' \in [Pairs -> Seq(S)]
<1> DEFINE q(e) == IF e = <<m, n>> THEN Tail(channel[e]) ELSE channel[e]
<1>1. \A e \in Pairs : q(e) \in Seq(S)
  <2>1. Tail(channel[<<m, n>>]) \in Seq(S)
    OBVIOUS
  <2> QED
    BY <2>1
<1>2. channel' = [e \in Pairs |-> IF e[1] = n /\ e[2] \in to \cap peers(n)
                                  THEN enqueue(q(e), msg) ELSE q(e)]
  BY DEF popAndSend
<1> HIDE DEF q
<1> QED
  BY <1>1, <1>2, EnqueueType

\* A message at the head of a channel is genuine.
LEMMA ReceivedType ==
  ASSUME NetInv, NEW n \in Nodes, NEW m \in Nodes, channel[<<m, n>>] # <<>>
  PROVE  Received(n, m) \in Genuine
<1>1. channel[<<m, n>>] \in Seq(Genuine)
  BY DEF NetInv, Pairs
<1> QED
  BY <1>1 DEF Received

\* What a message of each type carries.
LEMMA GenuineContents ==
  ASSUME NEW msg \in Genuine
  PROVE  /\ msg.type = "NEW_TRANSACTION" => msg.tx \in Txs /\ msg = NewTransaction(msg.tx)
         /\ msg.type = "NEW_BLOCK" =>
              \E c \in published : msg.block = Last(c) /\ msg = NewBlock(msg.block)
         /\ msg.type = "RESPONSE_CHAIN" => msg.blocks \in published
BY DEF Genuine, NewTransaction, NewBlock, RequestChain, ResponseChain

\* What a handler that is not idle carries.
LEMMA HandlerContents ==
  ASSUME NEW h \in HandlerStates
  PROVE  /\ h.step = "accept" => \E c \in published : h.block = Last(c)
         /\ h.step \in {"forward", "reply"} => h.msg \in Genuine
BY DEF HandlerStates, Idle

-----------------------------------------------------------------------------
(* Chains once made stay available *)

LEMMA PublishedGrows == [Next]_vars => published \subseteq published'
BY DEF Next, vars, addTransaction, minePendingTransactions, acceptBlock, replaceChain,
       CrashRestart, GracefulRestart, construct, Tick

LEMMA GenuineGrows ==
  ASSUME published \subseteq published'
  PROVE  Genuine \subseteq Genuine' /\ HandlerStates \subseteq HandlerStates'
<1>1. Genuine \subseteq Genuine'
  BY DEF Genuine, NewTransaction, NewBlock, RequestChain, ResponseChain
<1>2. HandlerStates \subseteq HandlerStates'
  BY <1>1 DEF HandlerStates, Idle
<1> QED
  BY <1>1, <1>2

-----------------------------------------------------------------------------
(* Every step of the network is a step of Blockchain, or none of its variables *)
(* change                                                                  *)

LEMMA HandlerType ==
  ASSUME NetInv, NEW n \in Nodes, NEW m \in Nodes
  PROVE  handler[<<n, m>>] \in HandlerStates
BY DEF NetInv, Pairs

LEMMA CoreHandle ==
  ASSUME NetInv, NEW n \in Nodes, NEW m \in Nodes, Handle(n, m)
  PROVE  [Next]_vars
<1>1. CASE dropDuplicate(n, m) \/ handleNewBlock(n, m) \/ handleRequestChain(n, m)
             \/ finishForward(n, m) \/ finishReply(n, m)
  BY <1>1 DEF dropDuplicate, handleNewBlock, handleRequestChain, finishForward, finishReply
<1>2. CASE handleNewTransaction(n, m)
  <2>1. Received(n, m).tx \in Txs
    BY <1>2, ReceivedType, GenuineContents DEF handleNewTransaction, take
  <2>2. addTransaction(n, Received(n, m).tx) \/ UNCHANGED vars
    BY <1>2 DEF handleNewTransaction
  <2> QED
    BY <2>1, <2>2 DEF Next
<1>3. CASE handleResponseChain(n, m)
  <2>1. Received(n, m).blocks \in published
    BY <1>3, ReceivedType, GenuineContents DEF handleResponseChain, take
  <2>2. replaceChain(n, Received(n, m).blocks) \/ UNCHANGED vars
    BY <1>3 DEF handleResponseChain
  <2> QED
    BY <2>1, <2>2 DEF Next
<1>4. CASE finishAccept(n, m)
  <2>1. \E c \in published : handler[<<n, m>>].block = Last(c)
    BY <1>4, HandlerType, HandlerContents DEF finishAccept
  <2>2. acceptBlock(n, handler[<<n, m>>].block) \/ UNCHANGED vars
    BY <1>4 DEF finishAccept
  <2> QED
    BY <2>1, <2>2 DEF Next
<1> QED
  BY <1>1, <1>2, <1>3, <1>4 DEF Handle

LEMMA CoreStep == NetInv /\ [NetNext]_netVars => [Next]_vars
<1> SUFFICES ASSUME NetInv, [NetNext]_netVars PROVE [Next]_vars
  OBVIOUS
<1>1. CASE UNCHANGED netVars
  BY <1>1 DEF netVars
<1>2. ASSUME NEW n \in Nodes, NEW tx \in Txs, submitTransaction(n, tx) PROVE Next
  BY <1>2 DEF submitTransaction, Next
<1>3. ASSUME NEW n \in Nodes, NEW miner \in MinersOf[n], mine(n, miner) PROVE Next
  BY <1>3, NetworkAssumption DEF mine, Next
<1>4. ASSUME NEW n \in Nodes, Restart(n) PROVE Next
  BY <1>4 DEF Restart, Next
<1>5. ASSUME NetTick PROVE Next
  BY <1>5 DEF NetTick, Next
<1>6. ASSUME NEW d, NEW a, connect(d, a) \/ DropMessage(d, a) PROVE UNCHANGED vars
  BY <1>6 DEF connect, DropMessage
<1>7. ASSUME NEW n, requestChainFromPeers(n) \/ LoseConnection(n) PROVE UNCHANGED vars
  BY <1>7 DEF requestChainFromPeers, LoseConnection
<1>8. ASSUME SteadyTick PROVE UNCHANGED vars
  BY <1>8 DEF SteadyTick
<1> QED
  BY <1>1, <1>2, <1>3, <1>4, <1>5, <1>6, <1>7, <1>8, CoreHandle DEF NetNext

-----------------------------------------------------------------------------
(* NetInv is inductive *)

\* Before a step, channels and handlers already hold what they may hold after it.
LEMMA Widen ==
  ASSUME NetInv, [NetNext]_netVars
  PROVE  /\ Genuine \subseteq Genuine'
         /\ channel \in [Pairs -> Seq(Genuine')]
         /\ handler \in [Pairs -> HandlerStates']
<1>1. Genuine \subseteq Genuine' /\ HandlerStates \subseteq HandlerStates'
  BY CoreStep, PublishedGrows, GenuineGrows
<1>2. Seq(Genuine) \subseteq Seq(Genuine')
  BY <1>1, SeqMonotone
<1> QED
  BY <1>1, <1>2 DEF NetInv

\* The states a handler is left in.
LEMMA ContinueType ==
  ASSUME NEW H, handler \in [Pairs -> H], NEW n \in Nodes, NEW m \in Nodes, NEW todo \in H,
         continue(n, m, todo)
  PROVE  handler' \in [Pairs -> H]
BY DEF continue, Pairs

\* The messages the handlers make.
LEMMA Makes ==
  /\ Idle \in HandlerStates /\ RequestChain \in Genuine
  /\ \A tx \in Txs : NewTransaction(tx) \in Genuine
  /\ \A c \in published : /\ ResponseChain(c) \in Genuine
                          /\ NewBlock(Last(c)) \in Genuine
                          /\ [step |-> "accept", block |-> Last(c)] \in HandlerStates
  /\ \A msg \in Genuine : /\ [step |-> "forward", msg |-> msg] \in HandlerStates
                          /\ [step |-> "reply", msg |-> msg] \in HandlerStates
BY DEF Genuine, HandlerStates

LEMMA NetInvReceive ==
  ASSUME ChainInv, NetInv, [NetNext]_netVars, NEW n \in Nodes, NEW m \in Nodes,
         \/ dropDuplicate(n, m) \/ handleNewTransaction(n, m) \/ handleNewBlock(n, m)
         \/ handleRequestChain(n, m) \/ handleResponseChain(n, m)
  PROVE  NetInv'
<1> DEFINE msg == Received(n, m)
<1>0. /\ Genuine \subseteq Genuine'
      /\ channel \in [Pairs -> Seq(Genuine')]
      /\ handler \in [Pairs -> HandlerStates']
      /\ <<m, n>> \in Pairs /\ <<n, m>> \in Pairs
  BY Widen DEF Pairs
<1>1. channel[<<m, n>>] # <<>>
  BY DEF dropDuplicate, handleNewTransaction, handleNewBlock, handleRequestChain,
         handleResponseChain, take
<1>2. msg \in Genuine
  BY <1>1, ReceivedType
<1>3. Pop(n, m) => channel' \in [Pairs -> Seq(Genuine')]
  BY <1>0, <1>1, PopType
<1>4. \A to : \A x \in Genuine : popAndSend(n, m, to, x) => channel' \in [Pairs -> Seq(Genuine')]
  BY <1>0, <1>1, PopAndSendType
<1>5. \A todo \in HandlerStates : continue(n, m, todo) => handler' \in [Pairs -> HandlerStates']
  <2>1. HandlerStates \subseteq HandlerStates'
    BY CoreStep, PublishedGrows, GenuineGrows
  <2> QED
    BY <1>0, <2>1, ContinueType
<1>6. UNCHANGED handler => handler' \in [Pairs -> HandlerStates']
  BY <1>0
<1>7. CASE dropDuplicate(n, m) \/ handleResponseChain(n, m)
  BY <1>3, <1>6, <1>7 DEF dropDuplicate, handleResponseChain, NetInv
<1>8. CASE handleNewTransaction(n, m)
  <2>1. msg.tx \in Txs
    BY <1>2, <1>8, GenuineContents DEF handleNewTransaction, take
  <2>2. /\ NewTransaction(msg.tx) \in Genuine
        /\ [step |-> "forward", msg |-> NewTransaction(msg.tx)] \in HandlerStates
    BY <2>1, Makes
  <2>3. /\ Pop(n, m) \/ popAndSend(n, m, Nodes, NewTransaction(msg.tx))
        /\ \/ UNCHANGED handler
           \/ continue(n, m, [step |-> "forward", msg |-> NewTransaction(msg.tx)])
    BY <1>8 DEF handleNewTransaction
  <2> QED
    BY <1>3, <1>4, <1>5, <1>6, <2>2, <2>3 DEF NetInv
<1>9. CASE handleNewBlock(n, m)
  <2>1. PICK c \in published : msg.block = Last(c)
    BY <1>2, <1>9, GenuineContents DEF handleNewBlock, take
  <2>2. RequestChain \in Genuine /\ [step |-> "accept", block |-> msg.block] \in HandlerStates
    BY <2>1, Makes
  <2>3. /\ Pop(n, m) \/ popAndSend(n, m, {m}, RequestChain)
        /\ UNCHANGED handler \/ continue(n, m, [step |-> "accept", block |-> msg.block])
    BY <1>9 DEF handleNewBlock
  <2> QED
    BY <1>3, <1>4, <1>5, <1>6, <2>2, <2>3 DEF NetInv
<1>10. CASE handleRequestChain(n, m)
  <2>1. chain[n] \in published
    BY HeldChain
  <2>2. [step |-> "reply", msg |-> ResponseChain(chain[n])] \in HandlerStates
    BY <2>1, Makes
  <2> QED
    BY <1>3, <1>5, <1>10, <2>2 DEF handleRequestChain, NetInv
<1> QED
  BY <1>7, <1>8, <1>9, <1>10

LEMMA NetInvFinish ==
  ASSUME ChainInv, NetInv, [NetNext]_netVars, NEW n \in Nodes, NEW m \in Nodes,
         finishAccept(n, m) \/ finishForward(n, m) \/ finishReply(n, m)
  PROVE  NetInv'
<1> DEFINE h == handler[<<n, m>>]
<1>0. /\ Genuine \subseteq Genuine'
      /\ channel \in [Pairs -> Seq(Genuine')]
      /\ handler \in [Pairs -> HandlerStates']
  BY Widen
<1>1. HandlerStates \subseteq HandlerStates'
  BY CoreStep, PublishedGrows, GenuineGrows
<1>2. \A todo \in HandlerStates : continue(n, m, todo) => handler' \in [Pairs -> HandlerStates']
  BY <1>0, <1>1, ContinueType
<1>3. \A to : \A x \in Genuine : send(n, to, x) => channel' \in [Pairs -> Seq(Genuine')]
  BY <1>0, SendType
<1>4. h \in HandlerStates
  BY HandlerType
<1>5. CASE finishAccept(n, m)
  <2>1. PICK c \in published : h.block = Last(c)
    BY <1>4, <1>5, HandlerContents DEF finishAccept
  <2>2. /\ Idle \in HandlerStates
        /\ [step |-> "forward", msg |-> NewBlock(h.block)] \in HandlerStates
    BY <2>1, Makes
  <2>3. channel' = channel
    BY <1>5 DEF finishAccept
  <2>4. \/ continue(n, m, Idle)
        \/ continue(n, m, [step |-> "forward", msg |-> NewBlock(h.block)])
    BY <1>5 DEF finishAccept
  <2> QED
    BY <1>0, <1>2, <2>2, <2>3, <2>4 DEF NetInv
<1>6. CASE finishForward(n, m)
  <2>1. h.msg \in Genuine
    BY <1>4, <1>6, HandlerContents DEF finishForward
  <2>2. h.msg.type = "NEW_BLOCK" => NewBlock(h.msg.block) = h.msg
    BY <2>1, GenuineContents
  <2>3. send(n, Nodes \ {m}, h.msg)
    BY <1>6, <2>2 DEF finishForward, sendBlock
  <2>4. continue(n, m, Idle)
    BY <1>6 DEF finishForward
  <2> QED
    BY <1>2, <1>3, <2>1, <2>3, <2>4, Makes DEF NetInv
<1>7. CASE finishReply(n, m)
  <2>1. h.msg \in Genuine
    BY <1>4, <1>7, HandlerContents DEF finishReply
  <2>2. send(n, {m}, h.msg) /\ continue(n, m, Idle)
    BY <1>7 DEF finishReply
  <2> QED
    BY <1>2, <1>3, <2>1, <2>2, Makes DEF NetInv
<1> QED
  BY <1>5, <1>6, <1>7

LEMMA NetInvClient ==
  ASSUME ChainInv, NetInv, [NetNext]_netVars, NEW n \in Nodes,
         \/ \E tx \in Txs : submitTransaction(n, tx)
         \/ \E miner \in MinersOf[n] : mine(n, miner)
  PROVE  NetInv'
<1>0. /\ Genuine \subseteq Genuine'
      /\ channel \in [Pairs -> Seq(Genuine')]
      /\ handler \in [Pairs -> HandlerStates']
  BY Widen
<1>1. \A to : \A x \in Genuine' : send(n, to, x) => channel' \in [Pairs -> Seq(Genuine')]
  BY <1>0, SendType
<1>2. ASSUME NEW tx \in Txs, submitTransaction(n, tx) PROVE NetInv'
  <2>1. NewTransaction(tx) \in Genuine'
    BY <1>0, Makes
  <2>2. handler' = handler /\ (channel' = channel \/ send(n, Nodes, NewTransaction(tx)))
    BY <1>2 DEF submitTransaction, broadcastTransaction
  <2> QED
    BY <1>0, <1>1, <2>1, <2>2 DEF NetInv
<1>3. ASSUME NEW miner \in MinersOf[n], mine(n, miner) PROVE NetInv'
  <2> DEFINE b == newBlock(n, miner)
             c == Append(chain[n], b)
  <2>1. c \in published'
    BY <1>3 DEF mine, minePendingTransactions
  <2>2. Last(c) = b
    <3>1. chain[n] \in Seq(ToSet(chain[n]))
      BY HeldChain, LinkedType
    <3> HIDE DEF b
    <3> QED
      BY <3>1 DEF Last
  <2> HIDE DEF b, c
  <2>3. NewBlock(b) \in Genuine'
    BY <2>1, <2>2 DEF Genuine, NewBlock
  <2>4. handler' = handler /\ (channel' = channel \/ send(n, Nodes, NewBlock(b)))
    BY <1>3 DEF mine, broadcastBlock, sendBlock, b
  <2> QED
    BY <1>0, <1>1, <2>3, <2>4 DEF NetInv
<1> QED
  BY <1>2, <1>3

\* Losing connections empties channels and leaves handlers idle.
LEMMA DisconnectType ==
  ASSUME NEW S, NEW H, NEW Lost, channel \in [Pairs -> Seq(S)], handler \in [Pairs -> H],
         Idle \in H, Disconnect(Lost)
  PROVE  channel' \in [Pairs -> Seq(S)] /\ Interrupted(Lost) \in [Pairs -> H]
<1>1. <<>> \in Seq(S)
  OBVIOUS
<1>2. channel' \in [Pairs -> Seq(S)]
  BY <1>1 DEF Disconnect
<1>3. Interrupted(Lost) \in [Pairs -> H]
  BY DEF Interrupted
<1> QED
  BY <1>2, <1>3

LEMMA NetInvConnections ==
  ASSUME ChainInv, NetInv, [NetNext]_netVars,
         \/ \E d, a \in Nodes : connect(d, a) \/ DropMessage(d, a)
         \/ \E n \in Nodes : requestChainFromPeers(n) \/ Restart(n)
         \/ \E l \in Links : LoseConnection(l)
         \/ NetTick \/ SteadyTick \/ UNCHANGED netVars
  PROVE  NetInv'
<1>0. /\ channel \in [Pairs -> Seq(Genuine')]
      /\ handler \in [Pairs -> HandlerStates']
      /\ Idle \in HandlerStates' /\ RequestChain \in Genuine'
  BY Widen DEF HandlerStates, Genuine
<1>1. ASSUME NEW d \in Nodes, NEW a \in Nodes, connect(d, a) PROVE NetInv'
  <2>1. enqueue(channel[<<d, a>>], RequestChain) \in Seq(Genuine')
    BY <1>0, EnqueueType DEF Pairs
  <2> QED
    BY <1>0, <1>1, <2>1 DEF connect, NetInv
<1>2. ASSUME NEW n \in Nodes, NEW m \in Nodes, DropMessage(n, m) PROVE NetInv'
  <2>1. channel' \in [Pairs -> Seq(Genuine')]
    BY <1>0, <1>2, PopType DEF DropMessage, Pairs
  <2> QED
    BY <1>0, <1>2, <2>1 DEF DropMessage, NetInv
<1>3. ASSUME NEW n \in Nodes, requestChainFromPeers(n) PROVE NetInv'
  BY <1>0, <1>3, SendType DEF requestChainFromPeers, NetInv
<1>4. ASSUME NEW n \in Nodes, Restart(n) PROVE NetInv'
  <2> DEFINE lost == {l \in connected : n \in {l[1], l[2]}}
  <2>1. /\ Disconnect(lost)
        /\ handler' = [e \in Pairs |-> IF e[1] = n THEN Idle ELSE Interrupted(lost)[e]]
    BY <1>4 DEF Restart
  <2> HIDE DEF lost
  <2>2. channel' \in [Pairs -> Seq(Genuine')] /\ Interrupted(lost) \in [Pairs -> HandlerStates']
    BY <1>0, <2>1, DisconnectType
  <2>3. handler' \in [Pairs -> HandlerStates']
    BY <1>0, <2>1, <2>2
  <2> QED
    BY <2>2, <2>3 DEF NetInv
<1>5. ASSUME NEW l \in Links, LoseConnection(l) PROVE NetInv'
  <2>1. Disconnect({l}) /\ handler' = Interrupted({l})
    BY <1>5 DEF LoseConnection
  <2> QED
    BY <1>0, <2>1, DisconnectType DEF NetInv
<1>6. CASE NetTick \/ SteadyTick \/ UNCHANGED netVars
  BY <1>0, <1>6 DEF NetTick, SteadyTick, netVars, sessionVars, NetInv
<1> QED
  BY <1>1, <1>2, <1>3, <1>4, <1>5, <1>6

LEMMA NetInvNext == ChainInv /\ NetInv /\ [NetNext]_netVars => NetInv'
<1> SUFFICES ASSUME ChainInv, NetInv, [NetNext]_netVars PROVE NetInv'
  OBVIOUS
<1>1. ASSUME NEW n \in Nodes, NEW m \in Nodes, Handle(n, m) PROVE NetInv'
  BY <1>1, NetInvReceive, NetInvFinish DEF Handle
<1> QED
  BY <1>1, NetInvClient, NetInvConnections DEF NetNext

LEMMA NetInvInit == Quiet => NetInv
<1> SUFFICES ASSUME Quiet PROVE NetInv
  OBVIOUS
<1>1. <<>> \in Seq(Genuine) /\ Idle \in HandlerStates
  BY Makes
<1>2. channel \in [Pairs -> Seq(Genuine)]
  BY <1>1 DEF Quiet
<1>3. handler \in [Pairs -> HandlerStates]
  BY <1>1 DEF Quiet
<1> QED
  BY <1>2, <1>3 DEF NetInv

-----------------------------------------------------------------------------
(* Relaying *)

\* The handler still has a block to forward.
ForwardsBlock(h) == h.step = "forward" /\ h.msg.type = "NEW_BLOCK"

Below(b, n) == b.index \in 0..(Len(chain[n]) - 1)

\* What a node has sent or will still forward is below the top of its chain; it
\* forwards nothing that it has sent, and nothing on two connections' behalf.
RelayInv ==
  /\ DOMAIN relayed = Nodes
  /\ \A n \in Nodes : \A b \in relayed[n] : Below(b, n)
  /\ \A n, m \in Nodes : ForwardsBlock(handler[<<n, m>>]) =>
       LET b == handler[<<n, m>>].msg.block
       IN  Below(b, n) /\ b \notin relayed[n]
  /\ \A n, m, k \in Nodes :
       /\ ForwardsBlock(handler[<<n, m>>]) /\ ForwardsBlock(handler[<<n, k>>]) /\ m # k
       => handler[<<n, m>>].msg.block # handler[<<n, k>>].msg.block
  /\ \A n, m \in Nodes : handler[<<n, m>>].step = "reply"
       => handler[<<n, m>>].msg.type = "RESPONSE_CHAIN"

\* What RelayOnce says of a step.
Relays ==
  \A e \in Pairs :
    /\ Len(channel'[e]) > Len(channel[e])
    /\ Last(channel'[e]).type = "NEW_BLOCK"
    => Last(channel'[e]).block \notin relayed[e[1]]

\* What a handler may be left with without becoming one that forwards a block.
Harmless(h) == ~ForwardsBlock(h) /\ (h.step = "reply" => h.msg.type = "RESPONSE_CHAIN")

LEMMA RelayKept ==
  ASSUME RelayInv,
         DOMAIN relayed' = Nodes,
         \A n \in Nodes : Len(chain[n]) \in Nat /\ Len(chain'[n]) \in Nat,
         \A n \in Nodes : \/ Len(chain'[n]) >= Len(chain[n]) /\ relayed'[n] = relayed[n]
                          \/ /\ relayed'[n] = {}
                             /\ \A m \in Nodes : Harmless(handler'[<<n, m>>]),
         \A n, m \in Nodes : \/ handler'[<<n, m>>] = handler[<<n, m>>]
                             \/ Harmless(handler'[<<n, m>>])
  PROVE  RelayInv'
<1>1. \A n \in Nodes : \A b : Len(chain'[n]) >= Len(chain[n]) /\ Below(b, n) => Below(b, n)'
  BY DEF Below
<1>2. \A n \in Nodes : \A b \in relayed'[n] : Below(b, n)'
  BY <1>1 DEF RelayInv
<1>3. \A n, m \in Nodes : ForwardsBlock(handler'[<<n, m>>])
        => /\ handler'[<<n, m>>] = handler[<<n, m>>]
           /\ Len(chain'[n]) >= Len(chain[n]) /\ relayed'[n] = relayed[n]
  BY DEF Harmless, ForwardsBlock
<1>4. \A n, m \in Nodes : ForwardsBlock(handler'[<<n, m>>]) =>
        /\ Below(handler[<<n, m>>].msg.block, n)'
        /\ handler'[<<n, m>>].msg.block \notin relayed'[n]
  BY <1>1, <1>3 DEF RelayInv, ForwardsBlock
<1>5. \A n, m, k \in Nodes :
        /\ ForwardsBlock(handler'[<<n, m>>]) /\ ForwardsBlock(handler'[<<n, k>>]) /\ m # k
        => handler'[<<n, m>>].msg.block # handler'[<<n, k>>].msg.block
  BY <1>3 DEF RelayInv, ForwardsBlock
<1>6. \A n, m \in Nodes : handler'[<<n, m>>].step = "reply"
        => handler'[<<n, m>>].msg.type = "RESPONSE_CHAIN"
  <2> SUFFICES ASSUME NEW n \in Nodes, NEW m \in Nodes, handler'[<<n, m>>].step = "reply"
               PROVE  handler'[<<n, m>>].msg.type = "RESPONSE_CHAIN"
    OBVIOUS
  <2>1. CASE handler'[<<n, m>>] = handler[<<n, m>>]
    BY <2>1 DEF RelayInv
  <2>2. CASE Harmless(handler'[<<n, m>>])
    BY <2>2 DEF Harmless
  <2> QED
    BY <2>1, <2>2
<1> QED
  BY <1>2, <1>4, <1>5, <1>6 DEF RelayInv, ForwardsBlock

-----------------------------------------------------------------------------
(* Which channels get longer, and by what *)

LEMMA EnqueueGrows ==
  ASSUME NEW S, NEW q \in Seq(S), NEW x, Len(enqueue(q, x)) > Len(q)
  PROVE  Last(enqueue(q, x)) = x
<1>1. q \in Seq(S \cup {x}) /\ x \in S \cup {x}
  BY SeqMonotone
<1>2. enqueue(q, x) = Append(q, x)
  BY DEF enqueue
<1> QED
  BY <1>1, <1>2 DEF Last

LEMMA SendGrows ==
  ASSUME NEW S, channel \in [Pairs -> Seq(S)], NEW n, NEW to, NEW x, send(n, to, x),
         NEW e \in Pairs, Len(channel'[e]) > Len(channel[e])
  PROVE  e[1] = n /\ Last(channel'[e]) = x
<1>1. channel[e] \in Seq(S) /\ Len(channel[e]) \in Nat
  OBVIOUS
<1>2. e[1] = n /\ channel'[e] = enqueue(channel[e], x)
  BY <1>1 DEF send
<1> QED
  BY <1>1, <1>2, EnqueueGrows

LEMMA PopShrinks ==
  ASSUME NEW S, channel \in [Pairs -> Seq(S)], NEW n \in Nodes, NEW m \in Nodes,
         channel[<<m, n>>] # <<>>, Pop(n, m), NEW e \in Pairs
  PROVE  Len(channel'[e]) <= Len(channel[e])
<1>0. /\ channel[e] \in Seq(S) /\ Len(channel[e]) \in Nat
      /\ <<m, n>> \in Pairs
  BY DEF Pairs
<1>1. Len(Tail(channel[<<m, n>>])) = Len(channel[<<m, n>>]) - 1
  BY <1>0
<1>2. CASE e = <<m, n>>
  BY <1>0, <1>1, <1>2 DEF Pop
<1>3. CASE e # <<m, n>>
  BY <1>0, <1>3 DEF Pop
<1> QED
  BY <1>2, <1>3

LEMMA PopGrows ==
  ASSUME NEW S, channel \in [Pairs -> Seq(S)], NEW n \in Nodes, NEW m \in Nodes,
         channel[<<m, n>>] # <<>>, NEW to, NEW x, popAndSend(n, m, to, x),
         NEW e \in Pairs, Len(channel'[e]) > Len(channel[e])
  PROVE  e[1] = n /\ Last(channel'[e]) = x
<1>0. /\ channel[e] \in Seq(S) /\ Len(channel[e]) \in Nat
      /\ <<m, n>> \in Pairs
  BY DEF Pairs
<1>1. /\ Tail(channel[<<m, n>>]) \in Seq(S)
      /\ Len(Tail(channel[<<m, n>>])) = Len(channel[<<m, n>>]) - 1
  BY <1>0
<1>2. CASE e = <<m, n>>
  <2>1. Tail(channel[e]) \in Seq(S \cup {x}) /\ x \in S \cup {x}
    BY <1>1, <1>2, SeqMonotone
  <2>2. Len(Append(Tail(channel[e]), x)) = Len(Tail(channel[e])) + 1
    BY <2>1
  <2>3. channel'[e] = Tail(channel[e]) \/ channel'[e] = Append(Tail(channel[e]), x)
    BY <1>2 DEF popAndSend, enqueue
  <2>4. Len(channel'[e]) <= Len(channel[e])
    BY <1>0, <1>1, <1>2, <2>2, <2>3
  <2> QED
    BY <1>0, <2>4
<1>3. CASE e # <<m, n>>
  <2>1. e[1] = n /\ channel'[e] = enqueue(channel[e], x)
    BY <1>0, <1>3 DEF popAndSend
  <2> QED
    BY <1>0, <2>1, EnqueueGrows
<1> QED
  BY <1>2, <1>3

-----------------------------------------------------------------------------
(* Steps *)

\* Outside of restarts a chain only gets longer.
LEMMA LengthsKept ==
  ASSUME ChainInv, NEW n \in Nodes,
         \/ \E tx : addTransaction(n, tx)
         \/ \E miner : minePendingTransactions(n, miner)
         \/ \E b : acceptBlock(n, b)
         \/ \E c \in published : replaceChain(n, c)
         \/ Tick \/ UNCHANGED vars
  PROVE  \A k \in Nodes : /\ Len(chain[k]) \in Nat /\ Len(chain'[k]) \in Nat
                          /\ Len(chain'[k]) >= Len(chain[k])
<1>0. /\ \A k \in Nodes : Len(chain[k]) \in Nat /\ chain[k] \in Seq(ToSet(chain[k]))
      /\ \A c \in published : Len(c) \in Nat
      /\ chain \in [Nodes -> published]
  BY HeldChain, LinkedType DEF ChainInv, TypeOK
<1>1. ASSUME NEW b, chain' = [chain EXCEPT ![n] = Append(@, b)]
      PROVE  \A k \in Nodes : /\ Len(chain'[k]) \in Nat /\ Len(chain'[k]) >= Len(chain[k])
  <2>1. /\ chain[n] \in Seq(ToSet(chain[n]) \cup {b}) /\ b \in ToSet(chain[n]) \cup {b}
        /\ Len(chain[n]) \in Nat
    BY <1>0, SeqMonotone
  <2>2. Len(Append(chain[n], b)) = Len(chain[n]) + 1
    BY <2>1
  <2>3. \A k \in Nodes : chain'[k] = IF k = n THEN Append(chain[n], b) ELSE chain[k]
    BY <1>0, <1>1
  <2>4. ASSUME NEW k \in Nodes
        PROVE  Len(chain'[k]) \in Nat /\ Len(chain'[k]) >= Len(chain[k])
    <3>1. CASE k = n
      <4>1. chain'[k] = Append(chain[n], b) /\ chain[k] = chain[n]
        BY <2>3, <3>1
      <4> QED
        BY <2>1, <2>2, <4>1
    <3>2. CASE k # n
      <4>1. chain'[k] = chain[k] /\ Len(chain[k]) \in Nat
        BY <1>0, <2>3, <3>2
      <4> QED
        BY <4>1
    <3> QED
      BY <3>1, <3>2
  <2> QED
    BY <2>4
<1>2. ASSUME NEW miner, minePendingTransactions(n, miner)
      PROVE  \E b : chain' = [chain EXCEPT ![n] = Append(@, b)]
  BY <1>0, <1>2 DEF minePendingTransactions
<1>3. ASSUME NEW c \in published, replaceChain(n, c)
      PROVE  \A k \in Nodes : /\ Len(chain'[k]) \in Nat /\ Len(chain'[k]) >= Len(chain[k])
  BY <1>0, <1>3 DEF replaceChain, preferable, shouldAcceptChain
<1>4. ASSUME \/ \E tx : addTransaction(n, tx)
             \/ Tick \/ UNCHANGED vars
      PROVE  chain' = chain
  BY <1>4 DEF addTransaction, Tick, vars
<1> QED
  BY <1>0, <1>1, <1>2, <1>3, <1>4 DEF acceptBlock

LEMMA HandlerChange ==
  ASSUME NetInv, NEW n \in Nodes, NEW m \in Nodes, NEW todo, continue(n, m, todo)
  PROVE  \A k, j \in Nodes :
           handler'[<<k, j>>] = IF k = n /\ j = m THEN todo ELSE handler[<<k, j>>]
BY DEF NetInv, continue, Pairs

LEMMA HandlerHarmless ==
  ASSUME NetInv, NEW n \in Nodes, NEW m \in Nodes, NEW todo, continue(n, m, todo), Harmless(todo)
  PROVE  \A k, j \in Nodes : \/ handler'[<<k, j>>] = handler[<<k, j>>]
                             \/ Harmless(handler'[<<k, j>>])
<1> SUFFICES ASSUME NEW k \in Nodes, NEW j \in Nodes
             PROVE  \/ handler'[<<k, j>>] = handler[<<k, j>>]
                    \/ Harmless(handler'[<<k, j>>])
  OBVIOUS
<1>1. CASE k = n /\ j = m
  <2>1. handler'[<<k, j>>] = todo
    BY <1>1, HandlerChange
  <2> QED
    BY <2>1
<1>2. CASE ~(k = n /\ j = m)
  <2>1. handler'[<<k, j>>] = handler[<<k, j>>]
    BY <1>2, HandlerChange
  <2> QED
    BY <2>1
<1> QED
  BY <1>1, <1>2

LEMMA HarmlessStates ==
  /\ Harmless(Idle)
  /\ \A b : Harmless([step |-> "accept", block |-> b])
  /\ \A tx : Harmless([step |-> "forward", msg |-> NewTransaction(tx)])
  /\ \A c : Harmless([step |-> "reply", msg |-> ResponseChain(c)])
BY DEF Harmless, ForwardsBlock, Idle, NewTransaction, ResponseChain

\* The handlers that receive a message send no block and forget none they are to
\* forward.
LEMMA RelayReceive ==
  ASSUME ChainInv, NetInv, RelayInv, NEW n \in Nodes, NEW m \in Nodes,
         \/ dropDuplicate(n, m) \/ handleNewTransaction(n, m) \/ handleNewBlock(n, m)
         \/ handleRequestChain(n, m) \/ handleResponseChain(n, m)
  PROVE  RelayInv' /\ Relays
<1> DEFINE msg == Received(n, m)
<1>0. channel[<<m, n>>] # <<>>
  BY DEF dropDuplicate, handleNewTransaction, handleNewBlock, handleRequestChain,
         handleResponseChain, take
<1>1. msg \in Genuine
  BY <1>0, ReceivedType
<1>2. \/ \E tx : addTransaction(n, tx)
      \/ \E c \in published : replaceChain(n, c)
      \/ UNCHANGED vars
  <2>1. msg.type = "RESPONSE_CHAIN" => msg.blocks \in published
    BY <1>1, GenuineContents
  <2> QED
    BY <2>1 DEF dropDuplicate, handleNewTransaction, handleNewBlock, handleRequestChain,
                handleResponseChain, take
<1>3. relayed' = relayed
  BY DEF dropDuplicate, handleNewTransaction, handleNewBlock, handleRequestChain,
         handleResponseChain
<1>4. \/ handler' = handler
      \/ \E todo : Harmless(todo) /\ continue(n, m, todo)
  BY HarmlessStates DEF dropDuplicate, handleNewTransaction, handleNewBlock,
         handleRequestChain, handleResponseChain
<1>5. \A k, j \in Nodes : \/ handler'[<<k, j>>] = handler[<<k, j>>]
                          \/ Harmless(handler'[<<k, j>>])
  <2>1. CASE handler' = handler
    BY <2>1
  <2>2. CASE \E todo : Harmless(todo) /\ continue(n, m, todo)
    <3>1. PICK todo : Harmless(todo) /\ continue(n, m, todo)
      BY <2>2
    <3> QED
      BY <3>1, HandlerHarmless
  <2> QED
    BY <1>4, <2>1, <2>2
<1>6. \A k \in Nodes : /\ Len(chain[k]) \in Nat /\ Len(chain'[k]) \in Nat
                       /\ Len(chain'[k]) >= Len(chain[k])
  BY <1>2, LengthsKept
<1>7. RelayInv'
  <2>1. DOMAIN relayed' = Nodes
    BY <1>3 DEF RelayInv
  <2> QED
    BY <1>3, <1>5, <1>6, <2>1, RelayKept
<1>8. \/ Pop(n, m)
      \/ popAndSend(n, m, Nodes, NewTransaction(msg.tx))
      \/ popAndSend(n, m, {m}, RequestChain)
  BY DEF dropDuplicate, handleNewTransaction, handleNewBlock, handleRequestChain,
         handleResponseChain
<1>9. Relays
  <2> SUFFICES ASSUME NEW e \in Pairs, Len(channel'[e]) > Len(channel[e])
               PROVE  Last(channel'[e]).type # "NEW_BLOCK"
    BY DEF Relays
  <2>0. channel \in [Pairs -> Seq(Genuine)] /\ ~Pop(n, m)
    <3>1. channel \in [Pairs -> Seq(Genuine)] /\ Len(channel[e]) \in Nat
      BY DEF NetInv
    <3>2. ASSUME Pop(n, m) PROVE FALSE
      <4>1. Len(channel'[e]) <= Len(channel[e])
        BY <1>0, <3>1, <3>2, PopShrinks
      <4>2. Len(channel'[e]) \in Nat
        BY <1>0, <3>1, <3>2 DEF Pop, Pairs
      <4> QED
        BY <3>1, <4>1, <4>2
    <3> QED
      BY <3>1, <3>2
  <2>1. Last(channel'[e]) = NewTransaction(msg.tx) \/ Last(channel'[e]) = RequestChain
    BY <1>0, <1>8, <2>0, PopGrows
  <2> QED
    BY <2>1 DEF NewTransaction, RequestChain
<1> QED
  BY <1>7, <1>9

\* A step that changes no chain, no handler and no record of blocks sent, and sends
\* no block.
LEMMA RelayIdle ==
  ASSUME ChainInv, NetInv, RelayInv, relayed' = relayed, chain' = chain,
         \A k, j \in Nodes : \/ handler'[<<k, j>>] = handler[<<k, j>>]
                             \/ Harmless(handler'[<<k, j>>])
  PROVE  RelayInv'
<1>1. \A k \in Nodes : Len(chain[k]) \in Nat
  BY HeldChain, LinkedType
<1>2. DOMAIN relayed' = Nodes
  BY DEF RelayInv
<1> QED
  BY <1>1, <1>2, RelayKept

LEMMA RelayAccept ==
  ASSUME ChainInv, NetInv, RelayInv, NEW n \in Nodes, NEW m \in Nodes, finishAccept(n, m)
  PROVE  RelayInv' /\ Relays
<1>0. PICK b : b = handler[<<n, m>>].block
  OBVIOUS
<1>1. Relays
  <2>1. channel' = channel
    BY DEF finishAccept
  <2>2. \A e \in Pairs : Len(channel[e]) \in Nat
    BY DEF NetInv
  <2> QED
    BY <2>1, <2>2 DEF Relays
<1>2. relayed' = relayed /\ DOMAIN relayed' = Nodes
  BY DEF finishAccept, RelayInv
<1>3. CASE UNCHANGED vars /\ continue(n, m, Idle)
  <2>1. \A k, j \in Nodes : \/ handler'[<<k, j>>] = handler[<<k, j>>]
                            \/ Harmless(handler'[<<k, j>>])
    BY <1>3, HandlerHarmless, HarmlessStates
  <2> QED
    BY <1>1, <1>2, <1>3, <2>1, RelayIdle DEF vars
<1>4. CASE acceptBlock(n, b) /\ continue(n, m, [step |-> "forward", msg |-> NewBlock(b)])
  <2>0. PICK h : h = [step |-> "forward", msg |-> NewBlock(b)]
    OBVIOUS
  <2>1. \A k, j \in Nodes :
          handler'[<<k, j>>] = IF k = n /\ j = m THEN h ELSE handler[<<k, j>>]
    <3>1. continue(n, m, h)
      BY <1>4, <2>0
    <3> QED
      BY <3>1 DEF NetInv, continue, Pairs
  <2>2. /\ h.step = "forward" /\ h.msg.type = "NEW_BLOCK" /\ h.msg.block = b
        /\ ForwardsBlock(h)
    BY <2>0 DEF NewBlock, ForwardsBlock
  <2>3. \A k \in Nodes : /\ Len(chain[k]) \in Nat /\ Len(chain'[k]) \in Nat
                         /\ Len(chain'[k]) >= Len(chain[k])
    BY <1>4, LengthsKept
  <2>4. b.index = Len(chain[n]) /\ Len(chain'[n]) = Len(chain[n]) + 1
    <3>1. chain[n] \in Seq(ToSet(chain[n]) \cup {b}) /\ b \in ToSet(chain[n]) \cup {b}
      BY HeldChain, LinkedType, SeqMonotone
    <3>2. chain \in [Nodes -> published]
      BY DEF ChainInv, TypeOK
    <3>3. chain'[n] = Append(chain[n], b)
      BY <1>4, <3>2 DEF acceptBlock
    <3> QED
      BY <1>4, <3>1, <3>3 DEF acceptBlock, acceptable, extendsTip
  <2>5. \A k \in Nodes : \A x : Below(x, k) => Below(x, k)'
    BY <2>3 DEF Below
  <2>6. Below(b, n)' /\ ~Below(b, n)
    BY <2>3, <2>4 DEF Below
  <2>7. \A k \in Nodes : \A x \in relayed'[k] : Below(x, k)'
    BY <1>2, <2>5 DEF RelayInv
  <2>8. \A k, j \in Nodes : ForwardsBlock(handler'[<<k, j>>]) =>
          /\ Below(handler[<<k, j>>].msg.block, k)'
          /\ handler'[<<k, j>>].msg.block \notin relayed'[k]
    <3> SUFFICES ASSUME NEW k \in Nodes, NEW j \in Nodes, ForwardsBlock(handler'[<<k, j>>])
                 PROVE  /\ Below(handler[<<k, j>>].msg.block, k)'
                        /\ handler'[<<k, j>>].msg.block \notin relayed'[k]
      OBVIOUS
    <3>1. CASE k = n /\ j = m
      BY <1>2, <2>1, <2>2, <2>6, <3>1 DEF RelayInv
    <3>2. CASE ~(k = n /\ j = m)
      BY <1>2, <2>1, <2>5, <3>2 DEF RelayInv, ForwardsBlock
    <3> QED
      BY <3>1, <3>2
  <2>9. \A k, j, i \in Nodes :
          /\ ForwardsBlock(handler'[<<k, j>>]) /\ ForwardsBlock(handler'[<<k, i>>]) /\ j # i
          => handler'[<<k, j>>].msg.block # handler'[<<k, i>>].msg.block
    <3>1. \A j \in Nodes : ForwardsBlock(handler[<<n, j>>]) => handler[<<n, j>>].msg.block # b
      BY <2>6 DEF RelayInv
    <3> QED
      BY <2>1, <2>2, <3>1 DEF RelayInv, ForwardsBlock
  <2>10. \A k, j \in Nodes : handler'[<<k, j>>].step = "reply"
          => handler'[<<k, j>>].msg.type = "RESPONSE_CHAIN"
    <3> SUFFICES ASSUME NEW k \in Nodes, NEW j \in Nodes, handler'[<<k, j>>].step = "reply"
                 PROVE  handler'[<<k, j>>].msg.type = "RESPONSE_CHAIN"
      OBVIOUS
    <3>1. handler'[<<k, j>>] = handler[<<k, j>>]
      BY <2>1, <2>2
    <3> QED
      BY <3>1 DEF RelayInv
  <2> QED
    BY <1>1, <1>2, <2>7, <2>8, <2>9, <2>10 DEF RelayInv, ForwardsBlock
<1> QED
  BY <1>0, <1>3, <1>4 DEF finishAccept

\* A block that is sent joins those that were: it is below the top of the chain, and
\* no other handler is to forward it.
LEMMA RelaySent ==
  ASSUME RelayInv, NEW n \in Nodes, NEW b, Below(b, n)',
         relayed' = [relayed EXCEPT ![n] = @ \cup {b}],
         \A k \in Nodes : /\ Len(chain[k]) \in Nat /\ Len(chain'[k]) \in Nat
                          /\ Len(chain'[k]) >= Len(chain[k]),
         \A k, j \in Nodes : \/ handler'[<<k, j>>] = handler[<<k, j>>]
                             \/ Harmless(handler'[<<k, j>>]),
         \A j \in Nodes : ForwardsBlock(handler'[<<n, j>>])
                            => handler'[<<n, j>>].msg.block # b
  PROVE  RelayInv'
<1>1. \A k \in Nodes : relayed'[k] = IF k = n THEN relayed[n] \cup {b} ELSE relayed[k]
  BY DEF RelayInv
<1>2. DOMAIN relayed' = Nodes
  BY DEF RelayInv
<1>3. \A k \in Nodes : \A x : Below(x, k) => Below(x, k)'
  BY DEF Below
<1>4. \A k \in Nodes : \A x \in relayed'[k] : Below(x, k)'
  BY <1>1, <1>3 DEF RelayInv
<1>5. \A k, j \in Nodes : ForwardsBlock(handler'[<<k, j>>])
        => handler'[<<k, j>>] = handler[<<k, j>>]
  BY DEF Harmless, ForwardsBlock
<1>6. \A k, j \in Nodes : ForwardsBlock(handler'[<<k, j>>]) =>
        /\ Below(handler[<<k, j>>].msg.block, k)'
        /\ handler'[<<k, j>>].msg.block \notin relayed'[k]
  <2> SUFFICES ASSUME NEW k \in Nodes, NEW j \in Nodes, ForwardsBlock(handler'[<<k, j>>])
               PROVE  /\ Below(handler[<<k, j>>].msg.block, k)'
                      /\ handler'[<<k, j>>].msg.block \notin relayed'[k]
    OBVIOUS
  <2>1. handler'[<<k, j>>] = handler[<<k, j>>]
    BY <1>5
  <2>2. /\ Below(handler[<<k, j>>].msg.block, k)
        /\ handler[<<k, j>>].msg.block \notin relayed[k]
    BY <2>1 DEF RelayInv
  <2>3. PICK x : x = handler[<<k, j>>].msg.block
    OBVIOUS
  <2>4. Below(x, k)'
    BY <1>3, <2>2, <2>3
  <2>5. x \notin relayed'[k]
    BY <1>1, <2>1, <2>2, <2>3
  <2> QED
    BY <2>1, <2>3, <2>4, <2>5
<1>7. \A k, j, i \in Nodes :
        /\ ForwardsBlock(handler'[<<k, j>>]) /\ ForwardsBlock(handler'[<<k, i>>]) /\ j # i
        => handler'[<<k, j>>].msg.block # handler'[<<k, i>>].msg.block
  BY <1>5 DEF RelayInv, ForwardsBlock
<1>8. \A k, j \in Nodes : handler'[<<k, j>>].step = "reply"
        => handler'[<<k, j>>].msg.type = "RESPONSE_CHAIN"
  <2> SUFFICES ASSUME NEW k \in Nodes, NEW j \in Nodes, handler'[<<k, j>>].step = "reply"
               PROVE  handler'[<<k, j>>].msg.type = "RESPONSE_CHAIN"
    OBVIOUS
  <2>1. CASE handler'[<<k, j>>] = handler[<<k, j>>]
    BY <2>1 DEF RelayInv
  <2>2. CASE Harmless(handler'[<<k, j>>])
    BY <2>2 DEF Harmless
  <2> QED
    BY <2>1, <2>2
<1> QED
  BY <1>2, <1>4, <1>6, <1>7, <1>8 DEF RelayInv, ForwardsBlock

LEMMA RelayForward ==
  ASSUME ChainInv, NetInv, RelayInv, NEW n \in Nodes, NEW m \in Nodes,
         finishForward(n, m) \/ finishReply(n, m)
  PROVE  RelayInv' /\ Relays
<1>0. PICK h : h = handler[<<n, m>>]
  OBVIOUS
<1>1. chain' = chain /\ continue(n, m, Idle)
  BY DEF finishForward, finishReply, vars
<1>2. \A k, j \in Nodes : \/ handler'[<<k, j>>] = handler[<<k, j>>]
                          \/ Harmless(handler'[<<k, j>>])
  BY <1>1, HandlerHarmless, HarmlessStates
<1>3. CASE /\ h.step = "forward" /\ h.msg.type = "NEW_BLOCK"
           /\ sendBlock(n, Nodes \ {m}, h.msg.block)
  <2>0. PICK b : b = h.msg.block
    OBVIOUS
  <2>1. Below(b, n) /\ b \notin relayed[n]
    BY <1>0, <1>3, <2>0 DEF RelayInv, ForwardsBlock
  <2>2. \A k \in Nodes : Len(chain[k]) \in Nat
    BY HeldChain, LinkedType
  <2>3. \A j \in Nodes : ForwardsBlock(handler'[<<n, j>>]) => handler'[<<n, j>>].msg.block # b
    <3> SUFFICES ASSUME NEW j \in Nodes, ForwardsBlock(handler'[<<n, j>>])
                 PROVE  handler'[<<n, j>>].msg.block # b
      OBVIOUS
    <3>1. j # m /\ handler'[<<n, j>>] = handler[<<n, j>>]
      <4>1. handler'[<<n, m>>] = Idle
        BY <1>1, HandlerChange
      <4>2. ~ForwardsBlock(Idle)
        BY DEF ForwardsBlock, Idle
      <4>3. j # m
        BY <4>1, <4>2 DEF ForwardsBlock
      <4> QED
        BY <1>1, <4>3, HandlerChange
    <3>2. ForwardsBlock(handler[<<n, j>>]) /\ ForwardsBlock(handler[<<n, m>>])
      BY <1>0, <1>3, <3>1 DEF ForwardsBlock
    <3>3. handler[<<n, j>>].msg.block # handler[<<n, m>>].msg.block
      BY <3>1, <3>2 DEF RelayInv
    <3> QED
      BY <1>0, <2>0, <3>1, <3>3
  <2>4. relayed' = [relayed EXCEPT ![n] = @ \cup {b}]
    BY <1>3, <2>0 DEF sendBlock
  <2>5. Below(b, n)'
    BY <1>1, <2>1 DEF Below
  <2>6. RelayInv'
    <3>1. \A k \in Nodes : /\ Len(chain[k]) \in Nat /\ Len(chain'[k]) \in Nat
                           /\ Len(chain'[k]) >= Len(chain[k])
      BY <1>1, <2>2
    <3> QED
      BY <1>2, <2>3, <2>4, <2>5, <3>1, RelaySent
  <2>7. Relays
    <3> SUFFICES ASSUME NEW e \in Pairs, Len(channel'[e]) > Len(channel[e])
                 PROVE  Last(channel'[e]).block \notin relayed[e[1]]
      BY DEF Relays
    <3>1. e[1] = n /\ Last(channel'[e]) = NewBlock(b)
      BY <1>3, <2>0, SendGrows DEF sendBlock, NetInv
    <3> QED
      BY <2>1, <3>1 DEF NewBlock
  <2> QED
    BY <2>6, <2>7
<1>4. CASE /\ relayed' = relayed /\ h.msg.type # "NEW_BLOCK"
           /\ \E to : send(n, to, h.msg)
  <2>1. Relays
    <3> SUFFICES ASSUME NEW e \in Pairs, Len(channel'[e]) > Len(channel[e])
                 PROVE  Last(channel'[e]).type # "NEW_BLOCK"
      BY DEF Relays
    <3>1. Last(channel'[e]) = h.msg
      BY <1>4, SendGrows DEF NetInv
    <3> QED
      BY <1>4, <3>1
  <2> QED
    BY <1>1, <1>2, <1>4, <2>1, RelayIdle
<1>5. CASE finishReply(n, m)
  <2>1. h.msg.type = "RESPONSE_CHAIN" /\ send(n, {m}, h.msg) /\ relayed' = relayed
    BY <1>0, <1>5 DEF finishReply, RelayInv
  <2> QED
    BY <1>4, <2>1
<1>6. CASE finishForward(n, m)
  BY <1>0, <1>3, <1>4, <1>6 DEF finishForward
<1> QED
  BY <1>5, <1>6

LEMMA RelayClient ==
  ASSUME ChainInv, NetInv, RelayInv, NEW n \in Nodes,
         \/ \E tx \in Txs : submitTransaction(n, tx)
         \/ \E miner \in MinersOf[n] : mine(n, miner)
  PROVE  RelayInv' /\ Relays
<1>0. \A e \in Pairs : Len(channel[e]) \in Nat
  BY DEF NetInv
<1>1. ASSUME NEW tx \in Txs, submitTransaction(n, tx) PROVE RelayInv' /\ Relays
  <2>1. chain' = chain /\ handler' = handler /\ relayed' = relayed
    BY <1>1 DEF submitTransaction, addTransaction
  <2>2. channel' = channel \/ send(n, Nodes, NewTransaction(tx))
    BY <1>1 DEF submitTransaction, broadcastTransaction
  <2>3. Relays
    <3> SUFFICES ASSUME NEW e \in Pairs, Len(channel'[e]) > Len(channel[e])
                 PROVE  Last(channel'[e]).type # "NEW_BLOCK"
      BY DEF Relays
    <3>1. Last(channel'[e]) = NewTransaction(tx)
      BY <1>0, <2>2, SendGrows DEF NetInv
    <3> QED
      BY <3>1 DEF NewTransaction
  <2> QED
    BY <2>1, <2>3, RelayIdle
<1>2. ASSUME NEW miner \in MinersOf[n], mine(n, miner) PROVE RelayInv' /\ Relays
  <2>0. PICK b : b = newBlock(n, miner)
    OBVIOUS
  <2>1. \A k \in Nodes : /\ Len(chain[k]) \in Nat /\ Len(chain'[k]) \in Nat
                         /\ Len(chain'[k]) >= Len(chain[k])
    BY <1>2, LengthsKept DEF mine
  <2>2. b.index = Len(chain[n])
    BY <2>0 DEF newBlock, Block
  <2>3. Len(chain'[n]) = Len(chain[n]) + 1
    <3>1. chain[n] \in Seq(ToSet(chain[n]) \cup {b}) /\ b \in ToSet(chain[n]) \cup {b}
      BY HeldChain, LinkedType, SeqMonotone
    <3>2. chain \in [Nodes -> published]
      BY DEF ChainInv, TypeOK
    <3>3. chain'[n] = Append(chain[n], b)
      BY <1>2, <2>0, <3>2 DEF mine, minePendingTransactions
    <3> QED
      BY <3>1, <3>3
  <2>4. Below(b, n)' /\ ~Below(b, n)
    BY <2>1, <2>2, <2>3 DEF Below
  <2>5. b \notin relayed[n]
    BY <2>4 DEF RelayInv
  <2>6. handler' = handler
    BY <1>2 DEF mine
  <2>7. CASE channel' = channel /\ relayed' = relayed
    <3>1. Relays
      BY <1>0, <2>7 DEF Relays
    <3>2. DOMAIN relayed' = Nodes
      BY <2>7 DEF RelayInv
    <3> QED
      BY <2>1, <2>6, <2>7, <3>1, <3>2, RelayKept
  <2>8. CASE sendBlock(n, Nodes, b)
    <3>1. \A j \in Nodes : ForwardsBlock(handler'[<<n, j>>])
            => handler'[<<n, j>>].msg.block # b
      BY <2>4, <2>6 DEF RelayInv, ForwardsBlock
    <3>2. relayed' = [relayed EXCEPT ![n] = @ \cup {b}]
      BY <2>8 DEF sendBlock
    <3>3. RelayInv'
      BY <2>1, <2>4, <2>6, <3>1, <3>2, RelaySent
    <3>4. Relays
      <4> SUFFICES ASSUME NEW e \in Pairs, Len(channel'[e]) > Len(channel[e])
                   PROVE  Last(channel'[e]).block \notin relayed[e[1]]
        BY DEF Relays
      <4>1. e[1] = n /\ Last(channel'[e]) = NewBlock(b)
        BY <2>8, SendGrows DEF sendBlock, NetInv
      <4> QED
        BY <2>5, <4>1 DEF NewBlock
    <3> QED
      BY <3>3, <3>4
  <2> QED
    BY <1>2, <2>0, <2>7, <2>8 DEF mine, broadcastBlock
<1> QED
  BY <1>1, <1>2

LEMMA RelayConnections ==
  ASSUME ChainInv, NetInv, RelayInv,
         \/ \E d, a \in Nodes : connect(d, a) \/ DropMessage(d, a)
         \/ \E n \in Nodes : requestChainFromPeers(n)
         \/ \E l \in Links : LoseConnection(l)
         \/ NetTick \/ SteadyTick \/ UNCHANGED netVars
  PROVE  RelayInv' /\ Relays
<1>0. \A e \in Pairs : channel[e] \in Seq(Genuine) /\ Len(channel[e]) \in Nat
  BY DEF NetInv
<1>1. chain' = chain /\ relayed' = relayed
  BY DEF connect, DropMessage, requestChainFromPeers, LoseConnection, NetTick, Tick,
         SteadyTick, netVars, sessionVars, vars
<1>2. \A k, j \in Nodes : \/ handler'[<<k, j>>] = handler[<<k, j>>]
                          \/ Harmless(handler'[<<k, j>>])
  <2>1. CASE handler' = handler
    BY <2>1
  <2>2. CASE \E l : handler' = Interrupted({l})
    <3>1. \A e \in Pairs : handler'[e] = handler[e] \/ handler'[e] = Idle
      BY <2>2 DEF Interrupted
    <3> QED
      BY <3>1, HarmlessStates DEF Pairs
  <2> QED
    BY <2>1, <2>2 DEF connect, DropMessage, requestChainFromPeers, LoseConnection, NetTick,
                      SteadyTick, netVars, sessionVars
<1>3. Relays
  <2> SUFFICES ASSUME NEW e \in Pairs, Len(channel'[e]) > Len(channel[e])
               PROVE  Last(channel'[e]).type # "NEW_BLOCK"
    BY DEF Relays
  <2>1. RequestChain.type # "NEW_BLOCK"
    BY DEF RequestChain
  <2>2. ASSUME NEW d \in Nodes, NEW a \in Nodes, connect(d, a)
        PROVE  Last(channel'[e]) = RequestChain
    <3>1. channel'[e] = enqueue(channel[e], RequestChain) \/ channel'[e] = channel[e]
      BY <2>2 DEF connect, NetInv
    <3> QED
      BY <1>0, <3>1, EnqueueGrows
  <2>3. ASSUME NEW n \in Nodes, NEW m \in Nodes, DropMessage(n, m)
        PROVE  FALSE
    <3>1. channel[<<m, n>>] # <<>> /\ Pop(n, m)
      BY <2>3 DEF DropMessage
    <3>2. Len(channel'[e]) <= Len(channel[e])
      BY <3>1, PopShrinks DEF NetInv
    <3>3. Len(channel'[e]) \in Nat
      BY <3>1 DEF Pop, NetInv, Pairs
    <3> QED
      BY <1>0, <3>2, <3>3
  <2>4. ASSUME NEW n \in Nodes, requestChainFromPeers(n)
        PROVE  Last(channel'[e]) = RequestChain
    BY <2>4, SendGrows DEF requestChainFromPeers, NetInv
  <2>5. ASSUME NEW l \in Links, LoseConnection(l)
        PROVE  FALSE
    <3>1. channel'[e] = <<>> \/ channel'[e] = channel[e]
      BY <2>5 DEF LoseConnection, Disconnect
    <3> QED
      BY <1>0, <3>1
  <2>6. NetTick \/ SteadyTick \/ UNCHANGED netVars => FALSE
    BY <1>0 DEF NetTick, SteadyTick, netVars, sessionVars
  <2> QED
    BY <2>1, <2>2, <2>3, <2>4, <2>5, <2>6
<1> QED
  BY <1>1, <1>2, <1>3, RelayIdle

\* A restart forgets what was sent together with all that was to be forwarded, so
\* the chain may be any.
LEMMA RelayRestart ==
  ASSUME ChainInv, ChainInv', NetInv, RelayInv, NEW n \in Nodes, Restart(n)
  PROVE  RelayInv' /\ Relays
<1>0. PICK lost : lost = {l \in connected : n \in {l[1], l[2]}}
  OBVIOUS
<1>1. /\ Disconnect(lost)
      /\ handler' = [e \in Pairs |-> IF e[1] = n THEN Idle ELSE Interrupted(lost)[e]]
      /\ relayed' = [relayed EXCEPT ![n] = {}]
  BY <1>0 DEF Restart
<1>2. Relays
  <2> SUFFICES ASSUME NEW e \in Pairs, Len(channel'[e]) > Len(channel[e])
               PROVE  FALSE
    BY DEF Relays
  <2>1. channel'[e] = <<>> \/ channel'[e] = channel[e]
    BY <1>1 DEF Disconnect
  <2>2. Len(channel[e]) \in Nat
    BY DEF NetInv
  <2> QED
    BY <2>1, <2>2
<1>3. \A k, j \in Nodes : \/ handler'[<<k, j>>] = handler[<<k, j>>]
                          \/ handler'[<<k, j>>] = Idle
  BY <1>1 DEF Interrupted, Pairs
<1>4. \A j \in Nodes : handler'[<<n, j>>] = Idle
  BY <1>1 DEF Pairs
<1>5. \A k \in Nodes : Len(chain[k]) \in Nat /\ Len(chain'[k]) \in Nat
  <2>1. \A k \in Nodes : Len(chain[k]) \in Nat
    BY HeldChain, LinkedType
  <2>2. \A k \in Nodes : Len(chain'[k]) \in Nat
    BY <2>1, HeldChain, LinkedType DEF ChainInv, TypeOK
  <2> QED
    BY <2>1, <2>2
<1>6. \A k \in Nodes : k # n => chain'[k] = chain[k] /\ relayed'[k] = relayed[k]
  <2>1. chain \in [Nodes -> published]
    BY DEF ChainInv, TypeOK
  <2>2. \E c : chain' = [chain EXCEPT ![n] = c]
    BY DEF Restart, CrashRestart, GracefulRestart, construct
  <2> QED
    BY <1>1, <2>1, <2>2 DEF RelayInv
<1>7. relayed'[n] = {} /\ DOMAIN relayed' = Nodes
  BY <1>1 DEF RelayInv
<1>8. \A k \in Nodes : \/ Len(chain'[k]) >= Len(chain[k]) /\ relayed'[k] = relayed[k]
                       \/ /\ relayed'[k] = {}
                          /\ \A j \in Nodes : Harmless(handler'[<<k, j>>])
  <2> SUFFICES ASSUME NEW k \in Nodes
               PROVE  \/ Len(chain'[k]) >= Len(chain[k]) /\ relayed'[k] = relayed[k]
                      \/ /\ relayed'[k] = {}
                         /\ \A j \in Nodes : Harmless(handler'[<<k, j>>])
    OBVIOUS
  <2>1. CASE k = n
    BY <1>4, <1>7, <2>1, HarmlessStates
  <2>2. CASE k # n
    BY <1>5, <1>6, <2>2
  <2> QED
    BY <2>1, <2>2
<1>9. \A k, j \in Nodes : \/ handler'[<<k, j>>] = handler[<<k, j>>]
                          \/ Harmless(handler'[<<k, j>>])
  BY <1>3, HarmlessStates
<1> QED
  BY <1>2, <1>5, <1>7, <1>8, <1>9, RelayKept

LEMMA RelayNext ==
  ASSUME ChainInv, ChainInv', NetInv, RelayInv, [NetNext]_netVars
  PROVE  RelayInv' /\ Relays
<1>1. ASSUME NEW n \in Nodes, NEW m \in Nodes, Handle(n, m) PROVE RelayInv' /\ Relays
  BY <1>1, RelayReceive, RelayAccept, RelayForward DEF Handle
<1> QED
  BY <1>1, RelayClient, RelayConnections, RelayRestart DEF NetNext

LEMMA RelayInit == Init /\ Quiet => RelayInv
<1> SUFFICES ASSUME Quiet PROVE RelayInv
  OBVIOUS
<1>1. /\ \A n, m \in Nodes : handler[<<n, m>>] = Idle
      /\ \A n \in Nodes : relayed[n] = {}
      /\ DOMAIN relayed = Nodes
  BY DEF Quiet, Pairs
<1>2. Idle.step = "idle"
  BY DEF Idle
<1> QED
  BY <1>1, <1>2 DEF RelayInv, ForwardsBlock

-----------------------------------------------------------------------------
(* Theorems about the messages *)

\* Whatever a channel or a handler holds was made, whole, by a client or a node:
\* for any topology, any filter sizes and any failures, whether links are up at the
\* start or not.
THEOREM MessagesGenuine == NetSpec \/ SettledSpec => []NetInv
<1>1. NetInit \/ SettledInit => ChainInv /\ NetInv
  BY ChainInvInit, NetInvInit DEF NetInit, SettledInit
<1>2. ChainInv /\ NetInv /\ [NetNext]_netVars => (ChainInv /\ NetInv)'
  BY CoreStep, ChainInvNext, NetInvNext
<1> QED
  BY <1>1, <1>2, PTL DEF NetSpec, SettledSpec

\* Nodes that act on stale copies, behind filters that forget, implement module
\* Blockchain.
THEOREM NetworkIsBlockchain == NetSpec \/ SettledSpec => RefinesBlockchain
<1>1. NetInit \/ SettledInit => Init
  BY DEF NetInit, SettledInit
<1> QED
  BY <1>1, CoreStep, MessagesGenuine, PTL
  DEF NetSpec, SettledSpec, RefinesBlockchain, Spec

\* So no transfer is confirmed twice in a network of nodes that exchange
\* messages, lose connections and restart.
THEOREM NetworkNoDoubleConfirmation == NetSpec \/ SettledSpec => []NoTxTwice
BY NetworkIsBlockchain, NoDoubleConfirmation, PTL DEF RefinesBlockchain

\* So no message, lost connection or restart makes a node's chain shorter: neither
\* replaceChain on a chain response nor the constructor after a restart loses blocks, when
\* the clocks agree, writes succeed and the configured difficulties are acceptable.
THEOREM NetworkChainsOnlyGrow ==
  Synchronised => (NetSpec \/ SettledSpec => ChainNeverShrinks)
<1> SUFFICES ASSUME Synchronised PROVE NetSpec \/ SettledSpec => ChainNeverShrinks
  OBVIOUS
<1>1. Spec => ChainNeverShrinks
  BY ChainsOnlyGrow
<1> QED
  BY <1>1, NetworkIsBlockchain, PTL DEF RefinesBlockchain

\* No gossip storm: a node that has sent a block to its peers never sends it again
\* until it restarts, for any topology, even when seenBlockHashes_ is full and forgets
\* and the duplicate window is over, whether links are up at the start or not.
THEOREM BlocksRelayedOnce == NetSpec \/ SettledSpec => RelayOnce
<1>1. NetInit \/ SettledInit => ChainInv /\ NetInv /\ RelayInv
  BY ChainInvInit, NetInvInit, RelayInit DEF NetInit, SettledInit
<1>2. ChainInv /\ NetInv /\ RelayInv /\ [NetNext]_netVars => (ChainInv /\ NetInv /\ RelayInv)'
  BY CoreStep, ChainInvNext, NetInvNext, RelayNext
<1>3. ChainInv /\ NetInv /\ RelayInv /\ [NetNext]_netVars => [Relays]_netVars
  BY CoreStep, ChainInvNext, RelayNext
<1> QED
  BY <1>1, <1>2, <1>3, PTL DEF NetSpec, SettledSpec, RelayOnce, Relays

=============================================================================
