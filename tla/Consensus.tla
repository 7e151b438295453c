----------------------------- MODULE Consensus -----------------------------
(***************************************************************************)
(* The rules of PoWEngine, DifficultyAdjuster and Blockchain::isChainValid *)
(* as predicates and functions of chains.  A chain is the sequence of its  *)
(* blocks: chain[1] is the genesis block, whose index field is 0.          *)
(***************************************************************************)
EXTENDS Ledger

CONSTANTS
  Window,            \* windowSize_: blocks per retarget
  TargetBlockTime,   \* targetBlockTimeSec_
  FutureLimit,       \* how far a timestamp may be ahead of the local clock
  MinDifficulty,     \* minDifficulty_
  MaxDifficulty      \* maxDifficulty_

ASSUME ConsensusAssumption ==
  /\ Window \in Nat \ {0} /\ TargetBlockTime \in Nat /\ FutureLimit \in Nat
  /\ MinDifficulty \in Nat /\ MaxDifficulty \in Nat
  /\ MinDifficulty <= MaxDifficulty

MaxFactor == 4             \* maxAdjustmentFactor_
MaxBlockDifficulty == 64   \* upper bound in PoWEngine::validateBlock

-----------------------------------------------------------------------------
(* DifficultyAdjuster *)

shouldRetarget(len) == len > 1 /\ (len - 1) % Window = 0

\* old * expected / actual, the ratio clamped to [1/MaxFactor, MaxFactor],
\* rounded half up as std::round does for positive values.
Rescale(old, expected, actual) ==
  IF expected >= MaxFactor * actual THEN old * MaxFactor
  ELSE IF MaxFactor * expected <= actual THEN (2 * old + MaxFactor) \div (2 * MaxFactor)
  ELSE (2 * old * expected + actual) \div (2 * actual)

Clamp(d) == Max({MinDifficulty, Min({MaxDifficulty, d})})

calculateNextDifficulty(c, current) ==
  LET len    == Len(c)
      actual == c[len].timestamp - c[len - Window].timestamp
  IN  IF len < Window + 1 \/ ~shouldRetarget(len) THEN current
      ELSE IF actual <= 0 THEN current
      ELSE Clamp(Rescale(current, Window * TargetBlockTime, actual))

validateBlockTimestamp(b, prev, clock) ==
  /\ b.timestamp >= prev.timestamp
  /\ b.timestamp <= clock + FutureLimit

-----------------------------------------------------------------------------
(* PoWEngine and Blockchain: what makes a chain acceptable.  Balances,     *)
(* nonces and repeated transactions are not among the conditions.          *)

validateBlock(b, prev, clock) ==
  /\ b.difficulty \in 1..MaxBlockDifficulty
  /\ b.previousHash = Hash(prev)
  /\ validateBlockTimestamp(b, prev, clock)
  /\ hasValidTransactions(b)

\* Mutation: the first block need not be a genesis block.
isChainValidHeadless(c) ==
  /\ c # <<>>
  /\ \A i \in 2..Len(c) : /\ c[i].index = i - 1
                          /\ c[i].previousHash = Hash(c[i-1])
                          /\ hasValidTransactions(c[i])

isChainValid(c) ==
  /\ c # <<>>
  /\ c[1].previousHash = ZeroHash
  /\ \A i \in 2..Len(c) : /\ c[i].index = i - 1
                          /\ c[i].previousHash = Hash(c[i-1])
                          /\ hasValidTransactions(c[i])

validateChainAgainstConsensus(c, clock) ==
  /\ isChainValid(c)
  /\ \A i \in 2..Len(c) : validateBlock(c[i], c[i-1], clock)

\* Mutations: ties are accepted, and shorter chains are.
shouldAcceptTie(current, candidate) == Len(candidate) >= Len(current)
shouldAcceptOther(current, candidate) == Len(candidate) # Len(current)

shouldAcceptChain(current, candidate) == Len(candidate) > Len(current)

=============================================================================
