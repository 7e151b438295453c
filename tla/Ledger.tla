------------------------------- MODULE Ledger -------------------------------
(***************************************************************************)
(* Transactions, blocks and the account state a chain determines: the pure *)
(* part of src/transaction, src/block and src/state.  No variables; module *)
(* Blockchain keeps one copy of the account state per node and updates it  *)
(* with the operators below.                                               *)
(*                                                                         *)
(* SHA-256 is collision free here: a txID stands for the transaction core  *)
(* it hashes, so a transaction is its own txID, and Hash(b) wraps the      *)
(* whole block.  Recomputing a hash or a Merkle root and comparing it with *)
(* the stored one is therefore always successful for blocks that nodes     *)
(* made, and two nodes that mine identical contents get the same block.    *)
(***************************************************************************)
EXTENDS Integers, SequencesExt

CONSTANTS
  Accounts,      \* wallet addresses (PCN_...)
  Txs,           \* signed transfers that clients may submit
  Reward         \* kBlockReward

COINBASE == "COINBASE"      \* senderPublicKey / fromAddress of a reward
GENESIS  == "GENESIS"       \* toAddress of the reward in the genesis block
NoAddress == ""             \* the empty toAddress, which addTransaction lets pass

Addresses == Accounts \cup {GENESIS}

ASSUME AccountsAssumption ==
  Accounts \cap {COINBASE, GENESIS, NoAddress} = {} /\ IsFiniteSet(Accounts)
ASSUME TxsAssumption ==
  Txs \subseteq [from : Accounts, to : Addresses \cup {NoAddress}, amount : Nat,
                 nonce : Nat, time : Int]
ASSUME RewardAssumption == Reward \in Nat

-----------------------------------------------------------------------------
(* Transaction *)

isCoinbase(tx) == tx.from = COINBASE

Coinbase(to, time) ==
  [from |-> COINBASE, to |-> to, amount |-> Reward, nonce |-> 0, time |-> time]

\* Signatures and addresses of the members of Txs are genuine; what is left
\* of verify() is the test on the amount.
verify(tx) == isCoinbase(tx) \/ tx.amount # 0

isExpired(tx, clock, window) ==
  \/ clock - tx.time > window
  \/ tx.time - clock > window

-----------------------------------------------------------------------------
(* Block *)

Hash(b) == <<b>>

ZeroHash == <<>>

Block(idx, prevHash, txs, diff, time) ==
  [index |-> idx, previousHash |-> prevHash, transactions |-> txs,
   difficulty |-> diff, timestamp |-> time]

\* The fixed timestamp is the origin of the model's time.
createGenesis(diff) ==
  Block(0, ZeroHash, <<Coinbase(GENESIS, 0)>>, diff, 0)

hasValidTransactions(b) == \A i \in DOMAIN b.transactions : verify(b.transactions[i])

\* The txIDs that applying b marks as spent.
TxIDs(b) == {tx \in ToSet(b.transactions) : ~isCoinbase(tx)}

-----------------------------------------------------------------------------
(* StateManager: spentTxIDs_, balances_, lastNonceMap_ and                 *)
(* transactionsByAddress_, an absent map entry being the default value.    *)
(* ownershipMap_ is spentTxIDs_ split by sender and has no operator here.  *)

\* Mutation: both balances are read before either is written.
TransferStale(bal, tx) ==
  LET credited == IF tx.to = NoAddress THEN bal
                  ELSE [bal EXCEPT ![tx.to] = @ + tx.amount]
  IN  IF isCoinbase(tx)
      THEN credited
      ELSE [credited EXCEPT ![tx.from] =
              IF bal[tx.from] > tx.amount THEN bal[tx.from] - tx.amount ELSE 0]

\* The receiver, if there is one, is credited first, then the sender is debited,
\* and the debit stops at zero instead of failing.
Transfer(bal, tx) ==
  LET credited == IF tx.to = NoAddress THEN bal
                  ELSE [bal EXCEPT ![tx.to] = @ + tx.amount]
  IN  IF isCoinbase(tx)
      THEN credited
      ELSE [credited EXCEPT ![tx.from] = IF @ > tx.amount THEN @ - tx.amount ELSE 0]

\* One entry for the receiver, if there is one, and one for the sender: a
\* transfer to oneself is listed twice.
Record(hist, tx) ==
  LET received == IF tx.to = NoAddress THEN hist
                  ELSE [hist EXCEPT ![tx.to] = Append(@, tx)]
  IN  IF isCoinbase(tx) THEN received
                        ELSE [received EXCEPT ![tx.from] = Append(@, tx)]

ApplyBalances(bal, b) == FoldLeft(Transfer, bal, b.transactions)

ApplyNonces(nonces, b) ==
  [a \in Addresses |->
     Max({nonces[a]} \cup {tx.nonce : tx \in {t \in TxIDs(b) : t.from = a}})]

ApplyHistory(hist, b) == FoldLeft(Record, hist, b.transactions)

ApplySpent(spent, b) == spent \cup TxIDs(b)

NoBalances == [a \in Addresses |-> 0]
NoNonces   == [a \in Addresses |-> 0]
NoHistory  == [a \in Addresses |-> <<>>]

\* rebuildState: clear everything, then apply every block in order.
RebuildBalances(c) == FoldLeft(ApplyBalances, NoBalances, c)
RebuildNonces(c)   == FoldLeft(ApplyNonces, NoNonces, c)
RebuildHistory(c)  == FoldLeft(ApplyHistory, NoHistory, c)
RebuildSpent(c)    == UNION {TxIDs(c[i]) : i \in DOMAIN c}

=============================================================================
