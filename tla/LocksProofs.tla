---------------------------- MODULE LocksProofs -----------------------------
(***************************************************************************)
(* Every handler takes the mutexes in the order of their ranks, so threads *)
(* never wait for each other in a circle, however many they are; and only  *)
(* one handler locks a mutex that it holds.                                *)
(***************************************************************************)
EXTENDS Locks, Integers, TLAPS

-----------------------------------------------------------------------------
(* The scripts: what In and \o make of sections that respect the ranks.    *)

Moves == [does : {"lock", "unlock"}, mutex : Mutexes]

\* Whether what step i of s locks is still locked before step k.
StillHeld(s, i, k) ==
  /\ s[i].does = "lock"
  /\ \A j \in i..(k - 1) : s[j] # [does |-> "unlock", mutex |-> s[i].mutex]

\* Everything is unlocked at the end of s; it locks only mutexes of rank above r
\* or in relocked; and while it holds h it locks only mutexes of higher rank, or
\* h again if h is in relocked.
Balanced(s) == \A i \in 1..Len(s) : ~StillHeld(s, i, Len(s) + 1)

Above(s, r, relocked) ==
  \A k \in 1..Len(s) :
    s[k].does = "lock" => Rank[s[k].mutex] > r \/ s[k].mutex \in relocked

Nested(s, relocked) ==
  \A k \in 1..Len(s) : \A i \in 1..(k - 1) :
    s[k].does = "lock" /\ StillHeld(s, i, k)
      => \/ Rank[s[i].mutex] < Rank[s[k].mutex]
         \/ s[i].mutex = s[k].mutex /\ s[k].mutex \in relocked

Good(s, r, relocked) ==
  s \in Seq(Moves) /\ Balanced(s) /\ Above(s, r, relocked) /\ Nested(s, relocked)

LEMMA RankNat == \A m \in Mutexes : Rank[m] \in Nat
BY DEF Mutexes, Rank

LEMMA MutexAt ==
  ASSUME NEW a \in Seq(Moves), NEW k \in 1..Len(a)
  PROVE  a[k].mutex \in Mutexes /\ Rank[a[k].mutex] \in Nat
<1>1. a[k] \in Moves
  OBVIOUS
<1>2. a[k].mutex \in Mutexes
  BY <1>1 DEF Moves
<1> QED
  BY <1>2, RankNat

\* One script after the other.
LEMMA GoodThen ==
  ASSUME NEW a, NEW b, NEW r, NEW relocked, Good(a, r, relocked), Good(b, r, relocked)
  PROVE  Good(a \o b, r, relocked)
<1> DEFINE s == a \o b
           n == Len(a)
<1>1. /\ a \in Seq(Moves) /\ b \in Seq(Moves) /\ Balanced(a) /\ Balanced(b)
      /\ Above(a, r, relocked) /\ Above(b, r, relocked)
      /\ Nested(a, relocked) /\ Nested(b, relocked)
  BY DEF Good
<1>2. /\ s \in Seq(Moves) /\ n \in Nat /\ Len(b) \in Nat /\ Len(s) = n + Len(b)
      /\ \A i \in 1..n : s[i] = a[i]
      /\ \A i \in 1..Len(b) : s[n + i] = b[i]
  BY <1>1
<1> HIDE DEF s, n
<1>3. \A i \in 1..Len(s) : i \in 1..n \/ (i - n \in 1..Len(b) /\ s[i] = b[i - n])
  <2> SUFFICES ASSUME NEW i \in 1..Len(s), i \notin 1..n
               PROVE  i - n \in 1..Len(b) /\ s[i] = b[i - n]
    OBVIOUS
  <2>1. i - n \in 1..Len(b) /\ n + (i - n) = i
    BY <1>2
  <2> QED
    BY <1>2, <2>1
<1>4. ASSUME NEW i \in 1..n, NEW k \in 1..(n + 1) PROVE StillHeld(s, i, k) => StillHeld(a, i, k)
  <2>1. \A j \in i..(k - 1) : j \in 1..n
    BY <1>2
  <2> QED
    BY <1>2, <2>1 DEF StillHeld
<1>5. ASSUME NEW i \in 1..n, NEW k \in (n + 1)..(Len(s) + 1) PROVE ~StillHeld(s, i, k)
  <2>1. PICK j \in i..n : a[i].does # "lock" \/ a[j] = [does |-> "unlock", mutex |-> a[i].mutex]
    BY <1>1, <1>2 DEF Balanced, StillHeld, n
  <2>2. j \in 1..n /\ j \in i..(k - 1)
    BY <1>2
  <2>3. s[i] = a[i] /\ s[j] = a[j]
    BY <1>2, <2>2
  <2> QED
    BY <2>1, <2>2, <2>3 DEF StillHeld
<1>6. ASSUME NEW i \in 1..Len(b), NEW k \in 1..(Len(b) + 1), StillHeld(s, n + i, n + k)
      PROVE  StillHeld(b, i, k)
  <2>1. s[n + i] = b[i]
    BY <1>2
  <2>2. ASSUME NEW j \in i..(k - 1) PROVE b[j] # [does |-> "unlock", mutex |-> b[i].mutex]
    <3>1. j \in 1..Len(b) /\ n + j \in (n + i)..((n + k) - 1)
      BY <1>2
    <3>2. s[n + j] = b[j]
      BY <1>2, <3>1
    <3> QED
      BY <1>6, <2>1, <3>1, <3>2 DEF StillHeld
  <2> QED
    BY <1>6, <2>1, <2>2 DEF StillHeld
<1>7. Balanced(s)
  <2> SUFFICES ASSUME NEW i \in 1..Len(s), StillHeld(s, i, Len(s) + 1) PROVE FALSE
    BY DEF Balanced
  <2>1. CASE i \in 1..n
    BY <1>2, <1>5, <2>1
  <2>2. CASE i - n \in 1..Len(b)
    <3>1. n + (i - n) = i /\ n + (Len(b) + 1) = Len(s) + 1 /\ Len(b) + 1 \in 1..(Len(b) + 1)
      BY <1>2
    <3>2. StillHeld(b, i - n, Len(b) + 1)
      BY <1>6, <2>2, <3>1
    <3> QED
      BY <1>1, <2>2, <3>2 DEF Balanced
  <2> QED
    BY <1>3, <2>1, <2>2
<1>8. Above(s, r, relocked)
  BY <1>1, <1>2, <1>3 DEF Above, n
<1>9. Nested(s, relocked)
  <2> SUFFICES ASSUME NEW k \in 1..Len(s), NEW i \in 1..(k - 1), s[k].does = "lock",
                      StillHeld(s, i, k)
               PROVE  \/ Rank[s[i].mutex] < Rank[s[k].mutex]
                      \/ s[i].mutex = s[k].mutex /\ s[k].mutex \in relocked
    BY DEF Nested
  <2>1. CASE k \in 1..n
    <3>1. i \in 1..n /\ k \in 1..(n + 1)
      BY <1>2, <2>1
    <3>2. StillHeld(a, i, k) /\ s[i] = a[i] /\ s[k] = a[k]
      BY <1>2, <1>4, <2>1, <3>1
    <3> QED
      BY <1>1, <2>1, <3>2 DEF Nested, n
  <2>2. CASE k \notin 1..n
    <3>1. k - n \in 1..Len(b) /\ s[k] = b[k - n] /\ n + (k - n) = k
          /\ k \in (n + 1)..(Len(s) + 1) /\ k - n \in 1..(Len(b) + 1)
      BY <1>2, <1>3, <2>2
    <3>2. i \notin 1..n /\ i \in 1..Len(s)
      BY <1>2, <1>5, <3>1
    <3>3. i - n \in 1..Len(b) /\ s[i] = b[i - n] /\ n + (i - n) = i
      BY <1>2, <1>3, <3>2
    <3>4. StillHeld(b, i - n, k - n)
      BY <1>6, <3>1, <3>3
    <3>5. i - n \in 1..((k - n) - 1)
      BY <1>2, <3>3
    <3> QED
      BY <1>1, <3>1, <3>3, <3>4, <3>5 DEF Nested
  <2> QED
    BY <2>1, <2>2
<1> QED
  BY <1>2, <1>7, <1>8, <1>9 DEF Good, s

\* A section: what is locked in it may be of higher rank, or m itself if m may be
\* locked again.
LEMMA GoodIn ==
  ASSUME NEW m \in Mutexes, NEW a, NEW r \in Nat, NEW relocked,
         Rank[m] > r, relocked \subseteq {m}, Good(a, Rank[m], relocked)
  PROVE  Good(In(m, a), r, relocked)
<1> DEFINE s == In(m, a)
           n == Len(a)
           lock == [does |-> "lock", mutex |-> m]
           unlock == [does |-> "unlock", mutex |-> m]
<1>1. /\ a \in Seq(Moves) /\ Balanced(a) /\ Above(a, Rank[m], relocked) /\ Nested(a, relocked)
  BY DEF Good
<1>2. lock \in Moves /\ unlock \in Moves /\ lock # unlock /\ unlock.does # "lock"
      /\ lock.mutex = m /\ Rank[m] \in Nat
  BY RankNat DEF Moves
<1> HIDE DEF lock, unlock
<1>3. /\ s \in Seq(Moves) /\ n \in Nat /\ Len(s) = n + 2
      /\ s[1] = lock /\ s[n + 2] = unlock
      /\ \A i \in 1..n : s[i + 1] = a[i]
  <2>1. s = (<<lock>> \o a) \o <<unlock>>
    BY DEF In, lock, unlock
  <2> HIDE DEF s
  <2> DEFINE c == <<lock>> \o a
  <2>2. /\ c \in Seq(Moves) /\ n \in Nat /\ Len(c) = n + 1 /\ c[1] = lock
        /\ \A i \in 1..n : c[i + 1] = a[i]
    BY <1>1, <1>2
  <2> HIDE DEF c, n
  <2>3. /\ s \in Seq(Moves) /\ Len(s) = Len(c) + 1 /\ s[Len(c) + 1] = unlock
        /\ \A i \in 1..Len(c) : s[i] = c[i]
    <3>1. s = c \o <<unlock>>
      BY <2>1 DEF c
    <3> QED
      BY <1>2, <2>2, <3>1
  <2>4. \A i \in 1..n : i + 1 \in 1..Len(c)
    BY <2>2
  <2> QED
    BY <2>2, <2>3, <2>4
<1> HIDE DEF s, n
<1>4. \A i \in 1..Len(s) : \/ i = 1 \/ i = n + 2
                           \/ i - 1 \in 1..n /\ s[i] = a[i - 1]
  <2> SUFFICES ASSUME NEW i \in 1..Len(s), i # 1, i # n + 2
               PROVE  i - 1 \in 1..n /\ s[i] = a[i - 1]
    OBVIOUS
  <2>1. i - 1 \in 1..n /\ (i - 1) + 1 = i
    BY <1>3
  <2> QED
    BY <1>3, <2>1
<1>5. ASSUME NEW i \in 1..n, NEW k \in 1..(n + 1), StillHeld(s, i + 1, k + 1)
      PROVE  StillHeld(a, i, k)
  <2>1. ASSUME NEW j \in i..(k - 1) PROVE a[j] # [does |-> "unlock", mutex |-> a[i].mutex]
    <3>1. j \in 1..n /\ j + 1 \in (i + 1)..((k + 1) - 1)
      BY <1>3
    <3> QED
      BY <1>3, <1>5, <3>1 DEF StillHeld
  <2> QED
    BY <1>3, <1>5, <2>1 DEF StillHeld
<1>6. ASSUME NEW i \in 1..n, NEW k \in (n + 1)..(n + 2) PROVE ~StillHeld(s, i + 1, k + 1)
  <2>1. PICK j \in i..n : a[i].does # "lock" \/ a[j] = [does |-> "unlock", mutex |-> a[i].mutex]
    BY <1>1, <1>3 DEF Balanced, StillHeld, n
  <2>2. j \in 1..n /\ j + 1 \in (i + 1)..((k + 1) - 1)
    BY <1>3
  <2>3. s[i + 1] = a[i] /\ s[j + 1] = a[j]
    BY <1>3, <2>2
  <2> QED
    BY <2>1, <2>2, <2>3 DEF StillHeld
<1>7. Balanced(s)
  <2> SUFFICES ASSUME NEW i \in 1..Len(s), StillHeld(s, i, Len(s) + 1) PROVE FALSE
    BY DEF Balanced
  <2>1. CASE i = 1
    <3>1. n + 2 \in 1..((Len(s) + 1) - 1)
      BY <1>3
    <3> QED
      BY <1>2, <1>3, <2>1, <3>1 DEF StillHeld, unlock
  <2>2. CASE i = n + 2
    BY <1>2, <1>3, <2>2 DEF StillHeld
  <2>3. CASE i - 1 \in 1..n
    <3>1. (i - 1) + 1 = i /\ n + 2 \in (n + 1)..(n + 2) /\ (n + 2) + 1 = Len(s) + 1
      BY <1>3
    <3> QED
      BY <1>6, <2>3, <3>1
  <2> QED
    BY <1>4, <2>1, <2>2, <2>3
<1>8. Above(s, r, relocked)
  <2> SUFFICES ASSUME NEW k \in 1..Len(s), s[k].does = "lock"
               PROVE  Rank[s[k].mutex] > r \/ s[k].mutex \in relocked
    BY DEF Above
  <2>1. CASE k = 1
    BY <1>2, <1>3, <2>1
  <2>2. CASE k - 1 \in 1..n /\ s[k] = a[k - 1]
    <3>2. Rank[a[k - 1].mutex] > Rank[m] \/ a[k - 1].mutex \in relocked
      BY <1>1, <2>2 DEF Above, n
    <3>3. Rank[a[k - 1].mutex] \in Nat
      BY <1>1, <2>2, MutexAt DEF n
    <3> QED
      BY <1>2, <2>2, <3>2, <3>3
  <2> QED
    BY <1>2, <1>3, <1>4, <2>1, <2>2
<1>9. Nested(s, relocked)
  <2> SUFFICES ASSUME NEW k \in 1..Len(s), NEW i \in 1..(k - 1), s[k].does = "lock",
                      StillHeld(s, i, k)
               PROVE  \/ Rank[s[i].mutex] < Rank[s[k].mutex]
                      \/ s[i].mutex = s[k].mutex /\ s[k].mutex \in relocked
    BY DEF Nested
  <2>1. k # n + 2 /\ k # 1
    BY <1>2, <1>3
  <2>2. k - 1 \in 1..n /\ s[k] = a[k - 1] /\ (k - 1) + 1 = k
    BY <1>3, <1>4, <2>1
  <2>3. CASE i = 1
    <3>1. Rank[a[k - 1].mutex] > Rank[m] \/ a[k - 1].mutex \in relocked
      BY <1>1, <2>2 DEF Above, n
    <3>2. a[k - 1].mutex \in relocked => a[k - 1].mutex = m
      OBVIOUS
    <3>3. s[i].mutex = m
      BY <1>2, <1>3, <2>3
    <3> QED
      BY <1>2, <2>2, <3>1, <3>2, <3>3
  <2>4. CASE i # 1
    <3>1. i - 1 \in 1..n /\ s[i] = a[i - 1] /\ (i - 1) + 1 = i /\ i - 1 \in 1..((k - 1) - 1)
          /\ k - 1 \in 1..(n + 1)
      BY <1>3, <1>4, <2>2, <2>4
    <3>2. StillHeld(a, i - 1, k - 1)
      BY <1>5, <2>2, <3>1
    <3> QED
      BY <1>1, <2>2, <3>1, <3>2 DEF Nested, n
  <2> QED
    BY <2>3, <2>4
<1> QED
  BY <1>3, <1>7, <1>8, <1>9 DEF Good, s

LEMMA GoodTake ==
  ASSUME NEW m \in Mutexes, NEW r \in Nat, NEW relocked, Rank[m] > r \/ m \in relocked
  PROVE  Good(Take(m), r, relocked)
<1> DEFINE s == Take(m)
           lock == [does |-> "lock", mutex |-> m]
           unlock == [does |-> "unlock", mutex |-> m]
<1>1. lock \in Moves /\ unlock \in Moves /\ unlock.does # "lock" /\ lock.mutex = m
  BY DEF Moves
<1> HIDE DEF lock, unlock
<1>2. s \in Seq(Moves) /\ Len(s) = 2 /\ s[1] = lock /\ s[2] = unlock
  <2>1. s = (<<lock>> \o <<>>) \o <<unlock>>
    BY DEF Take, In, lock, unlock
  <2>2. <<lock>> \o <<>> = <<lock>>
    BY <1>1
  <2> HIDE DEF s
  <2>3. s = <<lock>> \o <<unlock>>
    BY <2>1, <2>2
  <2> QED
    BY <1>1, <2>3
<1> HIDE DEF s
<1>3. Balanced(s)
  <2>1. s[2] = [does |-> "unlock", mutex |-> s[1].mutex]
    BY <1>1, <1>2 DEF unlock
  <2>2. ~StillHeld(s, 1, 3) /\ ~StillHeld(s, 2, 3)
    BY <1>1, <1>2, <2>1 DEF StillHeld
  <2> QED
    BY <1>2, <2>2 DEF Balanced
<1>4. Above(s, r, relocked)
  BY <1>1, <1>2 DEF Above
<1>5. Nested(s, relocked)
  BY <1>1, <1>2 DEF Nested
<1> QED
  BY <1>2, <1>3, <1>4, <1>5 DEF Good, s

LEMMA GoodLower ==
  ASSUME NEW a, NEW r \in Nat, NEW q \in Nat, q <= r, NEW relocked, Good(a, r, relocked)
  PROVE  Good(a, q, relocked)
<1>1. a \in Seq(Moves)
  BY DEF Good
<1>2. \A k \in 1..Len(a) : Rank[a[k].mutex] \in Nat
  BY <1>1, MutexAt
<1> QED
  BY <1>2 DEF Good, Above

-----------------------------------------------------------------------------
(* The handlers *)

\* A script that keeps to the ranks and locks nothing twice.
Strict(s) == Good(s, 0, {})

LEMMA MutexNames ==
  /\ {"chain", "storage", "seen", "state", "peers", "write", "rate", "scorer", "peerManager",
      "connections", "bootstrap", "identity", "mining", "wallet"} = Mutexes
  /\ Rank["chain"] = 1 /\ Rank["storage"] = 2 /\ Rank["seen"] = 2
  /\ Rank["state"] = 3 /\ Rank["peers"] = 3
  /\ \A m \in {"write", "rate", "scorer", "peerManager", "connections", "bootstrap",
               "identity", "mining", "wallet"} : Rank[m] = 4
BY DEF Mutexes, Rank

LEMMA StrictThen == \A a, b : Strict(a) /\ Strict(b) => Strict(a \o b)
BY GoodThen DEF Strict

LEMMA StrictTake == \A m \in Mutexes : Strict(Take(m))
<1>1. \A m \in Mutexes : Rank[m] \in Nat /\ Rank[m] > 0
  BY DEF Mutexes, Rank
<1> QED
  BY <1>1, GoodTake DEF Strict

\* The parts of Peer and Node.
LEMMA NodeParts ==
  /\ Good(send, 3, {}) /\ Good(broadcast, 2, {}) /\ Good(broadcastTransaction, 1, {})
  /\ Good(broadcastBlock, 1, {})
  /\ Strict(send) /\ Strict(broadcast)
  /\ Strict(refreshMetrics) /\ Strict(rewardPeerByEndpoint) /\ Strict(penalizePeerByEndpoint)
  /\ Strict(connectToPeer) /\ Strict(attemptRandomPeerExpansion)
  /\ Strict(sendNodeAnnounce) /\ Strict(connectedPeerScores)
<1>1. Good(send, 3, {})
  BY GoodTake, MutexNames DEF send
<1>2. Good(broadcast, 2, {})
  BY <1>1, GoodIn, MutexNames DEF broadcast
<1>3. Good(broadcast, 1, {}) /\ Strict(broadcast) /\ Strict(send)
  BY <1>1, <1>2, GoodLower DEF Strict
<1>4. Good(Take("seen"), 1, {})
  BY GoodTake, MutexNames
<1>5. Good(broadcastTransaction, 1, {}) /\ Good(broadcastBlock, 1, {})
  BY <1>3, <1>4, GoodThen DEF broadcastTransaction, broadcastBlock
<1>6. Strict(refreshMetrics)
  BY StrictThen, StrictTake, MutexNames DEF refreshMetrics
<1>7. Strict(rewardPeerByEndpoint)
  BY <1>6, StrictThen, StrictTake, MutexNames DEF rewardPeerByEndpoint
<1>8. Strict(penalizePeerByEndpoint)
  <2>1. Good(Take("peerManager"), 3, {}) /\ Good(Take("connections"), 3, {})
    BY GoodTake, MutexNames
  <2>2. Good(Take("peerManager") \o Take("connections"), 3, {})
    BY <2>1, GoodThen
  <2>3. Strict(In("peers", Take("peerManager") \o Take("connections")))
    BY <2>2, GoodIn, MutexNames DEF Strict
  <2> QED
    BY <1>6, <2>3, StrictThen, StrictTake, MutexNames DEF penalizePeerByEndpoint
<1>9. Strict(sendNodeAnnounce) /\ Strict(connectedPeerScores)
  BY <1>3, StrictThen, StrictTake, MutexNames DEF sendNodeAnnounce, connectedPeerScores
<1>10. Strict(connectToPeer)
  BY <1>9, StrictThen, StrictTake, MutexNames DEF connectToPeer
<1>11. Strict(attemptRandomPeerExpansion)
  BY <1>10, StrictThen, StrictTake, MutexNames DEF attemptRandomPeerExpansion
<1> QED
  BY <1>1, <1>2, <1>3, <1>5, <1>6, <1>7, <1>8, <1>9, <1>10, <1>11

\* Accepting and dialling, and the timers.
LEMMA TimersStrict ==
  /\ Strict(connected) /\ Strict(doAccept) /\ Strict(gossipTimer) /\ Strict(heartbeatTimer)
  /\ Strict(handleReceivedPeers)
<1>1. Strict(connected)
  BY NodeParts, StrictThen, StrictTake, MutexNames DEF connected
<1>2. Strict(doAccept)
  BY NodeParts, StrictThen, StrictTake, MutexNames DEF doAccept
<1>3. Strict(gossipTimer)
  BY NodeParts, StrictThen, StrictTake, MutexNames DEF gossipTimer
<1>4. Strict(handleReceivedPeers)
  BY NodeParts, StrictThen, StrictTake, MutexNames DEF handleReceivedPeers
<1>5. Strict(heartbeatTimer)
  <2>1. Good(Take("peerManager"), 3, {}) /\ Good(Take("connections"), 3, {})
    BY GoodTake, MutexNames
  <2>2. Good(Take("peerManager") \o Take("connections"), 3, {})
    BY <2>1, GoodThen
  <2>3. /\ Strict(In("peers", Take("peerManager") \o Take("connections")))
        /\ Strict(In("peers", Take("connections")))
    BY <2>1, <2>2, GoodIn, MutexNames DEF Strict
  <2> QED
    BY <2>3, NodeParts, StrictThen, StrictTake, MutexNames DEF heartbeatTimer
<1> QED
  BY <1>1, <1>2, <1>3, <1>4, <1>5

\* Blockchain, with what it calls in Node under its mutex.
LEMMA ChainStrict ==
  /\ Strict(readChain) /\ Strict(readState) /\ Strict(addTransaction)
  /\ Strict(minePendingTransactions) /\ Strict(acceptBlock) /\ Strict(replaceChain)
  /\ Strict(persistChain)
<1>1. Good(Take("state"), 1, {}) /\ Good(Take("storage"), 1, {}) /\ Good(Take("state"), 2, {})
  BY GoodTake, MutexNames
<1>2. Good(In("storage", Take("state")), 1, {})
  BY <1>1, GoodIn, MutexNames
<1>3. /\ Good(Take("state") \o broadcastTransaction, 1, {})
      /\ Good(Take("storage") \o broadcastBlock, 1, {})
      /\ Good(Take("state") \o Take("storage"), 1, {})
      /\ Good(Take("storage") \o In("storage", Take("state")), 1, {})
  BY <1>1, <1>2, NodeParts, GoodThen
<1>4. \A a : Good(a, 1, {}) => Strict(In("chain", a))
  BY GoodIn, MutexNames DEF Strict
<1> QED
  BY <1>1, <1>3, <1>4, StrictTake, MutexNames
     DEF readChain, readState, addTransaction, minePendingTransactions, acceptBlock,
         replaceChain, persistChain

LEMMA MessageStrict == \A body : Strict(body) => Strict(message(body))
BY NodeParts, StrictThen, StrictTake, MutexNames DEF message

LEMMA MessagesStrict ==
  /\ Strict(messageOverLimit) /\ Strict(newTransaction) /\ Strict(newTransactionRejected)
  /\ Strict(newBlock) /\ Strict(requestChain) /\ Strict(responseChain)
  /\ Strict(registerNode) /\ Strict(nodeAnnounce) /\ Strict(requestPeers)
<1>1. Strict(messageOverLimit) /\ Strict(newTransaction) /\ Strict(newTransactionRejected)
  BY NodeParts, ChainStrict, StrictThen, StrictTake, MutexNames
     DEF messageOverLimit, newTransaction, newTransactionRejected
<1>2. Strict(newBlock) /\ Strict(requestChain) /\ Strict(responseChain)
  BY NodeParts, ChainStrict, StrictThen, StrictTake, MutexNames
     DEF newBlock, requestChain, responseChain
<1>3. Strict(registerNode) /\ Strict(nodeAnnounce) /\ Strict(requestPeers)
  BY NodeParts, StrictThen, StrictTake, MutexNames DEF registerNode, nodeAnnounce, requestPeers
<1> QED
  BY <1>1, <1>2, <1>3

LEMMA RoutesStrict ==
  /\ Strict(handleMine) /\ Strict(handleSendTransaction) /\ Strict(handleGetWallet)
  /\ Strict(handleVerifyLogin) /\ Strict(handleHealth) /\ Strict(handleNetworkStats)
<1>1. Strict(handleMine) /\ Strict(handleSendTransaction) /\ Strict(handleGetWallet)
  BY ChainStrict, StrictThen, StrictTake, MutexNames
     DEF handleMine, handleSendTransaction, handleGetWallet
<1>2. Strict(handleVerifyLogin) /\ Strict(handleHealth) /\ Strict(handleNetworkStats)
  BY ChainStrict, StrictThen, StrictTake, MutexNames
     DEF handleVerifyLogin, handleHealth, handleNetworkStats
<1> QED
  BY <1>1, <1>2

\* removePeer locks peersMutex_ twice, and only that.
LEMMA BannedGood == Good(messageFromBanned, 0, {"peers"})
<1> DEFINE x == {"peers"}
<1>1. \A r \in 0..3 : /\ Good(Take("scorer"), r, x) /\ Good(Take("peerManager"), r, x)
                      /\ Good(Take("connections"), r, x) /\ Good(Take("peers"), r, x)
  BY GoodTake, MutexNames
<1>2. \A a, b : \A r \in 0..3 : Good(a, r, x) /\ Good(b, r, x) => Good(a \o b, r, x)
  BY GoodThen
<1>3. Good(refreshMetrics, 3, x)
  BY <1>1, <1>2 DEF refreshMetrics
<1>4. Good(In("peers", refreshMetrics), 0, x)
  BY <1>3, GoodIn, MutexNames
<1> HIDE DEF x
<1>5. Good(removePeer, 0, x)
  BY <1>1, <1>2, <1>4 DEF removePeer
<1>6. Good(messageFromBanned, 0, x)
  BY <1>1, <1>2, <1>5 DEF messageFromBanned
<1> QED
  BY <1>6 DEF x

\* Every handler keeps to the ranks, and only the one for messages of banned
\* peers locks a mutex that it holds.
LEMMA HandlersStrict == \A o \in DOMAIN Scripts \ {"messageFromBanned"} : Strict(Scripts[o])
<1>1. \A b : b \in {newTransaction, newTransactionRejected, newBlock, requestChain, responseChain,
                    registerNode, nodeAnnounce, requestPeers, send, handleReceivedPeers}
             => Strict(message(b))
  BY MessageStrict, MessagesStrict, NodeParts, TimersStrict
<1> QED
  BY <1>1, NodeParts, TimersStrict, ChainStrict, MessagesStrict, RoutesStrict DEF Scripts

LEMMA HandlersGood ==
  ASSUME NEW o \in DOMAIN Scripts
  PROVE  Good(Scripts[o], 0, IF o = "messageFromBanned" THEN {"peers"} ELSE {})
<1>1. Scripts["messageFromBanned"] = messageFromBanned
  BY DEF Scripts
<1> QED
  BY <1>1, HandlersStrict, BannedGood DEF Strict

\* What is held before a step, by the step that locked it.
LEMMA HeldFrom ==
  ASSUME NEW o \in DOMAIN Scripts, NEW k \in DOMAIN Scripts[o], NEW h \in HeldAt[o][k]
  PROVE  /\ DOMAIN Scripts[o] = 1..Len(Scripts[o])
         /\ \E i \in 1..(k - 1) : h = Scripts[o][i].mutex /\ StillHeld(Scripts[o], i, k)
<1>1. Scripts[o] \in Seq(Moves)
  BY HandlersGood DEF Good
<1>2. DOMAIN Scripts[o] = 1..Len(Scripts[o]) /\ Len(Scripts[o]) \in Nat
  BY <1>1
<1>3. k \in 1..(Len(Scripts[o]) + 1)
  BY <1>2
<1>4. HeldAt[o][k] =
        {Scripts[o][i].mutex : i \in
           {i \in 1..(k - 1) :
              /\ Scripts[o][i].does = "lock"
              /\ \A j \in i..(k - 1) :
                   Scripts[o][j] # [does |-> "unlock", mutex |-> Scripts[o][i].mutex]}}
  BY <1>3 DEF HeldAt
<1> QED
  BY <1>2, <1>4 DEF StillHeld

LEMMA InOrder == \A o \in DOMAIN Scripts : Ordered(o)
<1> SUFFICES ASSUME NEW o \in DOMAIN Scripts, NEW k \in DOMAIN Scripts[o],
                    Scripts[o][k].does = "lock", NEW h \in HeldAt[o][k]
             PROVE  h = Scripts[o][k].mutex \/ Rank[h] < Rank[Scripts[o][k].mutex]
  BY DEF Ordered
<1>1. PICK i \in 1..(k - 1) : h = Scripts[o][i].mutex /\ StillHeld(Scripts[o], i, k)
  BY HeldFrom
<1>2. PICK relocked : Nested(Scripts[o], relocked)
  BY HandlersGood DEF Good
<1> QED
  BY <1>1, <1>2, HeldFrom DEF Nested

LEMMA RelocksNothing ==
  ASSUME NEW o \in DOMAIN Scripts \ {"messageFromBanned"}, NEW k \in DOMAIN Scripts[o],
         Scripts[o][k].does = "lock"
  PROVE  Scripts[o][k].mutex \notin HeldAt[o][k]
<1> SUFFICES ASSUME Scripts[o][k].mutex \in HeldAt[o][k] PROVE FALSE
  OBVIOUS
<1>1. PICK i \in 1..(k - 1) : /\ Scripts[o][k].mutex = Scripts[o][i].mutex
                              /\ StillHeld(Scripts[o], i, k)
  BY HeldFrom
<1>2. Nested(Scripts[o], {}) /\ Scripts[o] \in Seq(Moves) /\ k \in 1..Len(Scripts[o])
  BY HandlersStrict, HeldFrom DEF Strict, Good
<1>3. Rank[Scripts[o][i].mutex] < Rank[Scripts[o][k].mutex]
  BY <1>1, <1>2 DEF Nested
<1>4. Rank[Scripts[o][k].mutex] \in Nat
  BY <1>2, MutexAt
<1> QED
  BY <1>1, <1>3, <1>4

-----------------------------------------------------------------------------
(* The threads *)

\* A thread runs one of the handlers, or none.
RunsScripts == op \in [Threads -> DOMAIN Scripts \cup {"none"}]

LEMMA RunsScriptsHolds == Spec => []RunsScripts
<1>1. Init => RunsScripts
  BY DEF Init, RunsScripts
<1>2. "persistChain" \in DOMAIN Scripts
  BY DEF Scripts
<1>3. RunsScripts /\ [Next]_vars => RunsScripts'
  BY <1>2, ThreadsAssumption
     DEF RunsScripts, Next, vars, Start, Step, Return, signalHandler, JoinAndPersist
<1> QED
  BY <1>1, <1>3, PTL DEF Spec

LEMMA WaitsInOrder ==
  ASSUME LockOrder, NEW t \in Threads, NEW m \in Wanted(t), NEW h \in Held(t)
  PROVE  h = m \/ Rank[h] < Rank[m]
<1>1. /\ Busy(t) /\ pc[t] \in DOMAIN Scripts[op[t]]
      /\ Scripts[op[t]][pc[t]].does = "lock" /\ m = Scripts[op[t]][pc[t]].mutex
  BY DEF Wanted
<1>2. h \in HeldAt[op[t]][pc[t]]
  BY DEF Held
<1> QED
  BY <1>1, <1>2 DEF LockOrder, Ordered

LEMMA RankBounds == \A m \in Mutexes : Rank[m] \in 1..4
BY DEF Mutexes, Rank

\* When nobody can go on and nobody waits for himself, a thread that waits for
\* a mutex waits for another one, which waits for a mutex of higher rank.
LEMMA WaitsHigher ==
  ASSUME LockOrder,
         \A t \in Threads : ~Relocks(t) /\ (Busy(t) => Blocked(t)),
         NEW t \in Threads, NEW m \in Mutexes, m \in Held(t)
  PROVE  \E u \in Threads, k \in Mutexes : k \in Held(u) /\ Rank[m] < Rank[k]
<1>1. Busy(t)
  BY DEF Held
<1>2. PICK u \in Threads : Wanted(t) \cap Held(u) # {}
  BY <1>1 DEF Blocked
<1>3. PICK k : k \in Wanted(t) /\ k \in Held(u)
  BY <1>2
<1>4. k \in Mutexes
  BY <1>3 DEF Held
<1>5. k # m
  BY <1>3 DEF Relocks
<1>6. Rank[m] < Rank[k]
  BY <1>3, <1>5, WaitsInOrder
<1> QED BY <1>3, <1>4, <1>6

\* Ranks are at most 4, so a chain of waits ends after four threads.
LEMMA OrderPreventsCircles == LockOrder => OnlySelfDeadlock
<1> SUFFICES ASSUME LockOrder, NEW t \in Threads, Blocked(t),
                    \A u \in Threads : ~Relocks(u) /\ (Busy(u) => Blocked(u))
             PROVE  FALSE
  BY DEF OnlySelfDeadlock
<1>0. PICK u \in Threads, m \in Mutexes : m \in Held(u)
  BY DEF Blocked, Held
<1>1. PICK u1 \in Threads, m1 \in Mutexes : m1 \in Held(u1) /\ Rank[m] < Rank[m1]
  BY <1>0, WaitsHigher
<1>2. PICK u2 \in Threads, m2 \in Mutexes : m2 \in Held(u2) /\ Rank[m1] < Rank[m2]
  BY <1>1, WaitsHigher
<1>3. PICK u3 \in Threads, m3 \in Mutexes : m3 \in Held(u3) /\ Rank[m2] < Rank[m3]
  BY <1>2, WaitsHigher
<1>4. PICK u4 \in Threads, m4 \in Mutexes : m4 \in Held(u4) /\ Rank[m3] < Rank[m4]
  BY <1>3, WaitsHigher
<1> QED
  BY <1>1, <1>2, <1>3, <1>4, RankBounds

-----------------------------------------------------------------------------
(* Theorems *)

\* Every thread takes the mutexes in the order of their ranks, however many
\* threads there are and whatever they run.
THEOREM ThreadsKeepOrder == Spec => []LockOrder
<1>1. RunsScripts => LockOrder
  BY InOrder DEF RunsScripts, LockOrder, Busy
<1> QED
  BY <1>1, RunsScriptsHolds, PTL

\* So the threads of a node, however many, never wait for each other in a circle.
THEOREM NoCircularWait == Spec => []OnlySelfDeadlock
BY ThreadsKeepOrder, OrderPreventsCircles, PTL

\* No thread locks a mutex that it holds, except in the handler of a message from
\* a banned peer, where removePeer does.
THEOREM OnlyRemovePeerHangs == Spec => []OnlyBannedHangs
<1>1. RunsScripts => OnlyBannedHangs
  <2> SUFFICES ASSUME RunsScripts, NEW t \in Threads, Relocks(t), op[t] # "messageFromBanned"
               PROVE  FALSE
    BY DEF OnlyBannedHangs
  <2>1. PICK m : m \in Wanted(t) /\ m \in Held(t)
    BY DEF Relocks
  <2>2. /\ Busy(t) /\ pc[t] \in DOMAIN Scripts[op[t]]
        /\ Scripts[op[t]][pc[t]].does = "lock" /\ m = Scripts[op[t]][pc[t]].mutex
    BY <2>1 DEF Wanted
  <2>3. m \in HeldAt[op[t]][pc[t]]
    BY <2>1 DEF Held
  <2>4. op[t] \in DOMAIN Scripts \ {"messageFromBanned"}
    BY <2>2 DEF RunsScripts, Busy
  <2> QED
    BY <2>2, <2>3, <2>4, RelocksNothing
<1> QED
  BY <1>1, RunsScriptsHolds, PTL
=============================================================================
