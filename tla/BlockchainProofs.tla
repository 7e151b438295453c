-------------------------- MODULE BlockchainProofs --------------------------
(***************************************************************************)
(* Proofs about module Blockchain, for any number of nodes, any set of     *)
(* transfers, any clocks and any pattern of failing writes.                *)
(***************************************************************************)
EXTENDS Blockchain, TLAPS, WellFoundedInduction

-----------------------------------------------------------------------------
(* Sequences *)

\* A nonempty set of natural numbers has a least member.  Inductions over the
\* positions of a chain or of a mempool are arguments by a least counterexample.
LEMMA LeastNat ==
  ASSUME NEW T, T \subseteq Nat, T # {}
  PROVE  \E m \in T : \A k \in T : m <= k
<1>1. PICK m \in T : \A k \in T : ~ (<<k, m>> \in OpToRel(<, Nat))
  BY WFMin, NatLessThanWellFounded, Zenon
<1>2. \A k \in T : <<k, m>> \in Nat \X Nat
  OBVIOUS
<1>3. \A k \in T : ~ (k < m)
  <2> TAKE k \in T
  <2>1. <<k, m>>[1] = k /\ <<k, m>>[2] = m
    OBVIOUS
  <2> QED
    BY <1>1, <1>2, <2>1, Zenon DEF OpToRel
<1> QED
  BY <1>3

\* One step of the recursion in EraseAll, and what its table satisfies.
KeptStep(s, S, f, i) ==
  IF i = 0 THEN <<>>
  ELSE IF s[i] \in S THEN f[i-1] ELSE Append(f[i-1], s[i])

IsKept(s, S, f, n) == f = [i \in 0..n |-> KeptStep(s, S, f, i)]

\* The recursive function in EraseAll exists.
LEMMA KeptExists ==
  ASSUME NEW T, NEW s \in Seq(T), NEW S, NEW n \in 0..Len(s)
  PROVE  \E f : IsKept(s, S, f, n)
<1> DEFINE Bad == {k \in 0..Len(s) : ~ \E f : IsKept(s, S, f, k)}
<1>1. SUFFICES ASSUME Bad # {} PROVE FALSE
  OBVIOUS
<1>2. PICK m \in Bad : \A k \in Bad : m <= k
  <2>1. Bad \subseteq Nat
    OBVIOUS
  <2> HIDE DEF Bad
  <2> QED
    BY <1>1, <2>1, LeastNat
<1>3. m # 0
  <2>1. IsKept(s, S, [i \in 0..0 |-> <<>>], 0)
    BY DEF IsKept, KeptStep
  <2> QED
    BY <2>1
<1>4. m - 1 \in 0..Len(s) /\ m - 1 \notin Bad
  BY <1>2, <1>3
<1>5. PICK f : IsKept(s, S, f, m-1)
  BY <1>4
<1> DEFINE g == [i \in 0..m |-> IF i < m THEN f[i] ELSE KeptStep(s, S, f, m)]
<1>6. \A i \in 0..m : g[i] = KeptStep(s, S, g, i)
  <2> SUFFICES ASSUME NEW i \in 0..m PROVE g[i] = KeptStep(s, S, g, i)
    OBVIOUS
  <2>0. m \in Nat
    BY <1>2
  <2>1. i # 0 => i - 1 \in 0..m /\ i - 1 < m
    BY <2>0
  <2>2. i # 0 => g[i-1] = f[i-1]
    BY <2>1
  <2>3. KeptStep(s, S, g, i) = KeptStep(s, S, f, i)
    BY <2>2 DEF KeptStep
  <2>4. CASE i < m
    <3>1. i \in 0..(m-1)
      BY <2>0, <2>4
    <3>2. f[i] = KeptStep(s, S, f, i)
      BY <1>5, <3>1 DEF IsKept
    <3>3. g[i] = f[i]
      BY <2>4
    <3> QED
      BY <2>3, <3>2, <3>3
  <2>5. CASE i = m
    <3>1. g[i] = KeptStep(s, S, f, m)
      BY <2>5, <2>0
    <3> QED
      BY <2>3, <2>5, <3>1
  <2> QED
    BY <2>0, <2>4, <2>5
<1>7. IsKept(s, S, g, m)
  BY <1>6 DEF IsKept
<1> QED
  BY <1>7

\* EraseAll is the last entry of its table.
LEMMA EraseAllTable ==
  ASSUME NEW T, NEW s \in Seq(T), NEW S
  PROVE  \E f : IsKept(s, S, f, Len(s)) /\ EraseAll(s, S) = f[Len(s)]
<1> DEFINE f == CHOOSE f : IsKept(s, S, f, Len(s))
<1>1. Len(s) \in 0..Len(s)
  OBVIOUS
<1>2. \E h : IsKept(s, S, h, Len(s))
  BY <1>1, KeptExists
<1>3. IsKept(s, S, f, Len(s))
  BY <1>2
<1>4. EraseAll(s, S) = f[Len(s)]
  BY Zenon DEF EraseAll, IsKept, KeptStep
<1> QED
  BY <1>3, <1>4

\* What EraseAll keeps comes from its argument, is not in the erased set, and
\* repeats nothing that was not repeated before.
LEMMA EraseAllFacts ==
  ASSUME NEW T, NEW s \in Seq(T), NEW S,
         \A i, j \in 1..Len(s) : s[i] = s[j] => i = j
  PROVE  LET r == EraseAll(s, S)
         IN  /\ r \in Seq(T)
             /\ \A i \in 1..Len(r) : r[i] \notin S
             /\ \A i \in 1..Len(r) : \E j \in 1..Len(s) : r[i] = s[j]
             /\ \A i, j \in 1..Len(r) : r[i] = r[j] => i = j
<1>1. PICK f : IsKept(s, S, f, Len(s)) /\ EraseAll(s, S) = f[Len(s)]
  BY EraseAllTable
<1> DEFINE Good(r, k) ==
      /\ r \in Seq(T)
      /\ \A i \in 1..Len(r) : r[i] \notin S
      /\ \A i \in 1..Len(r) : \E j \in 1..k : r[i] = s[j]
      /\ \A i, j \in 1..Len(r) : r[i] = r[j] => i = j
    Bad == {k \in 0..Len(s) : ~ Good(f[k], k)}
<1>2. ASSUME Bad # {} PROVE FALSE
  <2>1. PICK m \in Bad : \A k \in Bad : m <= k
    <3>1. Bad \subseteq Nat
      OBVIOUS
    <3> HIDE DEF Bad
    <3> QED
      BY <1>2, <3>1, LeastNat
  <2>2. m \in 0..Len(s) /\ ~ Good(f[m], m)
    OBVIOUS
  <2>3. f[m] = KeptStep(s, S, f, m)
    BY <1>1, <2>2 DEF IsKept
  <2>4. m # 0
    <3>1. Good(<<>>, 0)
      OBVIOUS
    <3>2. m = 0 => f[m] = <<>>
      BY <2>3 DEF KeptStep
    <3> HIDE DEF Good
    <3> QED
      BY <2>2, <3>1, <3>2
  <2>5. m - 1 \in 0..Len(s) /\ m \in 1..Len(s) /\ m - 1 \notin Bad
    BY <2>1, <2>2, <2>4
  <2>6. Good(f[m-1], m-1)
    <3> HIDE DEF Good
    <3> QED
      BY <2>5
  <2> DEFINE r == f[m-1]
  <2>7. f[m] = IF s[m] \in S THEN r ELSE Append(r, s[m])
    BY <2>3, <2>4 DEF KeptStep
  <2> HIDE DEF r
  <2>8. Good(r, m-1)
    BY <2>6 DEF r
  <2>9. Good(r, m)
    <3>1. \A j \in 1..(m-1) : j \in 1..m
      BY <2>5
    <3> QED
      BY <2>8, <3>1
  <2>10. ASSUME s[m] \notin S PROVE Good(Append(r, s[m]), m)
    <3> DEFINE a == Append(r, s[m])
    <3>1. r \in Seq(T) /\ s[m] \in T /\ Len(r) \in Nat
      BY <2>8, <2>5
    <3>2. /\ a \in Seq(T) /\ Len(a) = Len(r) + 1
          /\ \A i \in 1..Len(r) : a[i] = r[i]
          /\ a[Len(r) + 1] = s[m]
      BY <3>1
    <3> HIDE DEF a
    <3>3. \A i \in 1..Len(a) : i \in 1..Len(r) \/ i = Len(r) + 1
      BY <3>1, <3>2
    <3>4. \A i \in 1..Len(a) : a[i] \notin S
      BY <2>8, <2>10, <3>2, <3>3
    <3>5. m \in 1..m
      BY <2>5
    <3>6. \A i \in 1..Len(a) : \E j \in 1..m : a[i] = s[j]
      BY <2>9, <3>2, <3>3, <3>5
    <3>7. \A i \in 1..Len(r) : r[i] # s[m]
      <4> SUFFICES ASSUME NEW i \in 1..Len(r), r[i] = s[m] PROVE FALSE
        OBVIOUS
      <4>1. PICK j \in 1..(m-1) : r[i] = s[j]
        BY <2>8
      <4>2. j \in 1..Len(s) /\ j # m
        BY <2>5
      <4> QED
        BY <4>1, <4>2, <2>5
    <3>8. \A i, j \in 1..Len(a) : a[i] = a[j] => i = j
      BY <2>8, <3>2, <3>3, <3>7
    <3> QED
      BY <3>2, <3>4, <3>6, <3>8 DEF a
  <2> HIDE DEF Good
  <2> QED
    BY <2>2, <2>7, <2>9, <2>10
<1>3. Good(f[Len(s)], Len(s))
  <2>1. Len(s) \in 0..Len(s)
    OBVIOUS
  <2> HIDE DEF Good
  <2> QED
    BY <1>2, <2>1
<1> QED
  BY <1>1, <1>3

\* The members of a sequence with one more.
LEMMA AppendSet ==
  ASSUME NEW T, NEW s \in Seq(T), NEW e \in T
  PROVE  Append(s, e) \in Seq(T) /\ ToSet(Append(s, e)) = ToSet(s) \cup {e}
<1>1. PICK n \in Nat : n = Len(s)
  OBVIOUS
<1> DEFINE d == Append(s, e)
<1>2. /\ d \in Seq(T) /\ DOMAIN s = 1..n /\ DOMAIN d = 1..(n + 1)
      /\ \A i \in 1..n : d[i] = s[i]
      /\ d[n + 1] = e
  BY <1>1
<1> HIDE DEF d
<1>3. /\ \A i \in 1..(n + 1) : i \in 1..n \/ i = n + 1
      /\ \A i \in 1..n : i \in 1..(n + 1)
      /\ n + 1 \in 1..(n + 1)
  OBVIOUS
<1>4. ToSet(d) = ToSet(s) \cup {e}
  BY <1>2, <1>3 DEF ToSet
<1> QED
  BY <1>2, <1>4 DEF d

\* What is not erased is kept.
LEMMA EraseAllKeeps ==
  ASSUME NEW T, NEW s \in Seq(T), NEW S
  PROVE  ToSet(s) \subseteq ToSet(EraseAll(s, S)) \cup S
<1>1. PICK f : IsKept(s, S, f, Len(s)) /\ EraseAll(s, S) = f[Len(s)]
  BY EraseAllTable
<1>2. PICK l \in Nat : l = Len(s)
  OBVIOUS
<1>3. \A i \in 1..l : s[i] \in T
  BY <1>2
<1> DEFINE Good(r, k) == r \in Seq(T) /\ \A j \in 1..k : s[j] \in ToSet(r) \cup S
           Bad == {k \in 0..l : ~ Good(f[k], k)}
<1>4. Good(f[0], 0)
  BY <1>1, <1>2 DEF IsKept, KeptStep
<1>5. ASSUME NEW k \in 1..l, Good(f[k-1], k-1) PROVE Good(f[k], k)
  <2>1. f[k] = IF s[k] \in S THEN f[k-1] ELSE Append(f[k-1], s[k])
    <3>1. k \in 0..l /\ k # 0
      OBVIOUS
    <3>2. f[k] = KeptStep(s, S, f, k)
      BY <1>1, <1>2, <3>1 DEF IsKept
    <3> HIDE DEF Good, Bad
    <3> QED
      BY <3>1, <3>2 DEF KeptStep
  <2>2. PICK r \in Seq(T) : r = f[k-1] /\ \A j \in 1..(k-1) : s[j] \in ToSet(r) \cup S
    BY <1>5
  <2>3. \A j \in 1..k : j \in 1..(k-1) \/ j = k
    OBVIOUS
  <2>4. Append(r, s[k]) \in Seq(T) /\ ToSet(Append(r, s[k])) = ToSet(r) \cup {s[k]}
    BY <1>3, AppendSet
  <2>5. CASE s[k] \in S
    BY <2>1, <2>2, <2>3, <2>5
  <2>6. CASE s[k] \notin S
    BY <2>1, <2>2, <2>3, <2>4, <2>6
  <2> QED
    BY <2>5, <2>6
<1> HIDE DEF Good
<1>6. Bad = {}
  <2> SUFFICES ASSUME Bad # {} PROVE FALSE
    OBVIOUS
  <2>1. PICK k \in Bad : \A j \in Bad : k <= j
    <3>1. Bad \subseteq Nat
      OBVIOUS
    <3> QED
      BY <3>1, LeastNat
  <2>2. k \in 1..l /\ k - 1 \in 0..l /\ ~(k <= k - 1)
    BY <1>4
  <2> QED
    BY <1>5, <2>1, <2>2
<1>7. Good(f[l], l)
  BY <1>6
<1> QED
  BY <1>1, <1>2, <1>7 DEF Good, ToSet

LEMMA SameSeq ==
  ASSUME NEW T, NEW s \in Seq(T), NEW t \in Seq(T),
         Len(s) = Len(t), \A i \in 1..Len(s) : s[i] = t[i]
  PROVE  s = t
<1>1. s = [i \in 1..Len(s) |-> s[i]] /\ t = [i \in 1..Len(t) |-> t[i]]
  OBVIOUS
<1> QED
  BY <1>1

LEMMA SubSeqFacts ==
  ASSUME NEW T, NEW s \in Seq(T), NEW i \in 1..Len(s)
  PROVE  LET r == SubSeq(s, i, Len(s))
         IN  /\ r \in Seq(T) /\ Len(r) = Len(s) - i + 1
             /\ \A j \in 1..Len(r) : r[j] = s[j+i-1]
OBVIOUS

\* What is left of a sequence after its first k elements.
LEMMA TailFacts ==
  ASSUME NEW T, NEW s \in Seq(T), NEW k \in 0..Len(s)
  PROVE  LET r == SubSeq(s, k + 1, Len(s))
         IN  /\ r \in Seq(T) /\ Len(r) = Len(s) - k
             /\ \A i \in 1..Len(r) : r[i] = s[i+k]
<1> DEFINE r == SubSeq(s, k + 1, Len(s))
<1>1. r = [i \in 1..(Len(s) - k) |-> s[i+k]]
  BY SMTT(20)
<1> HIDE DEF r
<1>2. \A i \in 1..(Len(s) - k) : s[i+k] \in T
  OBVIOUS
<1>3. Len(s) - k \in Nat
  OBVIOUS
<1>4. r \in Seq(T) /\ Len(r) = Len(s) - k
  BY <1>1, <1>2, <1>3
<1> QED
  BY <1>1, <1>4 DEF r

-----------------------------------------------------------------------------
(* Chains *)

LEMMA LinkedType ==
  ASSUME NEW c, Linked(c)
  PROVE  c \in Seq(ToSet(c)) /\ Len(c) \in Nat \ {0} /\ DOMAIN c = 1..Len(c)
BY DEF Linked

\* Linked chains with the same tip are the same chain.  This is why a node that
\* only looks at a block's index and previousHash cannot be led astray.
LEMMA TipDeterminesChain ==
  ASSUME NEW c, NEW d, Linked(c), Linked(d), Last(c) = Last(d)
  PROVE  c = d
<1> DEFINE L == Len(c)
<1>1. L \in Nat \ {0} /\ Len(d) \in Nat \ {0}
  BY LinkedType
<1>2. L = Len(d)
  <2>1. c[L].index = L - 1
    BY <1>1 DEF Linked
  <2>2. d[Len(d)].index = Len(d) - 1
    BY <1>1 DEF Linked
  <2> QED
    BY <1>1, <2>1, <2>2 DEF Last
<1> HIDE DEF L
<1> DEFINE Bad == {k \in 0..(L-1) : c[L-k] # d[L-k]}
<1>3. ASSUME Bad # {} PROVE FALSE
  <2>1. PICK m \in Bad : \A k \in Bad : m <= k
    <3>1. Bad \subseteq Nat
      BY <1>1
    <3> HIDE DEF Bad
    <3> QED
      BY <1>3, <3>1, LeastNat
  <2>2. m # 0
    BY <1>1, <1>2 DEF Last, L
  <2>3. m - 1 \in 0..(L-1) /\ m - 1 \notin Bad
    BY <1>1, <2>1, <2>2
  <2>4. c[L-(m-1)] = d[L-(m-1)]
    BY <2>3
  <2> DEFINE i == L - (m - 1)
  <2>5. i \in 1..L /\ i > 1 /\ i - 1 = L - m
    BY <1>1, <2>1, <2>2
  <2>6. c[i].previousHash = Hash(c[i-1]) /\ d[i].previousHash = Hash(d[i-1])
    BY <1>2, <2>5 DEF Linked, L
  <2>7. Hash(c[L-m]) = Hash(d[L-m])
    BY <2>4, <2>5, <2>6
  <2>8. c[L-m] = d[L-m]
    BY <2>7 DEF Hash
  <2> QED
    BY <2>8
<1>4. \A i \in 1..L : c[i] = d[i]
  <2> SUFFICES ASSUME NEW i \in 1..L PROVE c[i] = d[i]
    OBVIOUS
  <2>1. L - i \in 0..(L-1) /\ L - (L - i) = i
    BY <1>1
  <2> QED
    BY <1>3, <2>1
<1>5. /\ c \in Seq(ToSet(c)) /\ d \in Seq(ToSet(d))
      /\ DOMAIN c = 1..L /\ DOMAIN d = 1..L
  BY <1>2, LinkedType DEF L
<1>6. c = [i \in 1..L |-> c[i]] /\ d = [i \in 1..L |-> d[i]]
  BY <1>5
<1> QED
  BY <1>4, <1>6

\* A block that names its height and its predecessor extends a linked chain.
LEMMA LinkedAppend ==
  ASSUME NEW c, NEW b, Linked(c),
         b.index = Len(c), b.previousHash = Hash(Last(c)),
         b.transactions \in Seq(TxType), b.timestamp \in Int
  PROVE  /\ Linked(Append(c, b))
         /\ Last(Append(c, b)) = b
         /\ Len(Append(c, b)) = Len(c) + 1
         /\ \A i \in 1..Len(c) : Append(c, b)[i] = c[i]
<1> DEFINE d == Append(c, b)
<1>1. c \in Seq(ToSet(c)) /\ Len(c) \in Nat \ {0}
  BY LinkedType
<1>2. c \in Seq(ToSet(c) \cup {b})
  BY <1>1
<1>3. /\ d \in Seq(ToSet(c) \cup {b}) /\ Len(d) = Len(c) + 1
      /\ \A i \in 1..Len(c) : d[i] = c[i]
      /\ d[Len(c) + 1] = b
  BY <1>2
<1> HIDE DEF d
<1>4. d \in Seq(ToSet(d))
  BY <1>3 DEF ToSet
<1>5. \A i \in 1..Len(d) : i \in 1..Len(c) \/ i = Len(c) + 1
  BY <1>1, <1>3
<1>6. \A i \in 1..Len(d) : /\ d[i].index = i - 1
                           /\ d[i].transactions \in Seq(TxType)
                           /\ d[i].timestamp \in Int
  BY <1>1, <1>3, <1>5 DEF Linked
<1>7. \A i \in 1..Len(d) : i > 1 => d[i].previousHash = Hash(d[i-1])
  <2> SUFFICES ASSUME NEW i \in 1..Len(d), i > 1
               PROVE  d[i].previousHash = Hash(d[i-1])
    OBVIOUS
  <2>1. i - 1 \in 1..Len(c) /\ d[i-1] = c[i-1]
    BY <1>1, <1>3
  <2>2. CASE i \in 1..Len(c)
    BY <1>3, <2>1, <2>2 DEF Linked
  <2>3. CASE i = Len(c) + 1
    BY <1>1, <1>3, <2>1, <2>3 DEF Last
  <2> QED
    BY <1>5, <2>2, <2>3
<1>8. d # <<>> /\ d[1].previousHash = ZeroHash
  BY <1>1, <1>3 DEF Linked
<1>9. Linked(d) /\ Last(d) = b
  BY <1>3, <1>4, <1>6, <1>7, <1>8 DEF Linked, Last
<1> QED
  BY <1>3, <1>9 DEF d

\* What precedes the tip of a linked chain is a linked chain.
LEMMA LinkedFront ==
  ASSUME NEW c, Linked(c), Len(c) > 1
  PROVE  LET p == SubSeq(c, 1, Len(c) - 1)
         IN  /\ Linked(p)
             /\ Last(c).previousHash = Hash(Last(p))
             /\ Append(p, Last(c)) = c
<1> DEFINE p == SubSeq(c, 1, Len(c) - 1)
<1>1. c \in Seq(ToSet(c)) /\ Len(c) \in Nat \ {0}
  BY LinkedType
<1>2. /\ p \in Seq(ToSet(c)) /\ Len(p) = Len(c) - 1
      /\ \A i \in 1..Len(p) : p[i] = c[i]
  BY <1>1
<1> HIDE DEF p
<1>3. \A i \in 1..Len(p) : i \in 1..Len(c) /\ (i > 1 => i - 1 \in 1..Len(p))
  BY <1>1, <1>2
<1>4. p \in Seq(ToSet(p))
  BY <1>2 DEF ToSet
<1>5. p # <<>> /\ p[1].previousHash = ZeroHash
  BY <1>1, <1>2 DEF Linked
<1>6. \A i \in 1..Len(p) : /\ p[i].index = i - 1
                           /\ p[i].transactions \in Seq(TxType)
                           /\ p[i].timestamp \in Int
                           /\ i > 1 => p[i].previousHash = Hash(p[i-1])
  BY <1>2, <1>3 DEF Linked
<1>7. Linked(p)
  BY <1>4, <1>5, <1>6 DEF Linked
<1>8. Last(c).previousHash = Hash(Last(p))
  <2>1. Len(c) \in 1..Len(c) /\ Len(c) > 1
    BY <1>1
  <2>2. c[Len(c)].previousHash = Hash(c[Len(c)-1])
    BY <2>1 DEF Linked
  <2> QED
    BY <1>1, <1>2, <2>2 DEF Last
<1>9. Append(p, Last(c)) = c
  BY <1>1, <1>2 DEF Last
<1> QED
  BY <1>7, <1>8, <1>9 DEF p

\* A block that acceptBlock takes makes the chain the block was mined on.
LEMMA AcceptedChain ==
  ASSUME NEW c, NEW d, Linked(c), Linked(d),
         Last(d).index = Len(c), Last(d).previousHash = Hash(Last(c))
  PROVE  Append(c, Last(d)) = d
<1>1. Len(c) \in Nat \ {0} /\ Len(d) \in Nat \ {0}
  BY LinkedType
<1>2. Len(d) > 1
  BY <1>1 DEF Linked, Last
<1> DEFINE p == SubSeq(d, 1, Len(d) - 1)
<1>3. Linked(p) /\ Last(d).previousHash = Hash(Last(p)) /\ Append(p, Last(d)) = d
  BY <1>2, LinkedFront
<1> HIDE DEF p
<1>4. Last(p) = Last(c)
  BY <1>3 DEF Hash
<1> QED
  BY <1>3, <1>4, TipDeterminesChain

-----------------------------------------------------------------------------
(* Spent transactions and difficulty *)

LEMMA TxsAreTransfers ==
  ASSUME NEW tx \in TxType
  PROVE  ~isCoinbase(tx) <=> tx \in Txs
BY AccountsAssumption, TxsAssumption DEF TxType, isCoinbase

\* What a chain marks as spent are the transfers in its blocks.
LEMMA SpentMember ==
  ASSUME NEW c, Linked(c), NEW tx
  PROVE  tx \in RebuildSpent(c) <=>
           \E i \in 1..Len(c) : \E p \in 1..Len(c[i].transactions) :
             tx = c[i].transactions[p] /\ ~isCoinbase(tx)
<1>1. DOMAIN c = 1..Len(c)
  BY LinkedType
<1>2. \A i \in 1..Len(c) : DOMAIN c[i].transactions = 1..Len(c[i].transactions)
  BY DEF Linked
<1> QED
  BY <1>1, <1>2 DEF RebuildSpent, TxIDs, ToSet

LEMMA SpentInTxs ==
  ASSUME NEW c, Linked(c)
  PROVE  RebuildSpent(c) \subseteq Txs
<1> SUFFICES ASSUME NEW tx \in RebuildSpent(c) PROVE tx \in Txs
  OBVIOUS
<1>1. PICK i \in 1..Len(c) : \E p \in 1..Len(c[i].transactions) :
        tx = c[i].transactions[p] /\ ~isCoinbase(tx)
  BY SpentMember
<1>2. c[i].transactions \in Seq(TxType)
  BY DEF Linked
<1>3. tx \in TxType
  BY <1>1, <1>2
<1> QED
  BY <1>1, <1>3, TxsAreTransfers

\* Applying a block on top of a chain spends what the longer chain spends.
LEMMA SpentAppend ==
  ASSUME NEW c, NEW b, Linked(c), Linked(Append(c, b))
  PROVE  RebuildSpent(Append(c, b)) = ApplySpent(RebuildSpent(c), b)
<1> DEFINE d == Append(c, b)
<1>1. c \in Seq(ToSet(c) \cup {b}) /\ Len(c) \in Nat
  BY LinkedType
<1>2. /\ Len(d) = Len(c) + 1 /\ DOMAIN c = 1..Len(c) /\ DOMAIN d = 1..Len(d)
      /\ \A i \in 1..Len(c) : d[i] = c[i]
      /\ d[Len(c) + 1] = b
  BY <1>1
<1> HIDE DEF d
<1>3. \A i \in 1..Len(d) : i \in 1..Len(c) \/ i = Len(c) + 1
  BY <1>1, <1>2
<1>4. \A i \in 1..Len(c) : i \in 1..Len(d)
  BY <1>1, <1>2
<1>5. Len(c) + 1 \in 1..Len(d)
  BY <1>1, <1>2
<1>6. RebuildSpent(d) = RebuildSpent(c) \cup TxIDs(b)
  BY <1>2, <1>3, <1>4, <1>5 DEF RebuildSpent
<1> QED
  BY <1>6 DEF ApplySpent, d

LEMMA MinMaxOfTwo ==
  ASSUME NEW x \in Int, NEW y \in Int
  PROVE  /\ Min({x, y}) \in {x, y} /\ Min({x, y}) <= x
         /\ Max({x, y}) \in {x, y} /\ Max({x, y}) >= x
<1>1. \E m \in {x, y} : \A k \in {x, y} : m <= k
  OBVIOUS
<1>2. \E m \in {x, y} : \A k \in {x, y} : m >= k
  OBVIOUS
<1>3. Min({x, y}) \in {x, y} /\ \A k \in {x, y} : Min({x, y}) <= k
  BY <1>1 DEF Min
<1>4. Max({x, y}) \in {x, y} /\ \A k \in {x, y} : Max({x, y}) >= k
  BY <1>2 DEF Max
<1> QED
  BY <1>3, <1>4

LEMMA ClampType ==
  ASSUME NEW d \in Int
  PROVE  Clamp(d) \in Nat
<1> DEFINE low == Min({MaxDifficulty, d})
<1>0. MaxDifficulty \in Int /\ MinDifficulty \in Int /\ MinDifficulty >= 0
  BY ConsensusAssumption
<1>1. low \in Int
  <2>1. low \in {MaxDifficulty, d}
    BY <1>0, MinMaxOfTwo
  <2> HIDE DEF low
  <2> QED
    BY <1>0, <2>1
<1> HIDE DEF low
<1>2. Max({MinDifficulty, low}) \in {MinDifficulty, low}
  BY <1>0, <1>1, MinMaxOfTwo
<1>3. Max({MinDifficulty, low}) >= MinDifficulty
  BY <1>0, <1>1, MinMaxOfTwo
<1>4. Max({MinDifficulty, low}) \in Nat
  BY <1>0, <1>1, <1>2, <1>3
<1> QED
  BY <1>4 DEF Clamp, low

LEMMA DifficultyType ==
  ASSUME NEW c, Linked(c), NEW d \in Nat
  PROVE  calculateNextDifficulty(c, d) \in Nat
<1>1. Len(c) \in Nat \ {0}
  BY LinkedType
<1> DEFINE actual == c[Len(c)].timestamp - c[Len(c) - Window].timestamp
<1>2. ASSUME ~ (Len(c) < Window + 1), ~ (actual <= 0)
      PROVE  Clamp(Rescale(d, Window * TargetBlockTime, actual)) \in Nat
  <2>1. Len(c) \in 1..Len(c) /\ Len(c) - Window \in 1..Len(c)
    BY <1>1, <1>2, ConsensusAssumption
  <2>2. actual \in Int
    BY <2>1 DEF Linked
  <2>3. actual \in Nat \ {0}
    BY <1>2, <2>2
  <2>4. Window * TargetBlockTime \in Nat
    BY ConsensusAssumption
  <2> DEFINE expected == Window * TargetBlockTime
  <2> HIDE DEF expected, actual
  <2>5. 2 * actual \in Nat \ {0} /\ 2 * d * expected + actual \in Nat
    BY <2>3, <2>4 DEF expected
  <2>6. ((2 * d * expected + actual) \div (2 * actual)) \in Int
    BY <2>5
  <2>7. Rescale(d, expected, actual) \in Int
    BY <2>6 DEF Rescale, MaxFactor
  <2> QED
    BY <2>7, ClampType DEF expected
<1> QED
  BY <1>2 DEF calculateNextDifficulty

LEMMA TxCountType ==
  ASSUME NEW n \in Nodes, mempool[n] \in Seq(Txs)
  PROVE  txCount(n) \in 0..Len(mempool[n])
<1> DEFINE l == Len(mempool[n])
<1>1. l \in Nat /\ MaxTxsPerBlock \in Nat
  BY NodesAssumption
<1> HIDE DEF l
<1>2. Min({l, MaxTxsPerBlock}) \in {l, MaxTxsPerBlock} /\ Min({l, MaxTxsPerBlock}) <= l
  BY <1>1, MinMaxOfTwo
<1>3. Min({l, MaxTxsPerBlock}) \in Nat
  BY <1>1, <1>2
<1> QED
  BY <1>1, <1>2, <1>3 DEF txCount, l

-----------------------------------------------------------------------------
(* Mining *)

LEMMA HeldChain ==
  ASSUME ChainInv, NEW n \in Nodes
  PROVE  /\ chain[n] \in published /\ Linked(chain[n])
         /\ mempool[n] \in Seq(Txs)
         /\ DOMAIN mempool[n] = 1..Len(mempool[n])
BY DEF ChainInv, TypeOK

\* The block a node makes: a reward followed by the front of its mempool.
LEMMA MinedBlock ==
  ASSUME ChainInv, NEW n \in Nodes, NEW miner \in Accounts
  PROVE  LET b == newBlock(n, miner)
         IN  /\ b.index = Len(chain[n])
             /\ b.previousHash = Hash(Last(chain[n]))
             /\ b.transactions \in Seq(TxType)
             /\ b.timestamp \in Int
             /\ b.difficulty \in Nat
             /\ Len(b.transactions) = txCount(n) + 1
             /\ isCoinbase(b.transactions[1])
             /\ \A p \in 1..Len(b.transactions) : p # 1 =>
                  p - 1 \in 1..txCount(n) /\ b.transactions[p] = mempool[n][p-1]
<1> DEFINE b == newBlock(n, miner)
           front == SubSeq(mempool[n], 1, txCount(n))
           reward == Coinbase(miner, clock(n))
<1>1. mempool[n] \in Seq(Txs) /\ Linked(chain[n])
  BY HeldChain
<1>2. txCount(n) \in 0..Len(mempool[n])
  BY <1>1, TxCountType
<1>3. clock(n) \in Int /\ difficulty[n] \in Nat
  BY NodesAssumption DEF ChainInv, TypeOK, clock
<1>4. reward \in TxType /\ isCoinbase(reward)
  BY <1>3, RewardAssumption DEF Coinbase, TxType, Addresses, isCoinbase
<1>5. /\ front \in Seq(Txs) /\ Len(front) = txCount(n)
      /\ \A i \in 1..txCount(n) : front[i] = mempool[n][i]
  BY <1>1, <1>2
<1> HIDE DEF front, reward
<1>6. front \in Seq(TxType) /\ <<reward>> \in Seq(TxType)
  BY <1>4, <1>5 DEF TxType
<1> DEFINE ts == <<reward>> \o front
<1>7. /\ ts \in Seq(TxType) /\ Len(ts) = txCount(n) + 1 /\ ts[1] = reward
      /\ \A p \in 1..Len(ts) : p # 1 => p - 1 \in 1..txCount(n) /\ ts[p] = front[p-1]
  BY <1>2, <1>5, <1>6
<1> HIDE DEF ts
<1>8. b.difficulty \in Nat
  BY <1>1, <1>3, DifficultyType DEF newBlock, Block
<1>9. /\ b.index = Len(chain[n]) /\ b.previousHash = Hash(Last(chain[n]))
      /\ b.transactions = ts /\ b.timestamp \in Int
  BY <1>3 DEF newBlock, Block, ts, front, reward
<1> HIDE DEF b
<1>10. \A p \in 1..Len(b.transactions) : p # 1 =>
         p - 1 \in 1..txCount(n) /\ b.transactions[p] = mempool[n][p-1]
  BY <1>5, <1>7, <1>9
<1>11. isCoinbase(b.transactions[1])
  BY <1>4, <1>7, <1>9
<1> QED
  BY <1>7, <1>8, <1>9, <1>10, <1>11 DEF b

\* No transfer is confirmed twice on chain c.
NoRepeat(c) ==
  \A i, j \in DOMAIN c :
    \A p \in DOMAIN c[i].transactions, q \in DOMAIN c[j].transactions :
      /\ c[i].transactions[p] = c[j].transactions[q]
      /\ ~isCoinbase(c[i].transactions[p])
      => i = j /\ p = q

LEMMA NoTxTwiceIs == NoTxTwice <=> \A c \in published : NoRepeat(c)
BY DEF NoTxTwice, NoRepeat

\* A chain stays free of repetitions when the block added to it is, and its
\* transfers are not spent on the chain.
LEMMA NoRepeatAppend ==
  ASSUME NEW c, NEW b, Linked(c), Linked(Append(c, b)), NoRepeat(c),
         b.transactions \in Seq(TxType),
         \A p, q \in 1..Len(b.transactions) :
           b.transactions[p] = b.transactions[q] /\ ~isCoinbase(b.transactions[p])
             => p = q,
         \A p \in 1..Len(b.transactions) :
           ~isCoinbase(b.transactions[p]) => b.transactions[p] \notin RebuildSpent(c)
  PROVE  NoRepeat(Append(c, b))
<1> DEFINE d == Append(c, b)
<1>1. c \in Seq(ToSet(c) \cup {b}) /\ Len(c) \in Nat /\ DOMAIN c = 1..Len(c)
  BY LinkedType
<1>2. /\ Len(d) = Len(c) + 1 /\ DOMAIN d = 1..Len(d)
      /\ \A i \in 1..Len(c) : d[i] = c[i]
      /\ d[Len(c) + 1] = b
  BY <1>1
<1> HIDE DEF d
<1>3. \A i \in 1..Len(d) : i \in 1..Len(c) \/ i = Len(c) + 1
  BY <1>1, <1>2
<1>4. DOMAIN b.transactions = 1..Len(b.transactions)
  OBVIOUS
<1>5. \A i \in 1..Len(c) : DOMAIN c[i].transactions = 1..Len(c[i].transactions)
  BY DEF Linked
<1>6. ASSUME NEW i \in 1..Len(c), NEW p \in DOMAIN c[i].transactions,
             NEW q \in DOMAIN b.transactions,
             c[i].transactions[p] = b.transactions[q],
             ~isCoinbase(b.transactions[q])
      PROVE  FALSE
  <2>1. p \in 1..Len(c[i].transactions)
    BY <1>5
  <2>2. b.transactions[q] \in RebuildSpent(c)
    BY <1>6, <2>1, SpentMember
  <2> QED
    BY <1>4, <1>6, <2>2
<1>7. SUFFICES ASSUME NEW i \in DOMAIN d, NEW j \in DOMAIN d,
                      NEW p \in DOMAIN d[i].transactions,
                      NEW q \in DOMAIN d[j].transactions,
                      d[i].transactions[p] = d[j].transactions[q],
                      ~isCoinbase(d[i].transactions[p])
               PROVE  i = j /\ p = q
  BY DEF NoRepeat, d
<1>8. ~isCoinbase(d[j].transactions[q])
  BY <1>7
<1>9. CASE i \in 1..Len(c) /\ j \in 1..Len(c)
  BY <1>1, <1>2, <1>7, <1>9 DEF NoRepeat
<1>10. CASE i \in 1..Len(c) /\ j = Len(c) + 1
  BY <1>2, <1>6, <1>7, <1>8, <1>10
<1>11. CASE i = Len(c) + 1 /\ j \in 1..Len(c)
  BY <1>2, <1>6, <1>7, <1>8, <1>11
<1>12. CASE i = Len(c) + 1 /\ j = Len(c) + 1
  BY <1>2, <1>4, <1>7, <1>12
<1> QED
  BY <1>2, <1>3, <1>9, <1>10, <1>11, <1>12

\* What follows the mined transactions in the mempool is still fresh.
LEMMA MinedChain ==
  ASSUME ChainInv, NEW n \in Nodes, NEW miner \in Accounts
  PROVE  LET b == newBlock(n, miner)
             c == Append(chain[n], b)
             rest == SubSeq(mempool[n], txCount(n) + 1, Len(mempool[n]))
         IN  /\ Linked(c) /\ NoRepeat(c)
             /\ RebuildSpent(c) = ApplySpent(spentTxIDs[n], b)
             /\ rest \in Seq(Txs)
             /\ \A i, j \in 1..Len(rest) : rest[i] = rest[j] => i = j
             /\ \A i \in 1..Len(rest) : rest[i] \notin RebuildSpent(c)
<1> DEFINE b == newBlock(n, miner)
           c == Append(chain[n], b)
           k == txCount(n)
           m == mempool[n]
           rest == SubSeq(m, k + 1, Len(m))
<1>1. /\ b.index = Len(chain[n]) /\ b.previousHash = Hash(Last(chain[n]))
      /\ b.transactions \in Seq(TxType) /\ b.timestamp \in Int
      /\ Len(b.transactions) = k + 1 /\ isCoinbase(b.transactions[1])
      /\ \A p \in 1..Len(b.transactions) : p # 1 =>
           p - 1 \in 1..k /\ b.transactions[p] = m[p-1]
  BY MinedBlock
<1>2. Linked(chain[n]) /\ chain[n] \in published /\ m \in Seq(Txs) /\ DOMAIN m = 1..Len(m)
  BY HeldChain
<1>3. k \in 0..Len(m)
  BY <1>2, TxCountType
<1>4. /\ spentTxIDs[n] = RebuildSpent(chain[n])
      /\ \A i, j \in 1..Len(m) : m[i] = m[j] => i = j
      /\ \A i \in 1..Len(m) : m[i] \notin spentTxIDs[n]
      /\ NoRepeat(chain[n])
  BY <1>2, NoTxTwiceIs DEF ChainInv, MempoolFresh
<1>5. \A i \in 1..k : i \in 1..Len(m)
  BY <1>2, <1>3
<1>6. /\ rest \in Seq(Txs) /\ Len(rest) = Len(m) - k
      /\ \A i \in 1..Len(rest) : rest[i] = m[i+k]
  BY <1>2, <1>3, TailFacts
<1> HIDE DEF b, k, m, rest
<1>7. Linked(c)
  BY <1>1, <1>2, LinkedAppend
<1>8. RebuildSpent(c) = ApplySpent(spentTxIDs[n], b)
  BY <1>2, <1>4, <1>7, SpentAppend
<1>9. \A p, q \in 1..Len(b.transactions) :
         b.transactions[p] = b.transactions[q] /\ ~isCoinbase(b.transactions[p])
           => p = q
  <2> SUFFICES ASSUME NEW p \in 1..Len(b.transactions),
                      NEW q \in 1..Len(b.transactions),
                      b.transactions[p] = b.transactions[q],
                      ~isCoinbase(b.transactions[p])
               PROVE  p = q
    OBVIOUS
  <2>1. p # 1 /\ q # 1
    BY <1>1
  <2>2. m[p-1] = m[q-1] /\ p - 1 \in 1..Len(m) /\ q - 1 \in 1..Len(m)
    BY <1>1, <1>5, <2>1
  <2>3. p - 1 = q - 1
    BY <1>4, <2>2
  <2> QED
    BY <1>1, <1>3, <2>3
<1>10. \A p \in 1..Len(b.transactions) : ~isCoinbase(b.transactions[p]) =>
         b.transactions[p] \notin RebuildSpent(chain[n])
  BY <1>1, <1>4, <1>5
<1>11. NoRepeat(c)
  BY <1>1, <1>2, <1>4, <1>7, <1>9, <1>10, NoRepeatAppend
<1>12. \A i \in 1..Len(rest) : i + k \in 1..Len(m) /\ i + k > k
  BY <1>2, <1>3, <1>6
<1>13. \A i, j \in 1..Len(rest) : rest[i] = rest[j] => i = j
  <2> SUFFICES ASSUME NEW i \in 1..Len(rest), NEW j \in 1..Len(rest), rest[i] = rest[j]
               PROVE  i = j
    OBVIOUS
  <2>1. i + k = j + k
    BY <1>4, <1>6, <1>12
  <2> QED
    BY <1>3, <2>1
<1>14. \A i \in 1..Len(rest) : rest[i] \notin TxIDs(b)
  <2> SUFFICES ASSUME NEW i \in 1..Len(rest), rest[i] \in TxIDs(b) PROVE FALSE
    OBVIOUS
  <2>1. PICK p \in 1..Len(b.transactions) :
          rest[i] = b.transactions[p] /\ ~isCoinbase(b.transactions[p])
    BY <1>1 DEF TxIDs, ToSet
  <2>2. p - 1 \in 1..k /\ m[i+k] = m[p-1]
    BY <1>1, <1>6, <2>1
  <2>3. i + k = p - 1
    BY <1>4, <1>5, <1>12, <2>2
  <2> QED
    BY <1>3, <1>12, <2>2, <2>3
<1>15. \A i \in 1..Len(rest) : rest[i] \notin RebuildSpent(c)
  BY <1>4, <1>6, <1>8, <1>12, <1>14 DEF ApplySpent
<1> QED
  BY <1>6, <1>7, <1>8, <1>11, <1>13, <1>15 DEF b, k, m, rest

-----------------------------------------------------------------------------
(* ChainInv is inductive *)

\* What chain.json may hold: nothing, or the end of a chain in P.
Segment(f, P) ==
  f # <<>> => \E c \in P : \E i \in 1..Len(c) : f = SubSeq(c, i, Len(c))

LEMMA WholeChainIsSegment ==
  ASSUME NEW P, NEW c \in P, Linked(c)
  PROVE  Segment(c, P)
<1>1. c \in Seq(ToSet(c)) /\ Len(c) \in Nat \ {0}
  BY LinkedType
<1>2. c = SubSeq(c, 1, Len(c)) /\ 1 \in 1..Len(c)
  BY <1>1
<1> QED
  BY <1>2 DEF Segment

\* appendBlock extends the file only when the file ends where the chain did.
LEMMA AppendedSegment ==
  ASSUME NEW P, NEW c, NEW b, NEW stored, NEW ok \in BOOLEAN,
         \A d \in P : Linked(d), Linked(c), Append(c, b) \in P,
         b.previousHash = Hash(Last(c)), Segment(stored, P)
  PROVE  Segment(appendBlock(stored, b, ok), P)
<1> DEFINE d == Append(c, b)
<1>1. c \in Seq(ToSet(c) \cup {b}) /\ Len(c) \in Nat \ {0}
  BY LinkedType
<1>2. /\ d \in Seq(ToSet(c) \cup {b}) /\ Len(d) = Len(c) + 1
      /\ \A i \in 1..Len(c) : d[i] = c[i]
      /\ d[Len(c) + 1] = b
  BY <1>1
<1>3. d \in P
  OBVIOUS
<1> HIDE DEF d
<1>4. CASE ~ (ok /\ extendsStored(stored, b))
  BY <1>4 DEF appendBlock
<1>5. CASE ok /\ extendsStored(stored, b) /\ stored = <<>>
  <2>1. appendBlock(stored, b, ok) = <<b>>
    BY <1>5 DEF appendBlock
  <2>2. SubSeq(d, Len(d), Len(d)) = <<b>> /\ Len(d) \in 1..Len(d)
    <3>1. Len(d) \in 1..Len(d)
      BY <1>1, <1>2
    <3> DEFINE r == SubSeq(d, Len(d), Len(d))
    <3>2. /\ r \in Seq(ToSet(c) \cup {b}) /\ Len(r) = Len(d) - Len(d) + 1
          /\ \A j \in 1..Len(r) : r[j] = d[j+Len(d)-1]
      BY <1>2, <3>1, SubSeqFacts
    <3>3. Len(r) = 1 /\ r[1] = b
      BY <1>1, <1>2, <3>2
    <3>4. /\ <<b>> \in Seq(ToSet(c) \cup {b}) /\ Len(<<b>>) = 1
          /\ \A j \in 1..Len(r) : r[j] = <<b>>[j]
      BY <3>3
    <3> HIDE DEF r
    <3>5. r = <<b>>
      BY <3>2, <3>3, <3>4, SameSeq
    <3> QED
      BY <3>1, <3>5 DEF r
  <2> QED
    BY <1>3, <2>1, <2>2 DEF Segment
<1>6. CASE ok /\ extendsStored(stored, b) /\ stored # <<>>
  <2>1. appendBlock(stored, b, ok) = Append(stored, b)
    BY <1>6 DEF appendBlock
  <2>2. PICK e \in P : \E i \in 1..Len(e) : stored = SubSeq(e, i, Len(e))
    BY <1>6 DEF Segment
  <2>3. PICK i \in 1..Len(e) : stored = SubSeq(e, i, Len(e))
    BY <2>2
  <2>4. Linked(e) /\ e \in Seq(ToSet(e)) /\ Len(e) \in Nat \ {0}
    BY LinkedType
  <2>5. /\ stored \in Seq(ToSet(e)) /\ Len(stored) = Len(e) - i + 1
        /\ \A j \in 1..Len(stored) : stored[j] = e[j+i-1]
    BY <2>3, <2>4
  <2>6. Last(stored) = Last(e)
    BY <2>4, <2>5 DEF Last
  <2>7. Last(e) = Last(c)
    BY <1>6, <2>6 DEF extendsStored, Hash
  <2>8. e = c
    BY <2>4, <2>7, TipDeterminesChain
  <2>9. i \in 1..Len(d) /\ Append(stored, b) = SubSeq(d, i, Len(d))
    <3>1. i \in 1..Len(d)
      BY <1>1, <1>2, <2>8
    <3> DEFINE r == SubSeq(d, i, Len(d))
               a == Append(stored, b)
    <3>2. /\ r \in Seq(ToSet(c) \cup {b}) /\ Len(r) = Len(d) - i + 1
          /\ \A j \in 1..Len(r) : r[j] = d[j+i-1]
      BY <1>2, <3>1, SubSeqFacts
    <3>3. stored \in Seq(ToSet(c) \cup {b})
      BY <2>5, <2>8
    <3>4. /\ a \in Seq(ToSet(c) \cup {b}) /\ Len(a) = Len(stored) + 1
          /\ \A j \in 1..Len(stored) : a[j] = stored[j]
          /\ a[Len(stored) + 1] = b
      BY <3>3
    <3> HIDE DEF r, a
    <3>5. Len(stored) = Len(c) - i + 1 /\ Len(r) = Len(a)
      BY <1>1, <1>2, <2>5, <2>8, <3>2, <3>4
    <3>6. \A j \in 1..Len(r) : r[j] = a[j]
      <4> SUFFICES ASSUME NEW j \in 1..Len(r) PROVE r[j] = a[j]
        OBVIOUS
      <4>0. i \in Int /\ Len(c) \in Nat
        BY <1>1
      <4>1. CASE j \in 1..Len(stored)
        <5>1. j + i - 1 \in 1..Len(c)
          BY <3>1, <3>5, <4>0, <4>1
        <5> QED
          BY <1>2, <2>5, <2>8, <3>2, <3>4, <4>1, <5>1
      <4>2. CASE j = Len(stored) + 1
        <5>1. j + i - 1 = Len(c) + 1
          BY <3>5, <4>0, <4>2
        <5> QED
          BY <1>2, <3>2, <3>4, <4>2, <5>1
      <4> QED
        BY <3>4, <3>5, <4>0, <4>1, <4>2
    <3>7. r = a
      BY <3>2, <3>4, <3>5, <3>6, SameSeq
    <3> QED
      BY <3>1, <3>7 DEF r, a
  <2> QED
    BY <1>3, <2>1, <2>9 DEF Segment
<1> QED
  BY <1>4, <1>5, <1>6

\* A stored file that isChainValid accepts is a whole chain, not the end of one.
LEMMA StoredChain ==
  ASSUME NEW P, NEW stored, \A d \in P : Linked(d), Segment(stored, P),
         stored # <<>>, isChainValid(stored)
  PROVE  stored \in P
<1>1. PICK c \in P : \E i \in 1..Len(c) : stored = SubSeq(c, i, Len(c))
  BY DEF Segment
<1>2. PICK i \in 1..Len(c) : stored = SubSeq(c, i, Len(c))
  BY <1>1
<1>3. Linked(c) /\ c \in Seq(ToSet(c)) /\ Len(c) \in Nat \ {0}
  BY LinkedType
<1>4. stored[1] = c[i]
  BY <1>2, <1>3
<1>5. c[i].previousHash = <<>>
  BY <1>4 DEF isChainValid, ZeroHash
<1>6. i = 1
  <2> SUFFICES ASSUME i > 1 PROVE FALSE
    BY <1>3
  <2>1. c[i].previousHash = <<c[i-1]>>
    BY <1>3 DEF Linked, Hash
  <2>2. ASSUME NEW y PROVE <<y>> # <<>>
    <3>1. Len(<<y>>) = 1 /\ Len(<<>>) = 0
      OBVIOUS
    <3> QED
      BY <3>1
  <2> QED
    BY <1>5, <2>1, <2>2
<1>7. c = SubSeq(c, 1, Len(c))
  BY <1>3
<1> QED
  BY <1>2, <1>6, <1>7

LEMMA GenesisLinked ==
  ASSUME NEW n \in Nodes
  PROVE  Linked(GenesisChain(n)) /\ NoRepeat(GenesisChain(n))
<1> DEFINE g == createGenesis(InitialDifficulty[n])
<1>1. Coinbase(GENESIS, 0) \in TxType /\ isCoinbase(Coinbase(GENESIS, 0))
  BY RewardAssumption DEF Coinbase, TxType, Addresses, isCoinbase
<1>2. /\ g.index = 0 /\ g.previousHash = ZeroHash /\ g.timestamp = 0
      /\ g.transactions = <<Coinbase(GENESIS, 0)>>
  BY DEF createGenesis, Block
<1>3. g.transactions \in Seq(TxType)
  BY <1>1, <1>2
<1> HIDE DEF g
<1>4. /\ <<g>> \in Seq(ToSet(<<g>>)) /\ <<g>> # <<>> /\ Len(<<g>>) = 1
      /\ <<g>>[1] = g /\ DOMAIN <<g>> = {1}
  BY DEF ToSet
<1>5. Linked(<<g>>)
  <2> DEFINE c == <<g>>
  <2>1. \A i \in 1..Len(c) : i = 1 /\ c[i] = g
    BY <1>4
  <2>2. c \in Seq(ToSet(c)) /\ c # <<>> /\ c[1] = g
    BY <1>4
  <2> HIDE DEF c
  <2>3. \A i \in 1..Len(c) : /\ c[i].index = i - 1
                             /\ c[i].transactions \in Seq(TxType)
                             /\ c[i].timestamp \in Int
                             /\ i > 1 => c[i].previousHash = Hash(c[i-1])
    <3> SUFFICES ASSUME NEW i \in 1..Len(c)
                 PROVE  /\ c[i].index = i - 1
                        /\ c[i].transactions \in Seq(TxType)
                        /\ c[i].timestamp \in Int
                        /\ i > 1 => c[i].previousHash = Hash(c[i-1])
      OBVIOUS
    <3>1. i = 1 /\ c[i] = g
      BY <2>1
    <3>2. c[i].index = i - 1 /\ ~ (i > 1)
      BY <1>2, <3>1
    <3>3. c[i].transactions \in Seq(TxType)
      BY <1>3, <3>1
    <3>4. c[i].timestamp \in Int
      BY <1>2, <3>1
    <3> QED
      BY <3>2, <3>3, <3>4
  <2>4. Linked(c)
    BY <1>2, <2>2, <2>3 DEF Linked
  <2> QED
    BY <2>4 DEF c
<1>6. \A p \in DOMAIN g.transactions : isCoinbase(g.transactions[p])
  BY <1>1, <1>2
<1>7. NoRepeat(<<g>>)
  BY <1>4, <1>6 DEF NoRepeat
<1> QED
  BY <1>5, <1>7 DEF GenesisChain, g

\* A step of node n keeps ChainInv if what it gives n does.
LEMMA NodeStep ==
  ASSUME ChainInv, NEW n \in Nodes,
         NEW x, NEW m, NEW s, NEW d \in Nat, NEW v \in Nat \ {0}, NEW f,
         now' = now, published \subseteq published',
         \A c \in published' : Linked(c) /\ NoRepeat(c),
         chain' = [chain EXCEPT ![n] = x], x \in published',
         mempool' = [mempool EXCEPT ![n] = m], m \in Seq(Txs),
         spentTxIDs' = [spentTxIDs EXCEPT ![n] = s], s = RebuildSpent(x),
         \A i, j \in 1..Len(m) : m[i] = m[j] => i = j,
         \A i \in 1..Len(m) : m[i] \notin s,
         difficulty' = [difficulty EXCEPT ![n] = d],
         version' = [version EXCEPT ![n] = v],
         disk' = [disk EXCEPT ![n] = f], Segment(f, published')
  PROVE  ChainInv'
<1>1. TypeOK'
  <2>1. s \in SUBSET Txs
    BY SpentInTxs
  <2> QED
    BY <2>1 DEF ChainInv, TypeOK
<1>2. \A c \in published' : Linked(c)
  OBVIOUS
<1>3. \A k \in Nodes : GenesisChain(k) \in published'
  BY DEF ChainInv
<1>4. \A k \in Nodes : spentTxIDs'[k] = RebuildSpent(chain'[k])
  BY DEF ChainInv, TypeOK
<1>5. MempoolFresh'
  <2> SUFFICES ASSUME NEW k \in Nodes
               PROVE  /\ \A i, j \in DOMAIN mempool'[k] :
                           mempool'[k][i] = mempool'[k][j] => i = j
                      /\ \A i \in DOMAIN mempool'[k] : mempool'[k][i] \notin spentTxIDs'[k]
    BY DEF MempoolFresh
  <2>1. CASE k = n
    <3>1. mempool'[k] = m /\ spentTxIDs'[k] = s /\ DOMAIN m = 1..Len(m)
      BY <2>1 DEF ChainInv, TypeOK
    <3> QED
      BY <3>1
  <2>2. CASE k # n
    <3>1. mempool'[k] = mempool[k] /\ spentTxIDs'[k] = spentTxIDs[k]
      BY <2>2 DEF ChainInv, TypeOK
    <3> QED
      BY <3>1 DEF ChainInv, MempoolFresh
  <2> QED
    BY <2>1, <2>2
<1>6. NoTxTwice'
  BY DEF NoTxTwice, NoRepeat
<1>7. disk' = [k \in Nodes |-> disk'[k]]
  BY DEF ChainInv
<1>8. DiskIsSegment'
  <2> SUFFICES ASSUME NEW k \in Nodes, disk'[k] # <<>>
               PROVE  \E c \in published' : \E i \in 1..Len(c) :
                        disk'[k] = SubSeq(c, i, Len(c))
    BY DEF DiskIsSegment
  <2>1. CASE k = n
    <3>1. disk'[k] = f
      BY <2>1 DEF ChainInv
    <3> QED
      BY <3>1 DEF Segment
  <2>2. CASE k # n
    <3>1. disk'[k] = disk[k]
      BY <2>2 DEF ChainInv
    <3>2. DiskIsSegment
      BY DEF ChainInv
    <3>3. \E c \in published : \E i \in 1..Len(c) : disk[k] = SubSeq(c, i, Len(c))
      BY <3>1, <3>2 DEF DiskIsSegment
    <3> QED
      BY <3>1, <3>3
  <2> QED
    BY <2>1, <2>2
<1> QED
  BY <1>1, <1>2, <1>3, <1>4, <1>5, <1>6, <1>7, <1>8 DEF ChainInv

LEMMA ChainInvInit == Init => ChainInv
<1> SUFFICES ASSUME Init PROVE ChainInv
  OBVIOUS
<1>1. \A n \in Nodes : /\ GenesisChain(n) \in published
                       /\ Linked(GenesisChain(n)) /\ NoRepeat(GenesisChain(n))
  BY GenesisLinked DEF Init
<1>2. \A c \in published : Linked(c) /\ NoRepeat(c)
  BY <1>1 DEF Init
<1>3. TypeOK
  <2>1. \A n \in Nodes : RebuildSpent(GenesisChain(n)) \in SUBSET Txs
    BY <1>1, SpentInTxs
  <2>2. <<>> \in Seq(Txs)
    OBVIOUS
  <2> QED
    BY <1>1, <2>1, <2>2, NodesAssumption DEF Init, TypeOK
<1>4. \A n \in Nodes : spentTxIDs[n] = RebuildSpent(chain[n])
  BY DEF Init
<1>5. MempoolFresh
  BY DEF Init, MempoolFresh
<1>6. NoTxTwice
  BY <1>2, NoTxTwiceIs
<1>7. disk = [n \in Nodes |-> disk[n]]
  BY DEF Init
<1>8. DiskIsSegment
  <2>1. PICK ok \in [Nodes -> WriteOutcomes] :
          disk = [n \in Nodes |-> saveChain(<<>>, GenesisChain(n), ok[n])]
    BY DEF Init
  <2>2. \A n \in Nodes : disk[n] = <<>> \/ disk[n] = GenesisChain(n)
    BY <2>1 DEF saveChain
  <2>3. \A n \in Nodes : Segment(GenesisChain(n), published)
    BY <1>1, WholeChainIsSegment
  <2> QED
    BY <2>2, <2>3 DEF DiskIsSegment, Segment
<1> QED
  BY <1>1, <1>2, <1>3, <1>4, <1>5, <1>6, <1>7, <1>8 DEF ChainInv

LEMMA StoredIsSegment ==
  ASSUME ChainInv, NEW n \in Nodes
  PROVE  Segment(disk[n], published)
BY DEF ChainInv, DiskIsSegment, Segment

LEMMA ChainInvAdd ==
  ASSUME ChainInv, NEW n \in Nodes, NEW tx \in Txs, addTransaction(n, tx)
  PROVE  ChainInv'
<1> DEFINE m == mempool[n]
           a == Append(m, tx)
<1>1. Linked(chain[n]) /\ m \in Seq(Txs) /\ DOMAIN m = 1..Len(m)
  BY HeldChain
<1>2. tx \notin spentTxIDs[n] /\ \A i \in 1..Len(m) : m[i] # tx
  BY <1>1 DEF addTransaction, admissible, ToSet
<1>3. /\ \A i, j \in 1..Len(m) : m[i] = m[j] => i = j
      /\ \A i \in 1..Len(m) : m[i] \notin spentTxIDs[n]
  BY <1>1 DEF ChainInv, MempoolFresh
<1>4. /\ a \in Seq(Txs) /\ Len(a) = Len(m) + 1 /\ a[Len(m) + 1] = tx
      /\ \A i \in 1..Len(m) : a[i] = m[i]
  BY <1>1
<1>5. mempool' = [mempool EXCEPT ![n] = a]
  BY DEF addTransaction, admissible
<1> HIDE DEF a, m
<1>6. \A i \in 1..Len(a) : i \in 1..Len(m) \/ i = Len(m) + 1
  BY <1>1, <1>4
<1>7. \A i, j \in 1..Len(a) : a[i] = a[j] => i = j
  BY <1>2, <1>3, <1>4, <1>6
<1>8. \A i \in 1..Len(a) : a[i] \notin spentTxIDs[n]
  BY <1>2, <1>3, <1>4, <1>6
<1>9. /\ chain' = [chain EXCEPT ![n] = chain[n]]
      /\ spentTxIDs' = [spentTxIDs EXCEPT ![n] = spentTxIDs[n]]
      /\ difficulty' = [difficulty EXCEPT ![n] = difficulty[n]]
      /\ disk' = [disk EXCEPT ![n] = disk[n]]
      /\ version' = [version EXCEPT ![n] = version[n] + 1]
      /\ published' = published /\ now' = now
  BY DEF bumpVersion, addTransaction, admissible, stateVars, ChainInv, TypeOK, DiskIsSegment
<1>10. /\ chain[n] \in published' /\ spentTxIDs[n] = RebuildSpent(chain[n])
       /\ difficulty[n] \in Nat /\ version[n] + 1 \in Nat \ {0}
  BY <1>9 DEF ChainInv, TypeOK
<1>11. \A c \in published' : Linked(c) /\ NoRepeat(c)
  BY <1>9, NoTxTwiceIs DEF ChainInv
<1>12. Segment(disk[n], published')
  BY <1>9, StoredIsSegment
<1> QED
  BY <1>4, <1>5, <1>7, <1>8, <1>9, <1>10, <1>11, <1>12, NodeStep

LEMMA ChainInvMine ==
  ASSUME ChainInv, NEW n \in Nodes, NEW miner \in Accounts,
         minePendingTransactions(n, miner)
  PROVE  ChainInv'
<1> DEFINE b == newBlock(n, miner)
           c == Append(chain[n], b)
           rest == SubSeq(mempool[n], txCount(n) + 1, Len(mempool[n]))
<1>1. /\ Linked(c) /\ NoRepeat(c) /\ RebuildSpent(c) = ApplySpent(spentTxIDs[n], b)
      /\ rest \in Seq(Txs)
      /\ \A i, j \in 1..Len(rest) : rest[i] = rest[j] => i = j
      /\ \A i \in 1..Len(rest) : rest[i] \notin RebuildSpent(c)
  BY MinedChain
<1>2. b.difficulty \in Nat /\ b.previousHash = Hash(Last(chain[n]))
  BY MinedBlock
<1>3. PICK ok \in WriteOutcomes :
        disk' = [disk EXCEPT ![n] = appendBlock(disk[n], b, ok)]
  BY DEF minePendingTransactions, ChainInv
<1>4. /\ chain' = [chain EXCEPT ![n] = c]
      /\ published' = published \cup {c} /\ now' = now
      /\ difficulty' = [difficulty EXCEPT ![n] = b.difficulty]
      /\ spentTxIDs' = [spentTxIDs EXCEPT ![n] = ApplySpent(spentTxIDs[n], b)]
      /\ version' = [version EXCEPT ![n] = version[n] + 1]
      /\ mempool' = [mempool EXCEPT ![n] = rest]
  BY DEF bumpVersion, minePendingTransactions, applyBlockState, ChainInv, TypeOK
<1> HIDE DEF b, c, rest
<1>5. \A d \in published' : Linked(d) /\ NoRepeat(d)
  BY <1>1, <1>4, NoTxTwiceIs DEF ChainInv
<1>6. Segment(appendBlock(disk[n], b, ok), published')
  <2>1. Segment(disk[n], published')
    BY <1>4, StoredIsSegment DEF Segment
  <2>2. Append(chain[n], b) \in published' /\ Linked(chain[n]) /\ ok \in BOOLEAN
    BY <1>4, HeldChain, NodesAssumption DEF c
  <2> QED
    BY <1>2, <1>5, <2>1, <2>2, AppendedSegment
<1>7. c \in published' /\ version[n] + 1 \in Nat \ {0} /\ published \subseteq published'
  BY <1>4 DEF ChainInv, TypeOK
<1> QED
  BY <1>1, <1>2, <1>3, <1>4, <1>5, <1>6, <1>7, NodeStep

LEMMA ChainInvAccept ==
  ASSUME ChainInv, NEW n \in Nodes, NEW c \in published, acceptBlock(n, Last(c))
  PROVE  ChainInv' /\ chain'[n] = c
<1> DEFINE b == Last(c)
           kept == EraseAll(mempool[n], ToSet(b.transactions))
<1>1. Linked(chain[n]) /\ Linked(c) /\ mempool[n] \in Seq(Txs)
  BY HeldChain DEF ChainInv
<1>2. Append(chain[n], b) = c
  BY <1>1, AcceptedChain DEF acceptBlock, acceptable, extendsTip
<1>3. /\ DOMAIN mempool[n] = 1..Len(mempool[n])
      /\ \A i, j \in 1..Len(mempool[n]) : mempool[n][i] = mempool[n][j] => i = j
      /\ \A i \in 1..Len(mempool[n]) : mempool[n][i] \notin spentTxIDs[n]
  BY HeldChain DEF ChainInv, MempoolFresh
<1>4. /\ kept \in Seq(Txs)
      /\ \A i \in 1..Len(kept) : kept[i] \notin ToSet(b.transactions)
      /\ \A i \in 1..Len(kept) : \E j \in 1..Len(mempool[n]) : kept[i] = mempool[n][j]
      /\ \A i, j \in 1..Len(kept) : kept[i] = kept[j] => i = j
  BY <1>1, <1>3, EraseAllFacts
<1>5. PICK ok \in WriteOutcomes :
        disk' = [disk EXCEPT ![n] = appendBlock(disk[n], b, ok)]
  BY DEF acceptBlock, acceptable, extendsTip, ChainInv
<1>6. /\ chain' = [chain EXCEPT ![n] = c]
      /\ published' = published /\ now' = now
      /\ difficulty' = [difficulty EXCEPT ![n] = difficulty[n]]
      /\ spentTxIDs' = [spentTxIDs EXCEPT ![n] = ApplySpent(spentTxIDs[n], b)]
      /\ version' = [version EXCEPT ![n] = version[n] + 1]
      /\ mempool' = [mempool EXCEPT ![n] = kept]
      /\ b.previousHash = Hash(Last(chain[n]))
  BY <1>2 DEF bumpVersion, acceptBlock, acceptable, extendsTip, applyBlockState, ChainInv, TypeOK
<1> HIDE DEF b, kept
<1>7. RebuildSpent(c) = ApplySpent(spentTxIDs[n], b)
  BY <1>1, <1>2, SpentAppend DEF ChainInv
<1>8. \A i \in 1..Len(kept) : kept[i] \notin RebuildSpent(c)
  BY <1>3, <1>4, <1>7 DEF ApplySpent, TxIDs
<1>9. \A d \in published' : Linked(d) /\ NoRepeat(d)
  BY <1>6, NoTxTwiceIs DEF ChainInv
<1>10. Segment(appendBlock(disk[n], b, ok), published')
  <2>1. Segment(disk[n], published') /\ ok \in BOOLEAN
    BY <1>6, StoredIsSegment, NodesAssumption
  <2> QED
    BY <1>1, <1>2, <1>6, <1>9, <2>1, AppendedSegment
<1>11. /\ c \in published' /\ version[n] + 1 \in Nat \ {0} /\ difficulty[n] \in Nat
       /\ chain'[n] = c
  BY <1>6 DEF ChainInv, TypeOK
<1>12. ChainInv'
  BY <1>4, <1>5, <1>6, <1>7, <1>8, <1>9, <1>10, <1>11, NodeStep
<1> QED
  BY <1>11, <1>12

LEMMA ChainInvReplace ==
  ASSUME ChainInv, NEW n \in Nodes, NEW c \in published, replaceChain(n, c)
  PROVE  ChainInv'
<1> DEFINE kept == EraseAll(mempool[n], RebuildSpent(c))
<1>1. Linked(c) /\ mempool[n] \in Seq(Txs)
  BY HeldChain DEF ChainInv
<1>2. /\ DOMAIN mempool[n] = 1..Len(mempool[n])
      /\ \A i, j \in 1..Len(mempool[n]) : mempool[n][i] = mempool[n][j] => i = j
  BY HeldChain DEF ChainInv, MempoolFresh
<1>3. /\ kept \in Seq(Txs)
      /\ \A i \in 1..Len(kept) : kept[i] \notin RebuildSpent(c)
      /\ \A i, j \in 1..Len(kept) : kept[i] = kept[j] => i = j
  BY <1>1, <1>2, EraseAllFacts
<1>4. PICK ok \in WriteOutcomes :
        disk' = [disk EXCEPT ![n] = saveChain(disk[n], c, ok)]
  BY DEF replaceChain, preferable, ChainInv
<1>5. /\ chain' = [chain EXCEPT ![n] = c]
      /\ published' = published /\ now' = now
      /\ difficulty' = [difficulty EXCEPT ![n] = difficulty[n]]
      /\ spentTxIDs' = [spentTxIDs EXCEPT ![n] = RebuildSpent(c)]
      /\ version' = [version EXCEPT ![n] = version[n] + 1]
      /\ mempool' = [mempool EXCEPT ![n] = kept]
  BY DEF bumpVersion, replaceChain, preferable, rebuildState, ChainInv, TypeOK
<1> HIDE DEF kept
<1>6. \A d \in published' : Linked(d) /\ NoRepeat(d)
  BY <1>5, NoTxTwiceIs DEF ChainInv
<1>7. Segment(saveChain(disk[n], c, ok), published')
  <2>1. Segment(disk[n], published') /\ Segment(c, published')
    BY <1>1, <1>5, StoredIsSegment, WholeChainIsSegment
  <2> QED
    BY <2>1 DEF saveChain
<1>8. c \in published' /\ version[n] + 1 \in Nat \ {0} /\ difficulty[n] \in Nat
  BY <1>5 DEF ChainInv, TypeOK
<1> QED
  BY <1>3, <1>4, <1>5, <1>6, <1>7, <1>8, NodeStep

\* A restart, whatever the file held when the process ended.
LEMMA ChainInvConstruct ==
  ASSUME ChainInv, NEW n \in Nodes, NEW stored, Segment(stored, published),
         construct(n, stored)
  PROVE  ChainInv'
<1> DEFINE valid == stored # <<>> /\ validateChainAgainstConsensus(stored, clock(n))
           c == IF valid THEN stored ELSE GenesisChain(n)
<1>1. c \in published /\ Linked(c)
  <2>1. \A d \in published : Linked(d)
    BY DEF ChainInv
  <2>2. CASE valid
    BY <2>1, <2>2, StoredChain DEF validateChainAgainstConsensus
  <2>3. CASE ~valid
    BY <2>1, <2>3 DEF ChainInv
  <2> QED
    BY <2>2, <2>3
<1>2. \E ok \in WriteOutcomes :
        disk' = [disk EXCEPT ![n] = IF valid THEN stored ELSE saveChain(stored, c, ok)]
  BY NodesAssumption DEF construct
<1>3. PICK ok \in WriteOutcomes :
        disk' = [disk EXCEPT ![n] = IF valid THEN stored ELSE saveChain(stored, c, ok)]
  BY <1>2
<1>4. /\ chain' = [chain EXCEPT ![n] = c]
      /\ published' = published /\ now' = now
      /\ difficulty' = [difficulty EXCEPT ![n] = InitialDifficulty[n]]
      /\ spentTxIDs' = [spentTxIDs EXCEPT ![n] = RebuildSpent(c)]
      /\ version' = [version EXCEPT ![n] = 1]
      /\ mempool' = [mempool EXCEPT ![n] = <<>>]
  BY DEF construct, rebuildState
<1> HIDE DEF valid, c
<1>5. \A d \in published' : Linked(d) /\ NoRepeat(d)
  BY <1>4, NoTxTwiceIs DEF ChainInv
<1>6. Segment(IF valid THEN stored ELSE saveChain(stored, c, ok), published')
  <2>1. Segment(stored, published') /\ Segment(c, published')
    BY <1>1, <1>4, WholeChainIsSegment
  <2> QED
    BY <2>1 DEF saveChain
<1>7. c \in published' /\ InitialDifficulty[n] \in Nat /\ <<>> \in Seq(Txs) /\ 1 \in Nat \ {0}
  BY <1>1, <1>4, NodesAssumption
<1>8. /\ \A i, j \in 1..Len(<<>>) : <<>>[i] = <<>>[j] => i = j
      /\ \A i \in 1..Len(<<>>) : <<>>[i] \notin RebuildSpent(c)
  OBVIOUS
<1>9. published \subseteq published'
  BY <1>4
<1> QED
  BY <1>3, <1>4, <1>5, <1>6, <1>7, <1>8, <1>9, NodeStep

LEMMA ChainInvTick == ChainInv /\ Tick => ChainInv'
<1> SUFFICES ASSUME ChainInv, Tick PROVE ChainInv'
  OBVIOUS
<1>1. TypeOK'
  BY DEF ChainInv, TypeOK, Tick, stateVars
<1>2. MempoolFresh' /\ NoTxTwice' /\ DiskIsSegment'
  BY DEF ChainInv, Tick, stateVars, MempoolFresh, NoTxTwice, DiskIsSegment
<1> QED
  BY <1>1, <1>2 DEF ChainInv, Tick, stateVars

LEMMA ChainInvStutter == ChainInv /\ UNCHANGED vars => ChainInv'
BY DEF ChainInv, vars, stateVars, TypeOK, MempoolFresh, NoTxTwice, DiskIsSegment

LEMMA ChainInvNext == ChainInv /\ [Next]_vars => ChainInv'
<1> SUFFICES ASSUME ChainInv, [Next]_vars PROVE ChainInv'
  OBVIOUS
<1>1. ASSUME NEW n \in Nodes, NEW tx \in Txs, addTransaction(n, tx) PROVE ChainInv'
  BY <1>1, ChainInvAdd
<1>2. ASSUME NEW n \in Nodes, NEW miner \in Accounts, minePendingTransactions(n, miner)
      PROVE  ChainInv'
  BY <1>2, ChainInvMine
<1>3. ASSUME NEW n \in Nodes, NEW c \in published, acceptBlock(n, Last(c))
      PROVE  ChainInv'
  BY <1>3, ChainInvAccept
<1>4. ASSUME NEW n \in Nodes, NEW c \in published, replaceChain(n, c) PROVE ChainInv'
  BY <1>4, ChainInvReplace
<1>5. ASSUME NEW n \in Nodes, CrashRestart(n) PROVE ChainInv'
  BY <1>5, StoredIsSegment, ChainInvConstruct DEF CrashRestart
<1>6. ASSUME NEW n \in Nodes, GracefulRestart(n) PROVE ChainInv'
  <2>1. PICK ok \in WriteOutcomes : construct(n, saveChain(disk[n], chain[n], ok))
    BY <1>6 DEF GracefulRestart
  <2>2. Segment(disk[n], published) /\ Segment(chain[n], published)
    BY StoredIsSegment, HeldChain, WholeChainIsSegment
  <2>3. Segment(saveChain(disk[n], chain[n], ok), published)
    BY <2>2 DEF saveChain
  <2> QED
    BY <2>1, <2>3, ChainInvConstruct
<1> QED
  BY <1>1, <1>2, <1>3, <1>4, <1>5, <1>6, ChainInvTick, ChainInvStutter DEF Next

-----------------------------------------------------------------------------
(* The account state.  rebuildState folds the blocks of a chain; applying  *)
(* one more block is one more step of each fold.                           *)

\* What the folds promise of their results.  Of the balances nothing is shown here
\* but how they change.
BalancesHold(base, c, x) == TRUE

\* The last nonce of a sender is the greatest of the transfers in the blocks.
NoncesHold(base, c, x) ==
  /\ x \in [Addresses -> Nat]
  /\ \A tx \in RebuildSpent(c) : tx.from \in Addresses /\ tx.nonce \in 0..x[tx.from]
  /\ \A a \in Addresses :
       x[a] = 0 \/ \E tx \in RebuildSpent(c) : tx.from = a /\ tx.nonce = x[a]

\* The history of an address lists transactions of the blocks only.
TxsOf(c) == UNION {ToSet(c[i].transactions) : i \in DOMAIN c}

Histories == [Addresses -> Seq(TxType)]

RecordsHold(base, txs, x) ==
  base \in Histories =>
    /\ x \in Histories
    /\ \A a \in Addresses : ToSet(x[a]) \subseteq ToSet(base[a]) \cup ToSet(txs)

HistoryHolds(base, c, x) ==
  x \in Histories /\ \A a \in Addresses : ToSet(x[a]) \subseteq TxsOf(c)

BalanceFold == INSTANCE FoldFacts WITH Op <- ApplyBalances, Holds <- BalancesHold
NonceFold   == INSTANCE FoldFacts WITH Op <- ApplyNonces, Holds <- NoncesHold
HistoryFold == INSTANCE FoldFacts WITH Op <- ApplyHistory, Holds <- HistoryHolds
RecordFold  == INSTANCE FoldFacts WITH Op <- Record, Holds <- RecordsHold

\* The folds of the instances are the ones of Ledger.
LEMMA FoldsAreRebuilds ==
  ASSUME NEW c
  PROVE  /\ RebuildBalances(c) = BalanceFold!Fold(NoBalances, c)
         /\ RebuildNonces(c) = NonceFold!Fold(NoNonces, c)
         /\ RebuildHistory(c) = HistoryFold!Fold(NoHistory, c)
<1>1. RebuildBalances(c) = BalanceFold!Fold(NoBalances, c)
  BY DEF RebuildBalances, FoldLeft, MapThenFoldSet, Max, BalanceFold!Fold,
     BalanceFold!MapThenFoldSet, BalanceFold!Max
<1>2. RebuildNonces(c) = NonceFold!Fold(NoNonces, c)
  BY DEF RebuildNonces, FoldLeft, MapThenFoldSet, Max, NonceFold!Fold,
     NonceFold!MapThenFoldSet, NonceFold!Max
<1>3. RebuildHistory(c) = HistoryFold!Fold(NoHistory, c)
  BY DEF RebuildHistory, FoldLeft, MapThenFoldSet, Max, HistoryFold!Fold,
     HistoryFold!MapThenFoldSet, HistoryFold!Max
<1> QED
  BY <1>1, <1>2, <1>3

\* Rebuilding from a chain with one more block is applying that block.
LEMMA RebuildAppend ==
  ASSUME NEW S, NEW c \in Seq(S), NEW b \in S
  PROVE  /\ RebuildBalances(Append(c, b)) = ApplyBalances(RebuildBalances(c), b)
         /\ RebuildNonces(Append(c, b)) = ApplyNonces(RebuildNonces(c), b)
         /\ RebuildHistory(Append(c, b)) = ApplyHistory(RebuildHistory(c), b)
  BY FoldsAreRebuilds, BalanceFold!FoldAppend, NonceFold!FoldAppend, HistoryFold!FoldAppend

\* StateMatchesChain is inductive, given ChainInv.
StateInv ==
  /\ ChainInv
  /\ StateMatchesChain
  /\ balances = [n \in Nodes |-> balances[n]]
  /\ lastNonceMap = [n \in Nodes |-> lastNonceMap[n]]
  /\ history = [n \in Nodes |-> history[n]]

\* Initially the state of every node is that of its genesis block.
LEMMA StateInvInit == Init => StateInv
  BY ChainInvInit DEF Init, StateInv, StateMatchesChain

\* A step that gives node n the chain x and the state that belongs to x.
LEMMA StateStep ==
  ASSUME StateInv, ChainInv', NEW n \in Nodes, NEW x,
         chain' = [chain EXCEPT ![n] = x],
         balances' = [balances EXCEPT ![n] = RebuildBalances(x)],
         lastNonceMap' = [lastNonceMap EXCEPT ![n] = RebuildNonces(x)],
         history' = [history EXCEPT ![n] = RebuildHistory(x)]
  PROVE  StateInv'
<1>1. \A k \in Nodes : spentTxIDs'[k] = RebuildSpent(chain'[k])
  BY DEF ChainInv
<1>2. \A k \in Nodes : /\ balances'[k] = RebuildBalances(chain'[k])
                       /\ lastNonceMap'[k] = RebuildNonces(chain'[k])
                       /\ history'[k] = RebuildHistory(chain'[k])
  BY DEF StateInv, StateMatchesChain, ChainInv, TypeOK
<1>3. /\ balances' = [k \in Nodes |-> balances'[k]]
      /\ lastNonceMap' = [k \in Nodes |-> lastNonceMap'[k]]
      /\ history' = [k \in Nodes |-> history'[k]]
  BY DEF StateInv
<1> QED
  BY <1>1, <1>2, <1>3 DEF StateInv, StateMatchesChain

\* applyBlockState for block b on the chain of n, which is then d.
LEMMA StateApplied ==
  ASSUME StateInv, ChainInv', NEW n \in Nodes, NEW b, applyBlockState(n, b),
         chain' = [chain EXCEPT ![n] = Append(chain[n], b)]
  PROVE  StateInv'
<1>1. chain[n] \in Seq(ToSet(chain[n]) \cup {b}) /\ b \in ToSet(chain[n]) \cup {b}
  <2>1. Linked(chain[n])
    BY HeldChain DEF StateInv
  <2> QED
    BY <2>1, LinkedType
<1>2. /\ RebuildBalances(Append(chain[n], b)) = ApplyBalances(balances[n], b)
      /\ RebuildNonces(Append(chain[n], b)) = ApplyNonces(lastNonceMap[n], b)
      /\ RebuildHistory(Append(chain[n], b)) = ApplyHistory(history[n], b)
  BY <1>1, RebuildAppend DEF StateInv, StateMatchesChain
<1>3. /\ balances' = [balances EXCEPT ![n] = ApplyBalances(balances[n], b)]
      /\ lastNonceMap' = [lastNonceMap EXCEPT ![n] = ApplyNonces(lastNonceMap[n], b)]
      /\ history' = [history EXCEPT ![n] = ApplyHistory(history[n], b)]
  BY DEF applyBlockState, StateInv
<1> QED
  BY <1>2, <1>3, StateStep

\* rebuildState, at a restart.
LEMMA StateConstructed ==
  ASSUME StateInv, ChainInv', NEW n \in Nodes, NEW stored, construct(n, stored)
  PROVE  StateInv'
<1>1. PICK x : chain' = [chain EXCEPT ![n] = x] /\ rebuildState(n, x)
  BY DEF construct
<1> QED
  BY <1>1, StateStep DEF rebuildState

\* Steps that touch neither a chain nor an account.
LEMMA StateUntouched ==
  ASSUME StateInv, ChainInv', UNCHANGED <<chain, stateVars>>
  PROVE  StateInv'
  BY DEF StateInv, StateMatchesChain, stateVars

\* Every operation applies or rebuilds the state of the chain it leaves.
LEMMA StateInvNext == StateInv /\ [Next]_vars => StateInv'
<1> SUFFICES ASSUME StateInv, [Next]_vars PROVE StateInv'
  OBVIOUS
<1>0. ChainInv /\ ChainInv'
  BY ChainInvNext DEF StateInv
<1>1. ASSUME NEW n \in Nodes, NEW tx \in Txs, addTransaction(n, tx) PROVE StateInv'
  BY <1>0, <1>1, StateUntouched DEF addTransaction
<1>2. ASSUME NEW n \in Nodes, NEW miner \in Accounts, minePendingTransactions(n, miner)
      PROVE  StateInv'
  BY <1>0, <1>2, StateApplied DEF minePendingTransactions
<1>3. ASSUME NEW n \in Nodes, NEW c \in published, acceptBlock(n, Last(c))
      PROVE  StateInv'
  <2>1. chain' = [chain EXCEPT ![n] = Append(chain[n], Last(c))]
    BY <1>0, <1>3 DEF acceptBlock, ChainInv, TypeOK
  <2> QED
    BY <1>0, <1>3, <2>1, StateApplied DEF acceptBlock
<1>4. ASSUME NEW n \in Nodes, NEW c \in published, replaceChain(n, c) PROVE StateInv'
  BY <1>0, <1>4, StateStep DEF replaceChain, rebuildState
<1>5. ASSUME NEW n \in Nodes, CrashRestart(n) PROVE StateInv'
  BY <1>0, <1>5, StateConstructed DEF CrashRestart
<1>6. ASSUME NEW n \in Nodes, GracefulRestart(n) PROVE StateInv'
  BY <1>0, <1>6, StateConstructed DEF GracefulRestart
<1>7. CASE Tick
  BY <1>0, <1>7, StateUntouched DEF Tick
<1>8. CASE UNCHANGED vars
  BY <1>0, <1>8, StateUntouched DEF vars
<1> QED
  BY <1>1, <1>2, <1>3, <1>4, <1>5, <1>6, <1>7, <1>8 DEF Next

-----------------------------------------------------------------------------
(* What the nonces and the histories of a chain are *)

\* A bounded set of natural numbers has a greatest member.
LEMMA BoundedMax ==
  ASSUME NEW S, S \subseteq Nat, S # {}, NEW k \in Nat, \A y \in S : y <= k
  PROVE  Max(S) \in S /\ Max(S) \in Nat /\ \A y \in S : y <= Max(S)
<1> DEFINE T == {m \in Nat : \A y \in S : y <= m}
<1>1. k \in T /\ T \subseteq Nat
  OBVIOUS
<1>2. PICK m \in T : \A j \in T : m <= j
  BY <1>1, LeastNat
<1>3. m \in S
  <2> SUFFICES ASSUME m \notin S PROVE FALSE
    OBVIOUS
  <2>1. PICK y \in S : y \in Nat /\ y <= m /\ y # m
    OBVIOUS
  <2>2. m - 1 \in Nat
    BY <2>1
  <2>3. \A z \in S : z <= m - 1
    <3> TAKE z \in S
    <3>1. z \in Nat /\ z <= m /\ z # m
      OBVIOUS
    <3> QED
      BY <3>1
  <2>4. m - 1 \in T
    BY <2>2, <2>3
  <2> QED
    BY <1>2, <2>2, <2>4
<1>4. \E x \in S : \A y \in S : x >= y
  <2>1. \A y \in S : m >= y
    OBVIOUS
  <2> QED
    BY <1>3, <2>1
<1>5. Max(S) \in S /\ \A y \in S : Max(S) >= y
  BY <1>4 DEF Max
<1>6. Max(S) \in Nat
  BY <1>5
<1> QED
  BY <1>5, <1>6

\* The nonces in a sequence of transactions are bounded.
LEMMA NonceBound ==
  ASSUME NEW T, NEW s \in Seq(T), \A tx \in T : tx.nonce \in Nat
  PROVE  \E k \in Nat : \A i \in 1..Len(s) : s[i].nonce <= k
<1>1. PICK l \in Nat : l = Len(s)
  OBVIOUS
<1>2. \A i \in 1..l : s[i].nonce \in Nat
  <2>1. \A i \in 1..l : s[i] \in T
    BY <1>1
  <2> QED
    BY <2>1
<1> DEFINE Bounded(n) == \E k \in Nat : \A i \in 1..n : s[i].nonce <= k
           Bad == {n \in 0..l : ~Bounded(n)}
<1>3. Bounded(0)
  <2>1. \A i \in 1..0 : s[i].nonce <= 0
    OBVIOUS
  <2> QED
    BY <2>1
<1>4. ASSUME NEW n \in 1..l, Bounded(n - 1) PROVE Bounded(n)
  <2>1. PICK k \in Nat : \A i \in 1..(n - 1) : s[i].nonce <= k
    BY <1>4
  <2>2. PICK m \in Nat : m = s[n].nonce
    BY <1>2
  <2>3. ASSUME NEW i \in 1..n PROVE s[i].nonce <= k + m
    <3>1. i \in 1..(n - 1) \/ i = n
      OBVIOUS
    <3>2. i \in 1..l
      OBVIOUS
    <3>3. PICK x \in Nat : x = s[i].nonce
      BY <1>2, <3>2
    <3>4. x <= k \/ x = m
      BY <2>1, <2>2, <3>1, <3>3
    <3> QED
      BY <3>3, <3>4
  <2>4. k + m \in Nat
    OBVIOUS
  <2> QED
    BY <2>3, <2>4
<1> HIDE DEF Bounded
<1>5. Bad = {}
  <2> SUFFICES ASSUME Bad # {} PROVE FALSE
    OBVIOUS
  <2>1. PICK n \in Bad : \A j \in Bad : n <= j
    <3>1. Bad \subseteq Nat
      OBVIOUS
    <3> QED
      BY <3>1, LeastNat
  <2>2. n \in 1..l /\ n - 1 \in 0..l /\ ~(n <= n - 1)
    BY <1>3
  <2> QED
    BY <1>4, <2>1, <2>2
<1>6. Bounded(l)
  BY <1>5
<1> QED
  BY <1>1, <1>6 DEF Bounded

LEMMA TxTypes ==
  ASSUME NEW tx \in TxType
  PROVE  /\ tx.nonce \in Nat /\ (tx.to \in Addresses \/ tx.to = NoAddress)
         /\ ~isCoinbase(tx) => tx.from \in Addresses /\ tx \in Txs
BY TxsAssumption DEF TxType, isCoinbase, Addresses

\* The greatest of a nonce and the nonces of some of the transactions.
LEMMA NonceMax ==
  ASSUME NEW x \in Nat, NEW s \in Seq(TxType), NEW A, A \subseteq ToSet(s)
  PROVE  LET M == {x} \cup {tx.nonce : tx \in A}
         IN  Max(M) \in M /\ Max(M) \in Nat /\ \A y \in M : y <= Max(M)
<1> DEFINE M == {x} \cup {tx.nonce : tx \in A}
<1>1. \A tx \in TxType : tx.nonce \in Nat
  BY TxTypes
<1>2. PICK k \in Nat : \A i \in 1..Len(s) : s[i].nonce <= k
  BY <1>1, NonceBound
<1>3. \A tx \in A : tx \in TxType /\ tx.nonce <= k
  BY <1>2 DEF ToSet
<1>4. M \subseteq Nat /\ M # {}
  BY <1>1, <1>3
<1>5. \A y \in M : y <= k + x
  <2> TAKE y \in M
  <2>1. y \in Nat /\ (y = x \/ y <= k)
    BY <1>3, <1>4
  <2> QED
    BY <2>1
<1>6. k + x \in Nat
  OBVIOUS
<1> HIDE DEF M
<1>7. Max(M) \in M /\ Max(M) \in Nat /\ \A y \in M : y <= Max(M)
  BY <1>4, <1>5, <1>6, BoundedMax
<1> QED
  BY <1>7 DEF M

\* What one more block adds.
LEMMA OneMoreBlock ==
  ASSUME NEW S, NEW c \in Seq(S), NEW b \in S
  PROVE  /\ RebuildSpent(Append(c, b)) = RebuildSpent(c) \cup TxIDs(b)
         /\ TxsOf(Append(c, b)) = TxsOf(c) \cup ToSet(b.transactions)
<1> DEFINE d == Append(c, b)
           n == Len(c)
<1>1. /\ n \in Nat /\ DOMAIN c = 1..n /\ DOMAIN d = 1..(n + 1)
      /\ \A i \in 1..n : d[i] = c[i]
      /\ d[n + 1] = b
  OBVIOUS
<1> HIDE DEF d, n
<1>2. /\ \A i \in 1..(n + 1) : i \in 1..n \/ i = n + 1
      /\ \A i \in 1..n : i \in 1..(n + 1)
      /\ n + 1 \in 1..(n + 1)
  BY <1>1
<1>3. RebuildSpent(d) = RebuildSpent(c) \cup TxIDs(b)
  <2>1. \A x : x \in RebuildSpent(d) <=> \E i \in 1..(n + 1) : x \in TxIDs(d[i])
    BY <1>1 DEF RebuildSpent
  <2>2. \A x : x \in RebuildSpent(c) <=> \E i \in 1..n : x \in TxIDs(c[i])
    BY <1>1 DEF RebuildSpent
  <2> QED
    BY <1>1, <1>2, <2>1, <2>2
<1>4. TxsOf(d) = TxsOf(c) \cup ToSet(b.transactions)
  <2>1. \A x : x \in TxsOf(d) <=> \E i \in 1..(n + 1) : x \in ToSet(d[i].transactions)
    BY <1>1 DEF TxsOf
  <2>2. \A x : x \in TxsOf(c) <=> \E i \in 1..n : x \in ToSet(c[i].transactions)
    BY <1>1 DEF TxsOf
  <2> QED
    BY <1>1, <1>2, <2>1, <2>2
<1> QED
  BY <1>3, <1>4 DEF d

LEMMA NoBlocks == RebuildSpent(<<>>) = {} /\ TxsOf(<<>>) = {}
BY DEF RebuildSpent, TxsOf

\* One block keeps what NoncesHold promises.
LEMMA NoncesStep ==
  ASSUME NEW S, NEW c \in Seq(S), NEW b \in S, b.transactions \in Seq(TxType),
         NEW base, NEW x, NoncesHold(base, c, x)
  PROVE  NoncesHold(base, Append(c, b), ApplyNonces(x, b))
<1> DEFINE y == ApplyNonces(x, b)
           Of(a) == {t \in TxIDs(b) : t.from = a}
           M(a) == {x[a]} \cup {tx.nonce : tx \in Of(a)}
<1>1. /\ x \in [Addresses -> Nat]
      /\ \A tx \in RebuildSpent(c) : tx.from \in Addresses /\ tx.nonce \in 0..x[tx.from]
      /\ \A a \in Addresses :
           x[a] = 0 \/ \E tx \in RebuildSpent(c) : tx.from = a /\ tx.nonce = x[a]
  BY DEF NoncesHold
<1>2. RebuildSpent(Append(c, b)) = RebuildSpent(c) \cup TxIDs(b)
  BY OneMoreBlock
<1>3. ASSUME NEW a \in Addresses
      PROVE  Max(M(a)) \in M(a) /\ Max(M(a)) \in Nat /\ \A k \in M(a) : k <= Max(M(a))
  <2>1. x[a] \in Nat /\ Of(a) \subseteq ToSet(b.transactions)
    BY <1>1 DEF TxIDs
  <2> QED
    BY <2>1, NonceMax
<1>4. y = [a \in Addresses |-> Max(M(a))]
  BY DEF ApplyNonces
<1>5. ASSUME NEW tx \in TxIDs(b) PROVE tx.from \in Addresses /\ tx.nonce \in Nat
  BY TxTypes DEF TxIDs, ToSet
<1> HIDE DEF y
<1>6. y \in [Addresses -> Nat] /\ \A a \in Addresses : y[a] = Max(M(a))
  BY <1>3, <1>4
<1>7. \A a \in Addresses : x[a] <= y[a] /\ \A tx \in Of(a) : tx.nonce <= y[a]
  <2> TAKE a \in Addresses
  <2>1. x[a] \in M(a) /\ \A tx \in Of(a) : tx.nonce \in M(a)
    OBVIOUS
  <2> HIDE DEF M
  <2> QED
    BY <1>3, <1>6, <2>1
<1>8. \A a \in Addresses : y[a] = x[a] \/ \E tx \in Of(a) : y[a] = tx.nonce
  BY <1>3, <1>6
<1> HIDE DEF M
<1>9. ASSUME NEW tx \in RebuildSpent(c) \cup TxIDs(b)
      PROVE  tx.from \in Addresses /\ tx.nonce \in 0..y[tx.from]
  <2>1. CASE tx \in TxIDs(b)
    <3>1. tx \in Of(tx.from) /\ tx.from \in Addresses
      BY <1>5, <2>1
    <3> HIDE DEF Of
    <3>2. y[tx.from] \in Nat /\ tx.nonce \in Nat
      BY <1>5, <1>6, <2>1, <3>1
    <3> QED
      BY <1>7, <3>1, <3>2
  <2>2. CASE tx \in RebuildSpent(c)
    <3>1. PICK k \in Nat : k = x[tx.from]
      BY <1>1, <2>2
    <3>2. PICK l \in Nat : l = y[tx.from]
      BY <1>1, <1>6, <2>2
    <3>3. PICK a \in Addresses : a = tx.from /\ tx.nonce \in 0..k
      BY <1>1, <2>2, <3>1
    <3>4. k <= l
      BY <1>7, <3>1, <3>2, <3>3
    <3> QED
      BY <3>2, <3>3, <3>4
  <2> QED
    BY <2>1, <2>2
<1>10. ASSUME NEW a \in Addresses
       PROVE  y[a] = 0 \/ \E tx \in RebuildSpent(c) \cup TxIDs(b) : tx.from = a /\ tx.nonce = y[a]
  BY <1>1, <1>8
<1> QED
  BY <1>2, <1>6, <1>9, <1>10 DEF NoncesHold, y

\* What rebuildState computes as the last nonces.
LEMMA NoncesOf ==
  ASSUME NEW c, Linked(c)
  PROVE  NoncesHold(NoNonces, c, RebuildNonces(c))
<1> DEFINE Items == ToSet(c)
<1>1. c \in Seq(Items) /\ DOMAIN c = 1..Len(c)
  BY LinkedType
<1>2. \A b \in Items : b.transactions \in Seq(TxType)
  BY <1>1 DEF Linked, ToSet
<1> HIDE DEF Items
<1>3. NoncesHold(NoNonces, <<>>, NoNonces)
  BY NoBlocks DEF NoncesHold, NoNonces
<1>4. ASSUME NEW d \in Seq(Items), NEW b \in Items,
             NoncesHold(NoNonces, d, NonceFold!Fold(NoNonces, d))
      PROVE  NoncesHold(NoNonces, Append(d, b), ApplyNonces(NonceFold!Fold(NoNonces, d), b))
  BY <1>2, <1>4, NoncesStep
<1>5. NoncesHold(NoNonces, c, NonceFold!Fold(NoNonces, c))
  BY <1>1, <1>3, <1>4, NonceFold!FoldInduction
<1> QED
  BY <1>5, FoldsAreRebuilds

\* One more entry in a history is the transaction that is recorded.
LEMMA RecordStep ==
  ASSUME NEW txs \in Seq(TxType), NEW tx \in TxType, NEW base \in Histories,
         NEW x, RecordsHold(base, txs, x)
  PROVE  RecordsHold(base, Append(txs, tx), Record(x, tx))
<1>1. /\ x \in Histories
      /\ \A a \in Addresses : ToSet(x[a]) \subseteq ToSet(base[a]) \cup ToSet(txs)
  BY DEF RecordsHold
<1>2. ToSet(Append(txs, tx)) = ToSet(txs) \cup {tx}
  BY AppendSet
<1>3. /\ tx.to \in Addresses \/ tx.to = NoAddress
      /\ ~isCoinbase(tx) => tx.from \in Addresses
      /\ NoAddress \notin Addresses
  BY TxTypes, AccountsAssumption DEF Addresses, NoAddress, GENESIS
<1> DEFINE y == IF tx.to = NoAddress THEN x ELSE [x EXCEPT ![tx.to] = Append(@, tx)]
           z == [y EXCEPT ![tx.from] = Append(@, tx)]
<1>4. y \in Histories /\ \A a \in Addresses : ToSet(y[a]) \subseteq ToSet(x[a]) \cup {tx}
  <2>1. \A a \in Addresses :
          x[a] \in Seq(TxType) /\ y[a] = IF a = tx.to THEN Append(x[a], tx) ELSE x[a]
    BY <1>1, <1>3 DEF Histories
  <2>2. \A a \in Addresses :
          /\ Append(x[a], tx) \in Seq(TxType)
          /\ ToSet(Append(x[a], tx)) = ToSet(x[a]) \cup {tx}
    BY <2>1, AppendSet
  <2>3. y = [a \in Addresses |-> y[a]]
    BY <1>1 DEF Histories
  <2> HIDE DEF y
  <2> QED
    BY <2>1, <2>2, <2>3 DEF Histories
<1> HIDE DEF y
<1>5. ASSUME ~isCoinbase(tx)
      PROVE  z \in Histories /\ \A a \in Addresses : ToSet(z[a]) \subseteq ToSet(y[a]) \cup {tx}
  <2>1. \A a \in Addresses :
          y[a] \in Seq(TxType) /\ z[a] = IF a = tx.from THEN Append(y[a], tx) ELSE y[a]
    BY <1>3, <1>4, <1>5 DEF Histories
  <2>2. \A a \in Addresses :
          /\ Append(y[a], tx) \in Seq(TxType)
          /\ ToSet(Append(y[a], tx)) = ToSet(y[a]) \cup {tx}
    BY <2>1, AppendSet
  <2>3. z = [a \in Addresses |-> z[a]]
    BY <1>4 DEF Histories
  <2> HIDE DEF z
  <2> QED
    BY <2>1, <2>2, <2>3 DEF Histories
<1>6. Record(x, tx) = IF isCoinbase(tx) THEN y ELSE z
  BY DEF Record, y
<1> HIDE DEF z
<1>7. /\ Record(x, tx) \in Histories
      /\ \A a \in Addresses : ToSet(Record(x, tx)[a]) \subseteq ToSet(x[a]) \cup {tx}
  <2>1. CASE isCoinbase(tx)
    BY <1>4, <1>6, <2>1
  <2>2. CASE ~isCoinbase(tx)
    <3>1. \A a \in Addresses : ToSet(z[a]) \subseteq ToSet(x[a]) \cup {tx}
      BY <1>4, <1>5, <2>2
    <3> QED
      BY <1>5, <1>6, <2>2, <3>1
  <2> QED
    BY <2>1, <2>2
<1> QED
  BY <1>1, <1>2, <1>7 DEF RecordsHold

\* A block adds its transactions to the histories and nothing else.
LEMMA HistoryStep ==
  ASSUME NEW x \in Histories, NEW b, b.transactions \in Seq(TxType)
  PROVE  /\ ApplyHistory(x, b) \in Histories
         /\ \A a \in Addresses :
              ToSet(ApplyHistory(x, b)[a]) \subseteq ToSet(x[a]) \cup ToSet(b.transactions)
<1>1. ApplyHistory(x, b) = RecordFold!Fold(x, b.transactions)
  BY DEF ApplyHistory, FoldLeft, MapThenFoldSet, Max, RecordFold!Fold,
     RecordFold!MapThenFoldSet, RecordFold!Max
<1>2. RecordsHold(x, <<>>, x)
  BY DEF RecordsHold
<1>3. ASSUME NEW txs \in Seq(TxType), NEW tx \in TxType,
             RecordsHold(x, txs, RecordFold!Fold(x, txs))
      PROVE  RecordsHold(x, Append(txs, tx), Record(RecordFold!Fold(x, txs), tx))
  BY <1>3, RecordStep
<1>4. \A txs \in Seq(TxType) : RecordsHold(x, txs, RecordFold!Fold(x, txs))
  BY <1>2, <1>3, RecordFold!FoldInduction
<1>5. RecordsHold(x, b.transactions, ApplyHistory(x, b))
  BY <1>1, <1>4
<1> QED
  BY <1>5 DEF RecordsHold

\* What rebuildState computes as the histories.
LEMMA HistoryOf ==
  ASSUME NEW c, Linked(c)
  PROVE  HistoryHolds(NoHistory, c, RebuildHistory(c))
<1> DEFINE Items == ToSet(c)
<1>1. c \in Seq(Items) /\ DOMAIN c = 1..Len(c)
  BY LinkedType
<1>2. \A b \in Items : b.transactions \in Seq(TxType)
  BY <1>1 DEF Linked, ToSet
<1> HIDE DEF Items
<1>3. HistoryHolds(NoHistory, <<>>, NoHistory)
  <2>1. <<>> \in Seq(TxType) /\ ToSet(<<>>) = {}
    BY DEF ToSet
  <2> QED
    BY <2>1 DEF HistoryHolds, NoHistory, Histories
<1>4. ASSUME NEW d \in Seq(Items), NEW b \in Items, NEW x, HistoryHolds(NoHistory, d, x)
      PROVE  HistoryHolds(NoHistory, Append(d, b), ApplyHistory(x, b))
  <2>1. x \in Histories /\ \A a \in Addresses : ToSet(x[a]) \subseteq TxsOf(d)
    BY <1>4 DEF HistoryHolds
  <2>2. /\ ApplyHistory(x, b) \in Histories
        /\ \A a \in Addresses :
             ToSet(ApplyHistory(x, b)[a]) \subseteq ToSet(x[a]) \cup ToSet(b.transactions)
    BY <1>2, <2>1, HistoryStep
  <2>3. TxsOf(Append(d, b)) = TxsOf(d) \cup ToSet(b.transactions)
    BY OneMoreBlock
  <2> QED
    BY <2>1, <2>2, <2>3 DEF HistoryHolds
<1>5. HistoryHolds(NoHistory, c, HistoryFold!Fold(NoHistory, c))
  BY <1>1, <1>3, <1>4, HistoryFold!FoldInduction
<1> QED
  BY <1>5, FoldsAreRebuilds

\* A chain that grew has confirmed no less.
LEMMA PrefixHasLess ==
  ASSUME NEW c, NEW d, Linked(c), Linked(d), IsPrefix(c, d)
  PROVE  /\ RebuildSpent(c) \subseteq RebuildSpent(d) /\ TxsOf(c) \subseteq TxsOf(d)
         /\ \A a \in Addresses : RebuildNonces(c)[a] <= RebuildNonces(d)[a]
<1>1. PICK m \in Nat : m = Len(c)
  BY LinkedType
<1>2. PICK n \in Nat : n = Len(d)
  BY LinkedType
<1>3. DOMAIN c = 1..m /\ DOMAIN d = 1..n /\ m <= n
  BY <1>1, <1>2, LinkedType DEF IsPrefix
<1>4. \A i \in 1..m : c[i] = d[i]
  <2>1. SubSeq(c, 1, m) = SubSeq(d, 1, m)
    BY <1>1 DEF IsPrefix
  <2>2. c \in Seq(ToSet(c)) /\ d \in Seq(ToSet(d))
    BY LinkedType
  <2>3. ASSUME NEW i \in 1..m PROVE c[i] = SubSeq(c, 1, m)[i] /\ d[i] = SubSeq(d, 1, m)[i]
    BY <1>1, <1>2, <1>3, <2>2
  <2> QED
    BY <2>1, <2>3
<1>5. \A i \in 1..m : i \in 1..n
  BY <1>3
<1>6. RebuildSpent(c) \subseteq RebuildSpent(d)
  <2>1. \A x : x \in RebuildSpent(c) <=> \E i \in 1..m : x \in TxIDs(c[i])
    BY <1>3 DEF RebuildSpent
  <2>2. \A x : x \in RebuildSpent(d) <=> \E i \in 1..n : x \in TxIDs(d[i])
    BY <1>3 DEF RebuildSpent
  <2> QED
    BY <1>4, <1>5, <2>1, <2>2
<1>7. TxsOf(c) \subseteq TxsOf(d)
  <2>1. \A x : x \in TxsOf(c) <=> \E i \in 1..m : x \in ToSet(c[i].transactions)
    BY <1>3 DEF TxsOf
  <2>2. \A x : x \in TxsOf(d) <=> \E i \in 1..n : x \in ToSet(d[i].transactions)
    BY <1>3 DEF TxsOf
  <2> QED
    BY <1>4, <1>5, <2>1, <2>2
<1>8. ASSUME NEW a \in Addresses PROVE RebuildNonces(c)[a] <= RebuildNonces(d)[a]
  <2>1. PICK k \in Nat : k = RebuildNonces(c)[a]
    BY NoncesOf DEF NoncesHold
  <2>2. PICK l \in Nat : l = RebuildNonces(d)[a]
    BY NoncesOf DEF NoncesHold
  <2>3. CASE k = 0
    BY <2>1, <2>2, <2>3
  <2>4. CASE k # 0
    <3>1. PICK tx \in RebuildSpent(c) : tx.from = a /\ tx.nonce = k
      BY <2>1, <2>4, NoncesOf DEF NoncesHold
    <3>2. tx.nonce \in 0..l
      BY <1>6, <2>2, <3>1, NoncesOf DEF NoncesHold
    <3> QED
      BY <2>1, <2>2, <3>1, <3>2
  <2> QED
    BY <2>3, <2>4
<1> QED
  BY <1>6, <1>7, <1>8

\* While node n runs, whatever it and the others do, its chain gets no shorter and
\* what it has pending stays pending or is confirmed.
Running ==
  \/ \E n \in Nodes, tx \in Txs : addTransaction(n, tx)
  \/ \E n \in Nodes, miner \in Accounts : minePendingTransactions(n, miner)
  \/ \E n \in Nodes, c \in published : acceptBlock(n, Last(c))
  \/ \E n \in Nodes, c \in published : replaceChain(n, c)
  \/ UNCHANGED vars

Grows(n) ==
  /\ Len(chain[n]) <= Len(chain'[n])
  /\ ToSet(mempool[n]) \subseteq ToSet(mempool'[n]) \cup spentTxIDs'[n]

LEMMA AppendIsLonger ==
  ASSUME NEW c, Linked(c), NEW b
  PROVE  Len(c) <= Len(Append(c, b)) /\ IsPrefix(c, Append(c, b)) /\ IsPrefix(c, c)
<1>1. c \in Seq(ToSet(c) \cup {b}) /\ b \in ToSet(c) \cup {b}
  BY LinkedType
<1>2. PICK n \in Nat : n = Len(c)
  BY <1>1
<1>3. Len(Append(c, b)) = n + 1 /\ \A i \in 1..n : Append(c, b)[i] = c[i]
  BY <1>1, <1>2
<1>4. SubSeq(c, 1, n) = SubSeq(Append(c, b), 1, n)
  BY <1>1, <1>2, <1>3
<1> QED
  BY <1>2, <1>3, <1>4 DEF IsPrefix

\* A step of node m changes only what belongs to m.
LEMMA OthersUntouched ==
  ASSUME ChainInv, ChainInv', NEW n \in Nodes, NEW m \in Nodes, NEW x, NEW y,
         chain' = [chain EXCEPT ![m] = x], mempool' = [mempool EXCEPT ![m] = y],
         m = n => /\ Len(chain[n]) <= Len(x)
                  /\ ToSet(mempool[n]) \subseteq ToSet(y) \cup RebuildSpent(x)
  PROVE  Grows(n)
<1>1. chain[n] \in Seq(ToSet(chain[n])) /\ Len(chain[n]) \in Nat
  BY HeldChain, LinkedType
<1>2. CASE m = n
  <2>1. chain'[n] = x /\ mempool'[n] = y /\ spentTxIDs'[n] = RebuildSpent(x)
    BY <1>2 DEF ChainInv, TypeOK
  <2> QED
    BY <1>2, <2>1 DEF Grows
<1>3. CASE m # n
  <2>1. chain'[n] = chain[n] /\ mempool'[n] = mempool[n]
    BY <1>3 DEF ChainInv, TypeOK
  <2> QED
    BY <1>1, <2>1 DEF Grows
<1> QED
  BY <1>2, <1>3

LEMMA RunningGrows ==
  ASSUME ChainInv, ChainInv', Running, NEW n \in Nodes
  PROVE  Grows(n)
<1>0. ASSUME NEW k \in Nodes
      PROVE  /\ Linked(chain[k]) /\ mempool[k] \in Seq(Txs) /\ Len(chain[k]) \in Nat
             /\ spentTxIDs[k] = RebuildSpent(chain[k])
  BY HeldChain, LinkedType DEF ChainInv
<1>1. ASSUME NEW m \in Nodes, NEW tx \in Txs, addTransaction(m, tx) PROVE Grows(n)
  <2>1. /\ chain' = [chain EXCEPT ![m] = chain[m]]
        /\ mempool' = [mempool EXCEPT ![m] = Append(mempool[m], tx)]
    BY <1>1 DEF addTransaction, ChainInv, TypeOK
  <2>2. ToSet(Append(mempool[m], tx)) = ToSet(mempool[m]) \cup {tx}
    BY <1>0, AppendSet
  <2>3. /\ Len(chain[m]) <= Len(chain[m])
        /\ ToSet(mempool[m]) \subseteq ToSet(Append(mempool[m], tx)) \cup RebuildSpent(chain[m])
    BY <1>0, <2>2
  <2> QED
    BY <2>1, <2>3, OthersUntouched
<1>2. ASSUME NEW m \in Nodes, NEW miner \in Accounts, minePendingTransactions(m, miner)
      PROVE  Grows(n)
  <2> DEFINE b == newBlock(m, miner)
             x == Append(chain[m], b)
             y == SubSeq(mempool[m], txCount(m) + 1, Len(mempool[m]))
  <2>1. chain' = [chain EXCEPT ![m] = x] /\ mempool' = [mempool EXCEPT ![m] = y]
    BY <1>2 DEF minePendingTransactions, ChainInv, TypeOK
  <2>2. Len(chain[m]) <= Len(x)
    BY <1>0, AppendIsLonger
  <2>3. RebuildSpent(x) = RebuildSpent(chain[m]) \cup TxIDs(b)
    <3>1. chain[m] \in Seq(ToSet(chain[m]) \cup {b}) /\ b \in ToSet(chain[m]) \cup {b}
      BY <1>0, LinkedType
    <3> HIDE DEF b
    <3> QED
      BY <3>1, OneMoreBlock
  <2>4. PICK l \in Nat : l = Len(mempool[m])
    BY <1>0
  <2>5. PICK k \in 0..l : k = txCount(m)
    BY <1>0, <2>4, TxCountType
  <2>6. /\ b.transactions \in Seq(TxType) /\ Len(b.transactions) = k + 1
        /\ \A p \in 1..(k + 1) : p # 1 => b.transactions[p] = mempool[m][p-1]
    BY <2>5, MinedBlock
  <2>7. y \in Seq(Txs) /\ Len(y) = l - k /\ \A i \in 1..Len(y) : y[i] = mempool[m][i+k]
    BY <1>0, <2>4, <2>5, TailFacts
  <2> HIDE DEF b, y
  <2>8. ASSUME NEW i \in 1..l PROVE mempool[m][i] \in ToSet(y) \cup TxIDs(b)
    <3>1. CASE i <= k
      <4>1. i + 1 \in 1..(k + 1) /\ i + 1 # 1 /\ (i + 1) - 1 = i
        BY <3>1
      <4>2. b.transactions[i + 1] = mempool[m][i]
        BY <2>6, <4>1
      <4>3. mempool[m][i] \in Txs /\ mempool[m][i] \in TxType
        BY <1>0, <2>4 DEF TxType
      <4>4. mempool[m][i] \in ToSet(b.transactions)
        BY <2>6, <4>1, <4>2 DEF ToSet
      <4> QED
        BY <4>3, <4>4, TxsAreTransfers DEF TxIDs
    <3>2. CASE i > k
      <4>1. i - k \in 1..(l - k) /\ (i - k) + k = i
        BY <3>2
      <4>2. y[i - k] = mempool[m][i] /\ i - k \in DOMAIN y
        BY <2>7, <4>1
      <4> QED
        BY <4>2 DEF ToSet
    <3> QED
      BY <3>1, <3>2
  <2>9. ToSet(mempool[m]) \subseteq ToSet(y) \cup RebuildSpent(x)
    <3>1. DOMAIN mempool[m] = 1..l
      BY <1>0, <2>4
    <3> QED
      BY <2>3, <2>8, <3>1 DEF ToSet
  <2> HIDE DEF x
  <2> QED
    BY <2>1, <2>2, <2>9, OthersUntouched
<1>3. ASSUME NEW m \in Nodes, NEW c \in published, acceptBlock(m, Last(c)) PROVE Grows(n)
  <2> DEFINE b == Last(c)
             x == Append(chain[m], b)
             y == EraseAll(mempool[m], ToSet(b.transactions))
  <2>1. chain' = [chain EXCEPT ![m] = x] /\ mempool' = [mempool EXCEPT ![m] = y]
    BY <1>3 DEF acceptBlock, ChainInv, TypeOK
  <2>2. Len(chain[m]) <= Len(x)
    BY <1>0, AppendIsLonger
  <2>3. RebuildSpent(x) = RebuildSpent(chain[m]) \cup TxIDs(b)
    <3>1. chain[m] \in Seq(ToSet(chain[m]) \cup {b}) /\ b \in ToSet(chain[m]) \cup {b}
      BY <1>0, LinkedType
    <3> HIDE DEF b
    <3> QED
      BY <3>1, OneMoreBlock
  <2>4. ToSet(mempool[m]) \subseteq ToSet(y) \cup ToSet(b.transactions)
    BY <1>0, EraseAllKeeps
  <2>5. ToSet(mempool[m]) \subseteq Txs
    BY <1>0 DEF ToSet
  <2>6. \A tx \in Txs : ~isCoinbase(tx)
    BY TxsAreTransfers DEF TxType
  <2> HIDE DEF b, x, y
  <2>7. ToSet(mempool[m]) \subseteq ToSet(y) \cup RebuildSpent(x)
    BY <2>3, <2>4, <2>5, <2>6 DEF TxIDs
  <2> QED
    BY <2>1, <2>2, <2>7, OthersUntouched
<1>4. ASSUME NEW m \in Nodes, NEW c \in published, replaceChain(m, c) PROVE Grows(n)
  <2> DEFINE y == EraseAll(mempool[m], RebuildSpent(c))
  <2>1. chain' = [chain EXCEPT ![m] = c] /\ mempool' = [mempool EXCEPT ![m] = y]
    BY <1>4 DEF replaceChain, ChainInv, TypeOK
  <2>2. Len(c) \in Nat /\ Len(chain[m]) <= Len(c)
    <3>1. Len(c) \in Nat
      BY LinkedType DEF ChainInv
    <3> QED
      BY <1>0, <1>4, <3>1 DEF replaceChain, preferable, shouldAcceptChain
  <2>3. ToSet(mempool[m]) \subseteq ToSet(y) \cup RebuildSpent(c)
    BY <1>0, EraseAllKeeps
  <2> HIDE DEF y
  <2> QED
    BY <2>1, <2>2, <2>3, OthersUntouched
<1>5. CASE UNCHANGED vars
  BY <1>0, <1>5 DEF vars, Grows
<1> QED
  BY <1>1, <1>2, <1>3, <1>4, <1>5 DEF Running

-----------------------------------------------------------------------------
(* Theorems *)

\* ChainInv holds for every number of nodes, every clock and every pattern of
\* failing writes of chain.json, crashes and restarts included.
THEOREM ChainInvariance == Spec => []ChainInv
BY ChainInvInit, ChainInvNext, PTL DEF Spec

\* Type correctness: a node never holds a chain that nobody made.
THEOREM TypeCorrect == Spec => []TypeOK
<1>1. ChainInv => TypeOK
  BY DEF ChainInv
<1> QED
  BY <1>1, ChainInvariance, PTL

\* No chain any node ever holds confirms a transfer twice, although validation
\* does not look for repeated transactions.
THEOREM NoDoubleConfirmation == Spec => []NoTxTwice
<1>1. ChainInv => NoTxTwice
  BY DEF ChainInv
<1> QED
  BY <1>1, ChainInvariance, PTL

\* The mempool never holds a confirmed or repeated transfer, after mining,
\* accepting a block or reorganising.
THEOREM MempoolStaysFresh == Spec => []MempoolFresh
<1>1. ChainInv => MempoolFresh
  BY DEF ChainInv
<1> QED
  BY <1>1, ChainInvariance, PTL

\* chain.json never mixes chains, whichever writes failed and whenever the
\* process ended.
THEOREM DiskStaysSegment == Spec => []DiskIsSegment
<1>1. ChainInv => DiskIsSegment
  BY DEF ChainInv
<1> QED
  BY <1>1, ChainInvariance, PTL

\* The state that StateManager keeps block by block is exactly the one rebuildState computes from
\* the node's chain, however the node came by it.
THEOREM StateStaysExact == Spec => []StateMatchesChain
<1>1. Spec => []StateInv
  BY StateInvInit, StateInvNext, PTL DEF Spec
<1>2. StateInv => StateMatchesChain
  BY DEF StateInv
<1> QED
  BY <1>1, <1>2, PTL

=============================================================================
