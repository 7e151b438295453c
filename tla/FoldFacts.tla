----------------------------- MODULE FoldFacts -----------------------------
(***************************************************************************)
(* What FoldLeft of the community modules computes, one member after the   *)
(* other, and induction along it.  The operator that is folded and what is *)
(* to be shown of the result are parameters of the module: a proof         *)
(* instantiates it.  And what the sum of a function over a finite set is.  *)
(***************************************************************************)
EXTENDS Integers, Sequences, TLAPS, FiniteSetTheorems

CONSTANTS
  Op(_, _),           \* what is folded
  Holds(_, _, _)      \* Holds(base, c, x): what folding c from base promises of
                      \* its result x

\* FoldLeft(Op, base, c) and the Max it uses: SequencesExt and FiniteSetsExt define more
\* than every instance should carry along.
Max(S) == CHOOSE x \in S : \A y \in S : x >= y

Fold(base, c) ==
  MapThenFoldSet(LAMBDA x, y : Op(y, x), base, LAMBDA i : c[i], LAMBDA S : Max(S), DOMAIN c)

\* A nonempty set of natural numbers has a least member.
LEMMA LeastNat ==
  ASSUME NEW T, T \subseteq Nat, T # {}
  PROVE  \E m \in T : \A k \in T : m <= k
<1>1. PICK m \in T : \A k \in T : ~ (<<k, m>> \in OpToRel(<, Nat))
  BY WFMin, NatLessThanWellFounded, Zenon
<1>2. \A k \in T : <<k, m>> \in Nat \X Nat
  OBVIOUS
<1>3. \A k \in T : ~ (k < m)
  <2> TAKE k \in T
  <2>1. <<k, m>>[1] = k /\ <<k, m>>[2] = m
    OBVIOUS
  <2> QED
    BY <1>1, <1>2, <2>1, Zenon DEF OpToRel
<1> QED
  BY <1>3

\* A nonempty set of positions has a last one.
LEMMA LastPosition ==
  ASSUME NEW n \in Nat, NEW s \in SUBSET (1..n), s # {}
  PROVE  Max(s) \in s /\ \A y \in s : y <= Max(s)
<1> DEFINE T == {m \in Nat : \A y \in s : y <= m}
<1>1. n \in T
  OBVIOUS
<1>2. PICK m \in T : \A k \in T : m <= k
  BY <1>1, LeastNat
<1>3. m \in s
  <2> SUFFICES ASSUME m \notin s PROVE FALSE
    OBVIOUS
  <2>0. PICK z \in s : TRUE
    OBVIOUS
  <2>1. m > 0
    BY <2>0, z \in 1..n, z <= m
  <2>2. \A y \in s : y <= m - 1
    OBVIOUS
  <2>3. m - 1 \in T
    BY <2>1, <2>2
  <2> QED
    BY <1>2, <2>3
<1>4. \E x \in s : \A y \in s : x >= y
  BY <1>3
<1> QED
  BY <1>4 DEF Max

-----------------------------------------------------------------------------
(* The recursive function in the definition of FoldLeft *)

Step(base, c, f, s) == IF s = {} THEN base ELSE Op(f[s \ {Max(s)}], c[Max(s)])

IsTable(base, c, f, n) == f = [s \in SUBSET (1..n) |-> Step(base, c, f, s)]

\* A table holds what its step computes.
LEMMA TableStep ==
  ASSUME NEW base, NEW c, NEW f, NEW n, IsTable(base, c, f, n), NEW s \in SUBSET (1..n)
  PROVE  f[s] = Step(base, c, f, s)
<1> DEFINE g == [t \in SUBSET (1..n) |-> Step(base, c, f, t)]
<1>1. f = g
  BY DEF IsTable
<1>2. g[s] = Step(base, c, f, s)
  OBVIOUS
<1> QED
  BY <1>1, <1>2, Zenon

\* There is such a table.
LEMMA TableExists ==
  ASSUME NEW base, NEW c, NEW n \in Nat
  PROVE  \E f : IsTable(base, c, f, n)
<1> DEFINE Bad == {k \in Nat : ~ \E f : IsTable(base, c, f, k)}
<1> SUFFICES ASSUME Bad # {} PROVE FALSE
  OBVIOUS
<1>1. PICK k \in Bad : \A j \in Bad : k <= j
  BY LeastNat
<1>2. CASE k = 0
  <2>1. IsTable(base, c, [s \in SUBSET (1..0) |-> base], 0)
    BY DEF IsTable, Step
  <2> QED
    BY <1>2, <2>1
<1>3. CASE k > 0
  <2>1. k - 1 \in Nat /\ k - 1 \notin Bad
    BY <1>1, <1>3
  <2>2. PICK g : IsTable(base, c, g, k - 1)
    BY <2>1
  <2> DEFINE f == [s \in SUBSET (1..k) |->
                     IF k \in s THEN Op(g[s \ {k}], c[k]) ELSE g[s]]
  <2>3. ASSUME NEW s \in SUBSET (1..k) PROVE f[s] = Step(base, c, f, s)
    <3>1. CASE s = {}
      <4>1. g[s] = base
        BY <2>1, <2>2, <3>1 DEF IsTable, Step
      <4> QED
        BY <3>1, <4>1 DEF Step
    <3>2. CASE s # {} /\ k \in s
      <4>1. Max(s) = k
        <5>1. Max(s) \in s /\ k <= Max(s)
          BY <3>2, LastPosition
        <5>2. Max(s) \in 1..k
          BY <5>1
        <5> QED
          BY <5>1, <5>2
      <4>2. s \ {k} \in SUBSET (1..k) /\ s \ {k} \in SUBSET (1..(k-1)) /\ k \notin s \ {k}
        BY <1>3
      <4>3. f[s \ {k}] = g[s \ {k}]
        BY <4>2
      <4> QED
        BY <3>2, <4>1, <4>3 DEF Step
    <3>3. CASE s # {} /\ k \notin s
      <4>1. s \in SUBSET (1..(k-1))
        BY <1>3, <3>3
      <4>2. g[s] = Op(g[s \ {Max(s)}], c[Max(s)])
        BY <2>2, <3>3, <4>1 DEF IsTable, Step
      <4>3. f[s \ {Max(s)}] = g[s \ {Max(s)}] /\ f[s] = g[s]
        BY <3>3
      <4> QED
        BY <3>3, <4>2, <4>3 DEF Step
    <3> QED
      BY <3>1, <3>2, <3>3
  <2>4. f = [s \in SUBSET (1..k) |-> Step(base, c, f, s)]
    BY <2>3
  <2> QED
    BY <2>4 DEF IsTable
<1> QED
  BY <1>2, <1>3

\* One more member changes nothing in the table of the others.
LEMMA TablesAgree ==
  ASSUME NEW base, NEW Items, NEW c \in Seq(Items), NEW b \in Items, NEW f, NEW g,
         IsTable(base, c, f, Len(c)), IsTable(base, Append(c, b), g, Len(c) + 1)
  PROVE  f[1..Len(c)] = g[1..Len(c)]
<1> DEFINE k == Len(c)
           m == k + 1
           d == Append(c, b)
           Bad == {j \in 0..k : \E s \in SUBSET (1..j) : f[s] # g[s]}
<1>0. k \in Nat /\ m = k + 1 /\ \A i \in 1..k : c[i] = d[i]
  OBVIOUS
<1> SUFFICES ASSUME Bad # {} PROVE FALSE
  <2>1. k \in 0..k /\ 1..k \in SUBSET (1..k)
    BY <1>0
  <2> QED
    BY <2>1
<1> HIDE DEF k, m, d
<1>1. PICK j \in Bad : \A i \in Bad : j <= i
  <2>1. Bad \subseteq Nat
    BY <1>0
  <2> QED
    BY <2>1, LeastNat
<1>2. PICK s \in SUBSET (1..j) : f[s] # g[s]
  BY <1>1
<1>3. s \in SUBSET (1..m) /\ s \in SUBSET (1..k)
  BY <1>0, <1>1
<1>4. f[s] = Step(base, c, f, s) /\ g[s] = Step(base, d, g, s)
  <2>1. IsTable(base, c, f, k) /\ IsTable(base, d, g, m)
    BY DEF k, m, d
  <2> QED
    BY <1>3, <2>1, TableStep
<1>5. s # {}
  BY <1>2, <1>4 DEF Step
<1> DEFINE x == Max(s)
<1>6. x \in s /\ \A y \in s : y <= x
  BY <1>0, <1>3, <1>5, LastPosition
<1>7. x \in 1..j /\ x \in 1..k
  BY <1>3, <1>6
<1>8. x - 1 \in 0..k /\ x - 1 < j /\ s \ {x} \in SUBSET (1..(x - 1))
  <2> HIDE DEF x
  <2>1. x - 1 \in 0..k /\ x - 1 < j
    BY <1>0, <1>7
  <2>2. \A y \in s \ {x} : y \in 1..(x - 1)
    BY <1>3, <1>6, <1>7
  <2> QED
    BY <2>1, <2>2
<1>9. f[s \ {x}] = g[s \ {x}]
  <2>1. x - 1 \notin Bad
    BY <1>1, <1>8
  <2> QED
    BY <2>1, <1>8
<1> QED
  BY <1>0, <1>2, <1>4, <1>5, <1>7, <1>9 DEF Step

\* FoldLeft reads its table at the end.
LEMMA FoldIs ==
  ASSUME NEW base, NEW Items, NEW c \in Seq(Items)
  PROVE  \E f : IsTable(base, c, f, Len(c)) /\ Fold(base, c) = f[1..Len(c)]
<1> DEFINE Table(g) == g = [s \in SUBSET DOMAIN c |-> Step(base, c, g, s)]
           f == CHOOSE g : Table(g)
<1>1. DOMAIN c = 1..Len(c) /\ Len(c) \in Nat
  OBVIOUS
<1>2. \A g : Table(g) <=> IsTable(base, c, g, Len(c))
  BY <1>1 DEF IsTable
<1>3. Fold(base, c) = f[DOMAIN c]
  BY DEF Fold, MapThenFoldSet, Step
<1>4. \E g : Table(g)
  BY <1>1, <1>2, TableExists
<1> HIDE DEF Table
<1>5. Table(f)
  BY <1>4
<1> HIDE DEF f
<1> QED
  BY <1>1, <1>2, <1>3, <1>5

-----------------------------------------------------------------------------
(* What users of FoldLeft need *)

\* Nothing is folded.
LEMMA FoldEmpty ==
  ASSUME NEW base
  PROVE  Fold(base, <<>>) = base
<1>1. <<>> \in Seq({}) /\ Len(<<>>) = 0
  OBVIOUS
<1>2. PICK f : IsTable(base, <<>>, f, 0) /\ Fold(base, <<>>) = f[1..0]
  BY <1>1, FoldIs
<1> QED
  BY <1>2 DEF IsTable, Step

\* The last member is folded last.
LEMMA FoldAppend ==
  ASSUME NEW base, NEW Items, NEW c \in Seq(Items), NEW b \in Items
  PROVE  Fold(base, Append(c, b)) = Op(Fold(base, c), b)
<1> DEFINE d == Append(c, b)
           n == Len(c)
<1>1. d \in Seq(Items) /\ n \in Nat /\ Len(d) = n + 1 /\ d[n + 1] = b /\ \A i \in 1..n : c[i] = d[i]
  OBVIOUS
<1> HIDE DEF d, n
<1>2. PICK f : IsTable(base, c, f, n) /\ Fold(base, c) = f[1..n]
  BY FoldIs DEF n
<1>3. PICK g : IsTable(base, d, g, n + 1) /\ Fold(base, d) = g[1..(n + 1)]
  BY <1>1, FoldIs
<1>4. f[1..n] = g[1..n]
  BY <1>2, <1>3, TablesAgree DEF d, n
<1>5. Max(1..(n+1)) = n + 1
  <2>1. n + 1 \in Nat /\ n + 1 \in 1..(n+1) /\ 1..(n+1) # {}
    BY <1>1
  <2>2. Max(1..(n+1)) \in 1..(n+1) /\ n + 1 <= Max(1..(n+1))
    BY <2>1, LastPosition
  <2> QED
    BY <1>1, <2>2
<1>6. (1..(n+1)) \ {n+1} = 1..n
  BY <1>1
<1>7. g[1..(n+1)] = Op(g[1..n], d[n+1])
  <2>1. 1..(n+1) \in SUBSET (1..(n+1)) /\ n + 1 \in 1..(n+1)
    BY <1>1
  <2>2. g[1..(n+1)] = Step(base, d, g, 1..(n+1))
    BY <1>3, <2>1, TableStep, Zenon
  <2> QED
    BY <1>5, <1>6, <2>1, <2>2 DEF Step
<1> QED
  BY <1>1, <1>2, <1>3, <1>4, <1>7 DEF d

\* Induction: what holds of nothing and is kept by every member holds of every
\* sequence.
LEMMA FoldInduction ==
  ASSUME NEW base, NEW Items, Holds(base, <<>>, base),
         \A c \in Seq(Items), b \in Items :
           Holds(base, c, Fold(base, c)) => Holds(base, Append(c, b), Op(Fold(base, c), b))
  PROVE  \A c \in Seq(Items) : Holds(base, c, Fold(base, c))
<1> DEFINE Bad == {n \in Nat : \E c \in Seq(Items) : Len(c) = n /\ ~Holds(base, c, Fold(base, c))}
<1> SUFFICES ASSUME Bad # {} PROVE FALSE
  OBVIOUS
<1>1. PICK n \in Bad : \A k \in Bad : n <= k
  BY LeastNat
<1>2. PICK c \in Seq(Items) : Len(c) = n /\ ~Holds(base, c, Fold(base, c))
  BY <1>1
<1>3. CASE n = 0
  BY <1>2, <1>3, FoldEmpty
<1>4. CASE n > 0
  <2> DEFINE d == SubSeq(c, 1, n - 1)
  <2>1. d \in Seq(Items) /\ Len(d) = n - 1 /\ c[n] \in Items /\ c = Append(d, c[n])
    BY <1>2, <1>4
  <2>2. n - 1 \in Nat /\ n - 1 \notin Bad
    BY <1>1, <1>4
  <2>3. Holds(base, d, Fold(base, d))
    BY <2>1, <2>2
  <2>4. Holds(base, c, Fold(base, c))
    <3>1. Holds(base, Append(d, c[n]), Op(Fold(base, d), c[n]))
      BY <2>1, <2>3
    <3>2. Fold(base, Append(d, c[n])) = Op(Fold(base, d), c[n])
      BY <2>1, FoldAppend
    <3> QED
      BY <2>1, <3>1, <3>2
  <2> QED
    BY <1>2, <2>4
<1> QED
  BY <1>1, <1>3, <1>4

-----------------------------------------------------------------------------
(* Sums *)

Sum(f, S) == FoldFunctionOnSet(+, 0, f, S)

\* One step of the recursion in Sum, and what its table satisfies on the sets in D.
Pick(s) == CHOOSE a \in s : TRUE
SumStep(f, g, s) == IF s = {} THEN 0 ELSE f[Pick(s)] + g[s \ {Pick(s)}]
IsSum(f, g, D) == g = [s \in D |-> SumStep(f, g, s)]
Small(S, n) == {s \in SUBSET S : Cardinality(s) <= n}

\* The subsets of a finite set, and taking one member out.
LEMMA FinitePart ==
  ASSUME NEW S, IsFiniteSet(S), NEW s \in SUBSET S
  PROVE  /\ IsFiniteSet(s) /\ Cardinality(s) \in Nat
         /\ s # {} => /\ Pick(s) \in s /\ s \ {Pick(s)} \in SUBSET S
                      /\ Cardinality(s) > 0
                      /\ Cardinality(s \ {Pick(s)}) = Cardinality(s) - 1
<1>1. IsFiniteSet(s) /\ Cardinality(s) \in Nat
  BY FS_Subset, FS_CardinalityType
<1>2. ASSUME s # {}
      PROVE  /\ Pick(s) \in s /\ Cardinality(s) > 0
             /\ Cardinality(s \ {Pick(s)}) = Cardinality(s) - 1
  <2>1. Pick(s) \in s
    BY <1>2 DEF Pick
  <2>2. Cardinality(s) # 0
    BY <1>1, <1>2, FS_EmptySet
  <2>3. Cardinality(s \ {Pick(s)}) = Cardinality(s) - 1
    BY <1>1, <2>1, FS_RemoveElement
  <2> QED
    BY <1>1, <2>1, <2>2, <2>3
<1> QED
  BY <1>1, <1>2

LEMMA SumExists ==
  ASSUME NEW S, IsFiniteSet(S), NEW f, NEW n \in Nat
  PROVE  \E g : IsSum(f, g, Small(S, n))
<1> DEFINE Bad == {k \in Nat : ~ \E g : IsSum(f, g, Small(S, k))}
<1> SUFFICES ASSUME Bad # {} PROVE FALSE
  OBVIOUS
<1>1. PICK k \in Bad : \A j \in Bad : k <= j
  BY LeastNat
<1>2. CASE k = 0
  <2>1. ASSUME NEW s \in Small(S, 0) PROVE s = {}
    <3>1. s \in SUBSET S /\ Cardinality(s) <= 0
      BY DEF Small
    <3>2. s # {} => Cardinality(s) > 0 /\ Cardinality(s) \in Nat
      BY <3>1, FinitePart
    <3> QED
      BY <3>1, <3>2
  <2>2. IsSum(f, [s \in Small(S, 0) |-> 0], Small(S, 0))
    BY <2>1 DEF IsSum, SumStep
  <2> QED
    BY <1>2, <2>2
<1>3. CASE k > 0
  <2>1. k - 1 \in Nat /\ k - 1 \notin Bad
    BY <1>1, <1>3
  <2>2. PICK h : IsSum(f, h, Small(S, k - 1))
    BY <2>1
  <2> DEFINE g == [s \in Small(S, k) |-> SumStep(f, h, s)]
  <2>3. ASSUME NEW s \in Small(S, k) PROVE g[s] = SumStep(f, g, s)
    <3>1. CASE s = {}
      BY <3>1 DEF SumStep
    <3>2. CASE s # {}
      <4>1. PICK t : t = s \ {Pick(s)}
        OBVIOUS
      <4>2. t \in Small(S, k) /\ t \in Small(S, k - 1)
        BY <3>2, <4>1, FinitePart DEF Small
      <4>3. g[t] = h[t]
        BY <2>2, <4>2 DEF IsSum
      <4>4. g[s] = f[Pick(s)] + h[t]
        BY <3>2, <4>1 DEF SumStep
      <4> HIDE DEF g
      <4> QED
        BY <3>2, <4>1, <4>3, <4>4 DEF SumStep
    <3> QED
      BY <3>1, <3>2
  <2>4. g = [s \in Small(S, k) |-> SumStep(f, g, s)]
    BY <2>3
  <2> QED
    BY <2>4 DEF IsSum
<1> QED
  BY <1>2, <1>3

\* A sum is read from its table at the whole set.
LEMMA SumIs ==
  ASSUME NEW S, IsFiniteSet(S), NEW f
  PROVE  \E g : IsSum(f, g, SUBSET S) /\ Sum(f, S) = g[S]
<1> DEFINE g == CHOOSE h : IsSum(f, h, SUBSET S)
<1>1. Sum(f, S) = g[S]
  BY Zenon DEF Sum, FoldFunctionOnSet, MapThenFoldSet, IsSum, SumStep, Pick
<1>2. \E h : IsSum(f, h, SUBSET S)
  <2>1. S \in SUBSET S
    OBVIOUS
  <2>2. PICK n \in Nat : n = Cardinality(S)
    BY <2>1, FinitePart
  <2>3. Small(S, n) = SUBSET S
    <3>1. \A s \in SUBSET S : Cardinality(s) <= n
      BY <2>2, FS_Subset
    <3> QED
      BY <3>1 DEF Small
  <2>4. \E h : IsSum(f, h, Small(S, n))
    BY SumExists
  <2> QED
    BY <2>3, <2>4, Zenon
<1>3. IsSum(f, g, SUBSET S)
  BY <1>2
<1> QED
  BY <1>1, <1>3

\* Changing one value changes the sum by as much.
LEMMA SumUpdate ==
  ASSUME NEW S, IsFiniteSet(S), NEW x \in [S -> Nat], NEW y \in [S -> Nat], NEW a \in S,
         \A c \in S \ {a} : y[c] = x[c]
  PROVE  /\ Sum(x, S) \in Nat /\ Sum(y, S) \in Nat
         /\ Sum(y, S) + x[a] = Sum(x, S) + y[a]
<1>1. PICK f : IsSum(x, f, SUBSET S) /\ Sum(x, S) = f[S]
  BY SumIs
<1>2. PICK g : IsSum(y, g, SUBSET S) /\ Sum(y, S) = g[S]
  BY SumIs
<1> DEFINE Good(s) == /\ f[s] \in Nat /\ g[s] \in Nat
                      /\ a \notin s => g[s] = f[s]
                      /\ a \in s => g[s] + x[a] = f[s] + y[a]
           Bad == {n \in Nat : \E s \in SUBSET S : Cardinality(s) = n /\ ~Good(s)}
<1>3. ASSUME Bad # {} PROVE FALSE
  <2>1. PICK n \in Bad : \A k \in Bad : n <= k
    BY <1>3, LeastNat
  <2>2. PICK s \in SUBSET S : Cardinality(s) = n /\ ~Good(s)
    BY <2>1
  <2>3. f[s] = SumStep(x, f, s) /\ g[s] = SumStep(y, g, s)
    BY <1>1, <1>2 DEF IsSum
  <2>4. s # {}
    BY <2>2, <2>3 DEF SumStep
  <2>5. PICK c \in S : c = Pick(s) /\ c \in s
    BY <2>4, FinitePart
  <2>6. PICK t \in SUBSET S : t = s \ {c} /\ Cardinality(t) = n - 1 /\ n > 0
    <3>1. /\ Cardinality(s) > 0 /\ Cardinality(s \ {Pick(s)}) = Cardinality(s) - 1
          /\ s \ {Pick(s)} \in SUBSET S
      BY <2>4, FinitePart
    <3> QED
      BY <2>2, <2>5, <3>1
  <2>7. n - 1 \in Nat /\ n - 1 \notin Bad
    BY <2>1, <2>6
  <2>8. Good(t)
    BY <2>6, <2>7
  <2>9. f[s] = x[c] + f[t] /\ g[s] = y[c] + g[t]
    BY <2>3, <2>4, <2>5, <2>6 DEF SumStep
  <2>10. x[c] \in Nat /\ y[c] \in Nat /\ x[a] \in Nat /\ y[a] \in Nat
    OBVIOUS
  <2>11. CASE c = a
    BY <2>2, <2>5, <2>6, <2>8, <2>9, <2>10, <2>11
  <2>12. CASE c # a
    <3>1. y[c] = x[c]
      BY <2>12
    <3>2. a \in s <=> a \in t
      BY <2>6, <2>12
    <3> QED
      BY <2>2, <2>8, <2>9, <2>10, <3>1, <3>2
  <2> QED
    BY <2>11, <2>12
<1>4. Good(S)
  <2>1. S \in SUBSET S /\ Cardinality(S) \in Nat
    BY FinitePart
  <2> HIDE DEF Good
  <2> QED
    BY <1>3, <2>1
<1> QED
  BY <1>1, <1>2, <1>4

\* The sum of nothing but zeros.
LEMMA SumOfZeros ==
  ASSUME NEW S, IsFiniteSet(S), NEW x, \A a \in S : x[a] = 0
  PROVE  Sum(x, S) = 0
<1>1. PICK f : IsSum(x, f, SUBSET S) /\ Sum(x, S) = f[S]
  BY SumIs
<1> DEFINE Bad == {n \in Nat : \E s \in SUBSET S : Cardinality(s) = n /\ f[s] # 0}
<1>2. ASSUME Bad # {} PROVE FALSE
  <2>1. PICK n \in Bad : \A k \in Bad : n <= k
    BY <1>2, LeastNat
  <2>2. PICK s \in SUBSET S : Cardinality(s) = n /\ f[s] # 0
    BY <2>1
  <2>3. f[s] = SumStep(x, f, s)
    BY <1>1 DEF IsSum
  <2>4. s # {}
    BY <2>2, <2>3 DEF SumStep
  <2>5. PICK c \in S : c = Pick(s) /\ c \in s
    BY <2>4, FinitePart
  <2>6. PICK t \in SUBSET S : t = s \ {c} /\ Cardinality(t) = n - 1 /\ n > 0
    <3>1. /\ Cardinality(s) > 0 /\ Cardinality(s \ {Pick(s)}) = Cardinality(s) - 1
          /\ s \ {Pick(s)} \in SUBSET S
      BY <2>4, FinitePart
    <3> QED
      BY <2>2, <2>5, <3>1
  <2>7. n - 1 \in Nat /\ n - 1 \notin Bad
    BY <2>1, <2>6
  <2>8. f[t] = 0
    BY <2>6, <2>7
  <2>9. f[s] = x[c] + f[t] /\ x[c] = 0
    BY <2>3, <2>4, <2>5, <2>6 DEF SumStep
  <2> QED
    BY <2>2, <2>8, <2>9
<1>3. f[S] = 0
  <2>1. S \in SUBSET S /\ Cardinality(S) \in Nat
    BY FinitePart
  <2> QED
    BY <1>2, <2>1
<1> QED
  BY <1>1, <1>3

\* A sum is no less than each of its terms.
LEMMA SumBounds ==
  ASSUME NEW S, IsFiniteSet(S), NEW x \in [S -> Nat], NEW a \in S
  PROVE  Sum(x, S) \in Nat /\ x[a] <= Sum(x, S)
<1>1. PICK y \in [S -> Nat] : y = [x EXCEPT ![a] = 0]
  OBVIOUS
<1>2. y[a] = 0 /\ \A c \in S \ {a} : y[c] = x[c]
  BY <1>1
<1>3. /\ Sum(x, S) \in Nat /\ Sum(y, S) \in Nat
      /\ Sum(y, S) + x[a] = Sum(x, S) + y[a]
  BY <1>2, SumUpdate
<1>4. x[a] \in Nat
  OBVIOUS
<1> QED
  BY <1>2, <1>3, <1>4

=============================================================================
