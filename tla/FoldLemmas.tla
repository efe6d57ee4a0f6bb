----------------------------- MODULE FoldLemmas -----------------------------
(***************************************************************************)
(* Lemmas about the folds of the community modules.  FoldLeft takes its    *)
(* value from a recursive function on the sets of places of a sequence;    *)
(* an operation that is folded is given here as a function of the place    *)
(* and of the value so far.                                                *)
(***************************************************************************)
EXTENDS Integers, FiniteSetsExt, SequencesExt, SequenceTheorems, WellFoundedInduction, TLAPS

\* it is the recursive function that a fold over n places takes its value from.
Accumulates(n, base, G, it) ==
    it = [s \in SUBSET (1..n) |->
             IF s = {} THEN base ELSE G[<<Max(s), it[s \ {Max(s)}]>>]]

\* A set of natural numbers that is not empty has a least one.
LEMMA LeastIndex ==
    ASSUME NEW T \in SUBSET Nat, T # {}
    PROVE  \E m \in T : \A k \in T : m <= k
<1>1. PICK m \in T : \A k \in T : ~ (<<k, m>> \in OpToRel(<, Nat))
  BY WFMin, NatLessThanWellFounded
<1>2. \A k \in T : ~ (k < m) /\ k \in Nat
  BY <1>1 DEF OpToRel
<1> QED BY <1>2

\* A set of places that is not empty has a last one.
LEMMA GreatestPlace ==
    ASSUME NEW n \in Nat, NEW s \in SUBSET (1..n), s # {}
    PROVE  /\ Max(s) \in s /\ Max(s) \in 1..n
           /\ \A k \in s : k <= Max(s)
           /\ s \ {Max(s)} \in SUBSET (1..(Max(s) - 1))
           /\ s \ {Max(s)} \in SUBSET (1..n)
<1> DEFINE T == {k \in Nat : \A j \in s : j <= k}
<1>1. n \in T
  OBVIOUS
<1>2. PICK m \in T : \A k \in T : m <= k
  BY <1>1, LeastIndex
<1>3. m \in s
  <2>1. SUFFICES ASSUME m \notin s PROVE FALSE
    OBVIOUS
  <2>2. \A j \in s : j <= m - 1
    BY <2>1
  <2>3. PICK j \in s : TRUE
    OBVIOUS
  <2>4. j \in 1..n /\ j <= m - 1 /\ m \in Nat
    BY <2>2, <2>3
  <2>5. m - 1 \in Nat
    BY <2>4
  <2>6. m - 1 \in T
    BY <2>2, <2>5
  <2> QED BY <1>2, <2>4, <2>6
<1>4. \E x \in s : \A y \in s : x >= y
  BY <1>3
<1>5. Max(s) \in s /\ \A y \in s : Max(s) >= y
  BY <1>4 DEF Max
<1>6. Max(s) \in 1..n /\ \A k \in s : k <= Max(s) /\ k \in 1..n
  BY <1>5
<1>7. s \ {Max(s)} \in SUBSET (1..(Max(s) - 1))
  <2>1. ASSUME NEW k \in s, k # Max(s)
        PROVE  k \in 1..(Max(s) - 1)
    <3>1. k \in 1..n /\ Max(s) \in 1..n /\ k <= Max(s)
      BY <1>6
    <3> QED BY <2>1, <3>1
  <2> QED BY <2>1
<1> QED BY <1>5, <1>6, <1>7

\* The recursive function exists and keeps to a set that is closed under the operation.
LEMMA FoldExists ==
    ASSUME NEW n \in Nat, NEW A, NEW base \in A, NEW G \in [(1..n) \X A -> A]
    PROVE  \E it \in [SUBSET (1..n) -> A] : Accumulates(n, base, G, it)
<1> DEFINE Has(k) == \E it \in [SUBSET (1..k) -> A] : Accumulates(k, base, G, it)
           T == {k \in Nat : k <= n /\ ~ Has(k)}
<1>1. SUFFICES ASSUME ~ Has(n) PROVE FALSE
  OBVIOUS
<1> HIDE DEF Has
<1>2. PICK m \in T : \A k \in T : m <= k
  <2>1. n \in T
    BY <1>1
  <2>2. T \in SUBSET Nat
    OBVIOUS
  <2> QED BY <2>1, <2>2, LeastIndex
<1>3. m \in Nat /\ m <= n /\ ~ Has(m)
  BY <1>2
<1> USE DEF Has
<1>4. CASE m = 0
  <2> DEFINE it == [s \in SUBSET (1..0) |-> base]
  <2>1. 1..0 = {} /\ it \in [SUBSET (1..0) -> A]
    OBVIOUS
  <2>2. \A s \in SUBSET (1..0) : s = {}
    BY <2>1
  <2>3. Accumulates(0, base, G, it)
    BY <2>2 DEF Accumulates
  <2> QED BY <1>3, <1>4, <2>1, <2>3
<1>5. CASE m # 0
  <2>1. m - 1 \in Nat /\ m - 1 <= n /\ ~ (m <= m - 1)
    BY <1>3, <1>5
  <2>2. Has(m - 1)
    BY <1>2, <2>1
  <2>3. PICK f \in [SUBSET (1..(m - 1)) -> A] : Accumulates(m - 1, base, G, f)
    BY <2>2
  <2> DEFINE Value(s) == IF s = {} THEN base ELSE G[<<Max(s), f[s \ {Max(s)}]>>]
             it == [s \in SUBSET (1..m) |-> Value(s)]
  <2>4. ASSUME NEW s \in SUBSET (1..m), s # {}
        PROVE  Max(s) \in 1..n /\ s \ {Max(s)} \in SUBSET (1..(m - 1))
    <3>1. Max(s) \in 1..m /\ s \ {Max(s)} \in SUBSET (1..(Max(s) - 1))
      BY <1>3, <2>4, GreatestPlace
    <3>2. 1..(Max(s) - 1) \in SUBSET (1..(m - 1)) /\ 1..m \in SUBSET (1..n)
      BY <1>3, <3>1
    <3> QED BY <3>1, <3>2
  <2>5. \A s \in SUBSET (1..m) : Value(s) \in A
    <3>1. TAKE s \in SUBSET (1..m)
    <3>2. CASE s = {}
      BY <3>2
    <3>3. CASE s # {}
      <4>1. <<Max(s), f[s \ {Max(s)}]>> \in (1..n) \X A
        BY <2>3, <2>4, <3>3
      <4> QED BY <3>3, <4>1
    <3> QED BY <3>2, <3>3
  <2>6. it \in [SUBSET (1..m) -> A]
    BY <2>5
  <2>7. \A s \in SUBSET (1..(m - 1)) : it[s] = f[s]
    <3>1. \A s \in SUBSET (1..(m - 1)) : s \in SUBSET (1..m)
      BY <1>3
    <3>2. \A s \in SUBSET (1..(m - 1)) : f[s] = Value(s)
      BY <2>3 DEF Accumulates
    <3> QED BY <3>1, <3>2
  <2>8. \A s \in SUBSET (1..m) :
            Value(s) = IF s = {} THEN base ELSE G[<<Max(s), it[s \ {Max(s)}]>>]
    BY <2>4, <2>7
  <2>9. Accumulates(m, base, G, it)
    BY <2>8 DEF Accumulates
  <2> QED BY <1>3, <2>6, <2>9
<1> QED BY <1>4, <1>5

\* The values on the way, one place after the other.
LEMMA FoldStep ==
    ASSUME NEW n \in Nat, NEW base, NEW G, NEW it, Accumulates(n, base, G, it)
    PROVE  /\ it[{}] = base /\ it[1..0] = base
           /\ \A k \in 1..n : it[1..k] = G[<<k, it[1..(k - 1)]>>]
<1>1. it[{}] = base /\ 1..0 = {}
  BY DEF Accumulates
<1>2. ASSUME NEW k \in 1..n PROVE it[1..k] = G[<<k, it[1..(k - 1)]>>]
  <2>1. 1..k \in SUBSET (1..n) /\ 1..k # {}
    OBVIOUS
  <2>2. Max(1..k) \in 1..k /\ \A j \in 1..k : j <= Max(1..k)
    BY <2>1, GreatestPlace
  <2>3. Max(1..k) = k
    BY <2>2
  <2>4. (1..k) \ {k} = 1..(k - 1)
    OBVIOUS
  <2> QED BY <2>1, <2>3, <2>4 DEF Accumulates
<1> QED BY <1>1, <1>2

\* What holds at the start and is kept by each place holds of the fold.
LEMMA FoldStays ==
    ASSUME NEW n \in Nat, NEW base, NEW G, NEW it, Accumulates(n, base, G, it),
           NEW A, base \in A,
           \A k \in 1..n : \A a \in A : a = it[1..(k - 1)] => G[<<k, a>>] \in A
    PROVE  \A k \in 0..n : it[1..k] \in A
<1> DEFINE T == {k \in Nat : k <= n /\ it[1..k] \notin A}
<1>1. SUFFICES ASSUME T # {} PROVE FALSE
  OBVIOUS
<1>2. PICK m \in T : \A k \in T : m <= k
  BY <1>1, LeastIndex
<1>3. m \in Nat /\ m <= n /\ it[1..m] \notin A
  BY <1>2
<1>4. m # 0
  BY <1>3, FoldStep
<1>5. m \in 1..n /\ m - 1 \in Nat /\ m - 1 <= n /\ ~ (m <= m - 1)
  BY <1>3, <1>4
<1>6. it[1..(m - 1)] \in A
  BY <1>2, <1>5
<1>7. it[1..m] = G[<<m, it[1..(m - 1)]>>]
  BY <1>5, FoldStep
<1> QED BY <1>3, <1>5, <1>6, <1>7

-----------------------------------------------------------------------------
(* Flattened sequences *)

\* The equation of the recursive function that FlattenSeq takes its value from.
Flat(ss, n, f) == [i \in 1..n |-> IF i = 1 THEN ss[i] ELSE f[i - 1] \o ss[i]]

\* The equation has a solution.
LEMMA FlatExists ==
    ASSUME NEW ss, NEW n \in Nat
    PROVE  \E f : f = Flat(ss, n, f)
<1> DEFINE T == {k \in Nat : ~ \E f : f = Flat(ss, k, f)}
<1>1. SUFFICES ASSUME T # {} PROVE FALSE
  OBVIOUS
<1>2. PICK m \in T : \A k \in T : m <= k
  BY <1>1, LeastIndex
<1>3. m \in Nat /\ ~ \E f : f = Flat(ss, m, f)
  OBVIOUS
<1>4. CASE m = 0
  <2>1. Flat(ss, 0, <<>>) = Flat(ss, 0, Flat(ss, 0, <<>>))
    BY DEF Flat
  <2> QED BY <1>3, <1>4, <2>1
<1>5. CASE m # 0
  <2>1. m - 1 \in Nat /\ ~ (m <= m - 1)
    BY <1>3, <1>5
  <2>2. m - 1 \notin T
    BY <1>2, <2>1
  <2>3. PICK f : f = Flat(ss, m - 1, f)
    BY <2>1, <2>2
  <2> DEFINE g == Flat(ss, m, f)
  <2>4. \A i \in 1..(m - 1) : g[i] = f[i]
    <3>1. \A i \in 1..(m - 1) : i \in 1..m
      BY <1>3
    <3>2. \A i \in 1..(m - 1) : f[i] = IF i = 1 THEN ss[i] ELSE f[i - 1] \o ss[i]
      BY <2>3 DEF Flat
    <3> QED BY <3>1, <3>2 DEF Flat
  <2>5. \A i \in 1..m : i # 1 => i - 1 \in 1..(m - 1)
    BY <1>3
  <2> HIDE DEF g
  <2>6. Flat(ss, m, g) = Flat(ss, m, f)
    BY <2>4, <2>5 DEF Flat
  <2> QED BY <1>3, <2>6 DEF g
<1> QED BY <1>4, <1>5

\* It depends on the first sequences only.
LEMMA FlatAgrees ==
    ASSUME NEW n \in Nat, NEW m \in Nat, n <= m, NEW ss, NEW tt, NEW f, NEW g,
           \A i \in 1..n : ss[i] = tt[i], f = Flat(ss, n, f), g = Flat(tt, m, g)
    PROVE  \A i \in 1..n : f[i] = g[i]
<1> DEFINE T == {i \in 1..n : f[i] # g[i]}
<1>1. SUFFICES ASSUME T # {} PROVE FALSE
  OBVIOUS
<1>2. PICK k \in T : \A i \in T : k <= i
  <2>1. T \in SUBSET Nat
    OBVIOUS
  <2> HIDE DEF T
  <2> QED BY <1>1, <2>1, LeastIndex
<1>3. k \in 1..n /\ k \in 1..m /\ f[k] # g[k]
  OBVIOUS
<1>4. /\ f[k] = IF k = 1 THEN ss[k] ELSE f[k - 1] \o ss[k]
      /\ g[k] = IF k = 1 THEN tt[k] ELSE g[k - 1] \o tt[k]
  BY <1>3 DEF Flat
<1>5. k # 1 => k - 1 \in 1..n /\ ~ (k <= k - 1)
  BY <1>3
<1>6. k # 1 => f[k - 1] = g[k - 1]
  BY <1>2, <1>5
<1> QED BY <1>3, <1>4, <1>6

\* FlattenSeq takes the last value of a solution.
LEMMA FlattenIs ==
    ASSUME NEW ss, NEW n \in Nat \ {0}, Len(ss) = n
    PROVE  \E f : f = Flat(ss, n, f) /\ FlattenSeq(ss) = f[n]
<1> DEFINE f == CHOOSE h : h = [i \in 1..n |-> IF i = 1 THEN ss[i] ELSE h[i - 1] \o ss[i]]
<1>1. FlattenSeq(ss) = f[n]
  BY DEF FlattenSeq
<1>2. \E h : h = Flat(ss, n, h)
  BY FlatExists
<1>3. f = Flat(ss, n, f)
  BY <1>2 DEF Flat
<1> QED BY <1>1, <1>3

\* The elements of the sequences are those of the flattened one.
LEMMA FlattenType ==
    ASSUME NEW S, NEW ss \in Seq(Seq(S))
    PROVE  FlattenSeq(ss) \in Seq(S)
<1>1. CASE Len(ss) = 0
  <2>1. ss = <<>>
    BY <1>1, EmptySeq
  <2> QED BY <1>1, <2>1 DEF FlattenSeq
<1>2. CASE Len(ss) # 0
  <2> DEFINE n == Len(ss)
  <2>1. n \in Nat \ {0} /\ \A i \in 1..n : ss[i] \in Seq(S)
    BY <1>2
  <2>2. PICK f : f = Flat(ss, n, f) /\ FlattenSeq(ss) = f[n]
    BY <2>1, FlattenIs
  <2> DEFINE T == {k \in Nat : k \in 1..n /\ f[k] \notin Seq(S)}
  <2> HIDE DEF n
  <2>3. SUFFICES ASSUME T # {} PROVE FALSE
    BY <2>1, <2>2
  <2>4. PICK k \in T : \A i \in T : k <= i
    BY <2>3, LeastIndex
  <2>5. k \in 1..n /\ f[k] \notin Seq(S)
    BY <2>4
  <2>6. f[k] = IF k = 1 THEN ss[k] ELSE f[k - 1] \o ss[k]
    BY <2>2, <2>5 DEF Flat
  <2>7. k # 1 => k - 1 \in 1..n /\ k - 1 \in Nat /\ ~ (k <= k - 1)
    BY <2>1, <2>5
  <2>8. k # 1 => f[k - 1] \in Seq(S)
    BY <2>4, <2>7
  <2> QED BY <2>1, <2>5, <2>6, <2>8
<1> QED BY <1>1, <1>2

=============================================================================
