-------------------------- MODULE PropagationProofs --------------------------
(***************************************************************************)
(* What propagation with linear steps guarantees, for every list of steps, *)
(* every start and every order of the guesses: the matrices say what the   *)
(* functions of the steps say, and every log of a guess leads back.        *)
(***************************************************************************)
EXTENDS PropagationInvariants, FoldLemmas, FiniteSetTheorems, CharacteristicProofs

\* A set of natural numbers that is not empty has a minimum.
LEMMA MinIs ==
    ASSUME NEW T \in SUBSET Nat, T # {}
    PROVE  Min(T) \in T /\ \A k \in T : Min(T) <= k
BY LeastIndex DEF Min

\* A lower bound in the set is its minimum.
LEMMA MinUnique ==
    ASSUME NEW T \in SUBSET Nat, NEW m \in T, \A k \in T : m <= k
    PROVE  Min(T) = m
<1>1. Min(T) \in T /\ \A k \in T : Min(T) <= k
  BY MinIs
<1>2. Min(T) \in Nat /\ m \in Nat /\ m <= Min(T) /\ Min(T) <= m
  BY <1>1
<1> HIDE DEF Min
<1> QED BY <1>2

-----------------------------------------------------------------------------
(* Ranks *)

\* The rank of a member of a set grows with it.
LEMMA RankGrows ==
    ASSUME NEW S, IsFiniteSet(S), S \subseteq Nat, NEW r \in Nat, NEW s \in Nat
    PROVE  /\ Before(S, r) \in Nat /\ Before(S, r) <= Cardinality(S)
           /\ r <= s => Before(S, r) <= Before(S, s)
           /\ r \in S /\ r < s => Before(S, r) < Before(S, s)
           /\ r \in S => Before(S, r) < Cardinality(S)
<1> DEFINE Below1(x) == {t \in S : t < x}
<1>1. \A x : IsFiniteSet(Below1(x)) /\ Below1(x) \in SUBSET S
  <2>1. \A x : Below1(x) \in SUBSET S
    OBVIOUS
  <2> QED BY <2>1, FS_Subset
<1>2. Before(S, r) \in Nat /\ Before(S, r) <= Cardinality(S) /\ Before(S, s) \in Nat
  BY <1>1, FS_Subset, FS_CardinalityType DEF Before
<1>3. r <= s => Before(S, r) <= Before(S, s)
  <2>1. r <= s => Below1(r) \in SUBSET Below1(s)
    <3>1. \A t \in S : t \in Nat /\ (r <= s /\ t < r => t < s)
      OBVIOUS
    <3> QED BY <3>1
  <2> QED BY <1>1, <2>1, FS_Subset DEF Before
<1>4. ASSUME r \in S PROVE /\ r < s => Before(S, r) < Before(S, s)
                           /\ Before(S, r) < Cardinality(S)
  <2>1. r \notin Below1(r) /\ Below1(r) \cup {r} \in SUBSET S
    BY <1>4
  <2>2. /\ IsFiniteSet(Below1(r) \cup {r})
        /\ Cardinality(Below1(r) \cup {r}) = Cardinality(Below1(r)) + 1
    BY <1>1, <2>1, FS_AddElement
  <2>3. r < s => Below1(r) \cup {r} \in SUBSET Below1(s)
    <3>1. \A t \in S : t \in Nat /\ (r < s /\ t < r => t < s)
      OBVIOUS
    <3> QED BY <1>4, <3>1
  <2>4. r < s => Cardinality(Below1(r) \cup {r}) <= Cardinality(Below1(s))
    BY <1>1, <2>3, FS_Subset
  <2>5. Cardinality(Below1(r) \cup {r}) <= Cardinality(S)
    BY <2>1, FS_Subset
  <2>6. Cardinality(Below1(r)) = Before(S, r) /\ Cardinality(Below1(s)) = Before(S, s)
    BY DEF Before
  <2>7. Cardinality(S) \in Nat
    BY FS_CardinalityType
  <2> QED BY <1>2, <2>2, <2>4, <2>5, <2>6, <2>7
<1> QED BY <1>2, <1>3, <1>4

\* Each rank is that of one member.
LEMMA RankIsTaken ==
    ASSUME NEW S, IsFiniteSet(S), S \subseteq Nat, NEW k \in Nat, k < Cardinality(S)
    PROVE  \E s \in S : Before(S, s) = k
<1> DEFINE n == Cardinality(S)
           R == 0..(n - 1)
           f == [s \in S |-> Before(S, s)]
<1>1. n \in Nat
  BY FS_CardinalityType
<1> HIDE DEF n
<1>2. IsFiniteSet(R) /\ Cardinality(R) = n /\ k \in R
  <2>1. 0 \in Int /\ n - 1 \in Int /\ k < n /\ n > 0
    BY <1>1 DEF n
  <2>2. IsFiniteSet(R) /\ Cardinality(R) = IF 0 > n - 1 THEN 0 ELSE n - 1 - 0 + 1
    BY <2>1, FS_Interval
  <2>3. n - 1 - 0 + 1 = n /\ ~ (0 > n - 1) /\ k \in R
    BY <1>1, <2>1
  <2> QED BY <2>2, <2>3
<1>3. \A s \in S : Before(S, s) \in Nat /\ Before(S, s) < n
  BY RankGrows DEF n
<1>4. \A s \in S : f[s] \in R
  BY <1>1, <1>3
<1>5. \A r, s \in S : r < s => Before(S, r) < Before(S, s)
  BY RankGrows
<1>6. \A r, s \in S : f[r] = f[s] => r = s
  <2>1. TAKE r, s \in S
  <2>2. r \in Nat /\ s \in Nat /\ f[r] = Before(S, r) /\ f[s] = Before(S, s)
    OBVIOUS
  <2>3. Before(S, r) \in Nat /\ Before(S, s) \in Nat
    BY <1>3
  <2>4. r < s => Before(S, r) < Before(S, s)
    BY <1>5
  <2>5. s < r => Before(S, s) < Before(S, r)
    BY <1>5
  <2> HIDE DEF f
  <2> QED BY <2>2, <2>3, <2>4, <2>5
<1> HIDE DEF R
<1>7. f \in [S -> R]
  BY <1>4
<1> HIDE DEF f
<1>8. f \in Injection(S, R)
  BY <1>6, <1>7 DEF Injection, IsInjective
<1>9. f \in Surjection(S, R)
  BY <1>2, <1>8, FS_Injection DEF n
<1>10. PICK s \in S : f[s] = k
  BY <1>2, <1>9 DEF Surjection
<1> QED BY <1>10 DEF f

\* A set of positions that has all smaller ones is an interval.
LEMMA FirstOnes ==
    ASSUME NEW N \in Nat, NEW D \in SUBSET (0..(N - 1)),
           \A d \in D : \A c \in 0..(N - 1) : c <= d => c \in D
    PROVE  D = 0..(Cardinality(D) - 1) /\ Cardinality(D) \in 0..N
<1>1. CASE D = {}
  BY <1>1, FS_EmptySet
<1>2. CASE D # {}
  <2> DEFINE T == {k \in Nat : \A d \in D : d < k}
  <2>1. N \in T
    OBVIOUS
  <2>2. PICK k \in T : \A j \in T : k <= j
    BY <2>1, LeastIndex
  <2>3. k \in Nat /\ k <= N /\ \A d \in D : d < k
    BY <2>1, <2>2
  <2>4. k # 0
    <3>1. PICK d \in D : TRUE
      BY <1>2
    <3>2. d \in Nat /\ d < k
      BY <2>3, <3>1
    <3> QED BY <3>2
  <2>5. k - 1 \in Nat /\ k - 1 \notin T
    BY <2>2, <2>3, <2>4
  <2>6. PICK d \in D : ~ (d < k - 1)
    BY <2>5
  <2>7. d = k - 1
    BY <2>3, <2>5, <2>6
  <2>8. D = 0..(k - 1)
    <3>1. ASSUME NEW c \in D PROVE c \in 0..(k - 1)
      <4>1. c \in Nat /\ c < k
        BY <2>3, <3>1
      <4> QED BY <2>3, <4>1
    <3>2. ASSUME NEW c \in 0..(k - 1) PROVE c \in D
      <4>1. c \in 0..(N - 1) /\ c <= d
        BY <2>3, <2>7
      <4> QED BY <4>1
    <3> QED BY <3>1, <3>2
  <2>9. Cardinality(D) = k
    BY <2>3, <2>4, <2>8, FS_Interval
  <2> QED BY <2>3, <2>8, <2>9
<1> QED BY <1>1, <1>2

-----------------------------------------------------------------------------
(* Sums over GF(2) *)

\* The parity of a sum is the sum of the parities.
LEMMA OddSymDiff ==
    ASSUME NEW A, NEW B, IsFiniteSet(A), IsFiniteSet(B)
    PROVE  /\ IsFiniteSet(SymDiff(A, B))
           /\ Odd(SymDiff(A, B)) = (Odd(A) # Odd(B))
<1> DEFINE C == A \cap B
           a == Cardinality(A \ B)
           b == Cardinality(B \ A)
           c == Cardinality(C)
<1>1. /\ IsFiniteSet(A \ B) /\ IsFiniteSet(B \ A) /\ IsFiniteSet(C)
      /\ a = Cardinality(A) - c /\ b = Cardinality(B) - c
  <2>1. B \cap A = C
    OBVIOUS
  <2> QED BY <2>1, FS_Difference, FS_Intersection, ZenonT(60)
<1>2. a \in Nat /\ b \in Nat /\ c \in Nat /\ Cardinality(A) \in Nat /\ Cardinality(B) \in Nat
  BY <1>1, FS_CardinalityType
<1>3. /\ IsFiniteSet(SymDiff(A, B))
      /\ Cardinality(SymDiff(A, B)) = a + b
  <2>1. (A \ B) \cap (B \ A) = {}
    OBVIOUS
  <2>2. Cardinality({}) = 0
    BY FS_EmptySet
  <2>3. /\ IsFiniteSet((A \ B) \cup (B \ A))
        /\ Cardinality((A \ B) \cup (B \ A)) = a + b - Cardinality((A \ B) \cap (B \ A))
    BY <1>1, FS_Union
  <2> QED BY <1>2, <2>1, <2>2, <2>3 DEF SymDiff
<1> HIDE DEF a, b, c
<1>4. Cardinality(A) = a + c /\ Cardinality(B) = b + c
  BY <1>1, <1>2
<1>5. ((a + b) % 2 = 1) = (((a + c) % 2 = 1) # ((b + c) % 2 = 1))
  BY <1>2
<1> QED BY <1>3, <1>4, <1>5 DEF Odd

\* The parts of a matrix.
LEMMA MatrixFacts ==
    ASSUME NEW n, NEW c, NEW m \in MatrixSet(n, c)
    PROVE  /\ Rows(m) = 0..(n - 1) /\ RHS(m) = c /\ NOPIVOT(m) = c + 1
           /\ \A r \in 0..(n - 1) :
                 /\ m.row[r] \in MatrixRow(n, c)
                 /\ m.row[r].index \in 0..(n - 1)
                 /\ Pivot(m, r) = m.row[r].pivot /\ Pivot(m, r) \in 0..(c + 1)
                 /\ Content(m, r) = m.data[m.row[r].index]
                 /\ Content(m, r) \in SUBSET (0..c)
BY DEF MatrixSet, MatrixRow, Rows, RHS, NOPIVOT, Pivot, Content

\* The first column of an equation.
LEMMA PivotIs ==
    ASSUME NEW c \in Nat, NEW m, m.columns = c, NEW A \in SUBSET (0..c)
    PROVE  /\ ComputePivot(m, A) \in 0..(c + 1)
           /\ A = {} <=> ComputePivot(m, A) = c + 1
           /\ A # {} => /\ ComputePivot(m, A) = Min(A)
                        /\ ComputePivot(m, A) \in A /\ ComputePivot(m, A) <= c
           /\ \A x \in A : ComputePivot(m, A) <= x
<1>1. CASE A = {}
  BY <1>1 DEF ComputePivot, NOPIVOT
<1>2. CASE A # {}
  <2>1. A \in SUBSET Nat
    OBVIOUS
  <2>2. Min(A) \in A /\ \A x \in A : Min(A) <= x
    BY <1>2, <2>1, MinIs
  <2>3. ComputePivot(m, A) = Min(A)
    BY <1>2 DEF ComputePivot
  <2>4. Min(A) \in 0..c
    BY <2>2
  <2> QED BY <1>2, <2>2, <2>3, <2>4
<1> QED BY <1>1, <1>2

\* The first column of an equation is the one before all its others.
LEMMA PivotUnique ==
    ASSUME NEW c \in Nat, NEW m, m.columns = c, NEW A \in SUBSET (0..c),
           NEW x \in A, \A y \in A : x <= y
    PROVE  ComputePivot(m, A) = x
<1>1. ComputePivot(m, A) \in A /\ ComputePivot(m, A) <= x
  BY PivotIs
<1>2. ComputePivot(m, A) \in Nat /\ x \in Nat /\ x <= ComputePivot(m, A)
  <2>1. x \in 0..c /\ ComputePivot(m, A) \in 0..c
    BY <1>1
  <2>2. x <= ComputePivot(m, A)
    BY <1>1
  <2> QED BY <2>1, <2>2
<1> QED BY <1>1, <1>2

\* The first column of a sum, as XorInto finds it.
LEMMA PivotOfSum ==
    ASSUME NEW c \in Nat, NEW m, m.columns = c,
           NEW A \in SUBSET (0..c), NEW B \in SUBSET (0..c)
    PROVE  /\ SymDiff(A, B) \in SUBSET (0..c)
           /\ LET p == ComputePivot(m, A)
                  q == ComputePivot(m, B)
              IN  /\ p < q => ComputePivot(m, SymDiff(A, B)) = p
                  /\ q < p => ComputePivot(m, SymDiff(A, B)) = q
<1>1. SymDiff(A, B) \in SUBSET (0..c)
  BY DEF SymDiff
<1>2. ASSUME NEW X \in SUBSET (0..c), NEW Y \in SUBSET (0..c),
             ComputePivot(m, X) < ComputePivot(m, Y)
      PROVE  /\ ComputePivot(m, SymDiff(X, Y)) = ComputePivot(m, X)
             /\ ComputePivot(m, SymDiff(Y, X)) = ComputePivot(m, X)
  <2> DEFINE p == ComputePivot(m, X)
             q == ComputePivot(m, Y)
  <2>1. p \in 0..(c + 1) /\ q \in 0..(c + 1) /\ p < q
    BY <1>2, PivotIs
  <2>2. X # {} /\ p \in X /\ \A x \in X : p <= x
    <3>1. p # c + 1
      BY <2>1
    <3> QED BY <3>1, PivotIs
  <2>3. \A y \in Y : q <= y
    BY PivotIs
  <2> HIDE DEF p, q
  <2>4. \A y \in Y : y \in Nat /\ p < y
    BY <2>1, <2>3
  <2>5. p \notin Y
    <3>1. p \in Nat /\ ~ (p < p)
      BY <2>1
    <3> QED BY <2>4, <3>1
  <2>6. p \in SymDiff(X, Y) /\ \A z \in SymDiff(X, Y) : p <= z
    <3>1. \A y \in Y : p <= y
      BY <2>1, <2>4
    <3> QED BY <2>2, <2>5, <3>1 DEF SymDiff
  <2>7. SymDiff(X, Y) \in SUBSET (0..c) /\ SymDiff(Y, X) = SymDiff(X, Y)
    BY DEF SymDiff
  <2>8. ComputePivot(m, SymDiff(X, Y)) = p
    BY <2>6, <2>7, PivotUnique
  <2> QED BY <2>7, <2>8 DEF p
<1> QED BY <1>1, <1>2

\* k is m with an equation added to a row.
Added(k, m, r, E, n, c) ==
    /\ Shaped(k, n, c)
    /\ \A q \in 0..(n - 1) :
          /\ Content(k, q) = IF q = r THEN SymDiff(Content(m, r), E) ELSE Content(m, q)
          /\ k.row[q].index = m.row[q].index
          /\ q # r => Pivot(k, q) = Pivot(m, q)
    /\ k.data = [m.data EXCEPT ![m.row[r].index] = SymDiff(Content(m, r), E)]
    /\ k.columns = m.columns /\ k.rowinv = m.rowinv
    /\ k.changes = m.changes
    /\ k.updateRows = m.updateRows /\ k.updatePivot = m.updatePivot

\* What a pivot is depends on the number of the columns only.
LEMMA PivotSame ==
    ASSUME NEW k, NEW m, k.columns = m.columns, NEW A
    PROVE  ComputePivot(k, A) = ComputePivot(m, A)
BY DEF ComputePivot, NOPIVOT

\* Adding an equation to a row changes that row only, and its stored pivot is right.
LEMMA XorIntoIs ==
    ASSUME NEW n \in Nat, NEW c \in Nat, NEW m, Shaped(m, n, c), NEW r \in 0..(n - 1),
           NEW E \in SUBSET (0..c), NEW k, k = XorInto(m, r, E, ComputePivot(m, E))
    PROVE  Added(k, m, r, E, n, c)
<1> DEFINE sum == SymDiff(Content(m, r), E)
           first == ComputePivot(m, E)
           p == Pivot(m, r)
           pivot == IF p < first THEN p
                    ELSE IF p = first THEN ComputePivot(m, sum) ELSE first
           i == m.row[r].index
           R == 0..(n - 1)
<1>1. m \in MatrixSet(n, c)
  BY DEF Shaped
<1>2. m.columns = c
  BY <1>1 DEF MatrixSet
<1>3. /\ Rows(m) = R /\ Content(m, r) \in SUBSET (0..c) /\ p \in 0..(c + 1)
      /\ i \in R /\ m.row[r] \in MatrixRow(n, c)
      /\ p = ComputePivot(m, Content(m, r))
  BY <1>1, MatrixFacts DEF Shaped
<1>4. sum \in SUBSET (0..c) /\ pivot = ComputePivot(m, sum) /\ pivot \in 0..(c + 1)
  <2>1. /\ sum \in SUBSET (0..c)
        /\ p < first => ComputePivot(m, sum) = p
        /\ first < p => ComputePivot(m, sum) = first
    BY <1>2, <1>3, PivotOfSum
  <2>2. p \in Nat /\ first \in Nat
    BY <1>2, <1>3, PivotIs
  <2>3. ComputePivot(m, sum) \in 0..(c + 1)
    BY <1>2, <2>1, PivotIs
  <2> HIDE DEF sum, first, p
  <2>4. pivot = ComputePivot(m, sum)
    BY <2>1, <2>2
  <2> QED BY <2>1, <2>3, <2>4
<1> HIDE DEF sum, pivot, first
<1>5. k = [m EXCEPT !.data[i] = sum, !.extract = @ \cup {i}, !.row[r].pivot = pivot]
  BY DEF XorInto, sum, pivot, first
<1> DEFINE rows == [m.row EXCEPT ![r].pivot = pivot]
           data == [m.data EXCEPT ![i] = sum]
<1>6. /\ k.data = data /\ k.row = rows /\ k.columns = c
      /\ k.rowinv = m.rowinv /\ k.changes = m.changes /\ k.updateRows = m.updateRows
      /\ k.updatePivot = m.updatePivot /\ k.extract = m.extract \cup {i}
  BY <1>1, <1>5 DEF MatrixSet
<1>7. /\ rows \in [R -> MatrixRow(n, c)]
      /\ \A q \in R : /\ rows[q].index = m.row[q].index
                      /\ rows[q].pivot = IF q = r THEN pivot ELSE m.row[q].pivot
  <2>1. m.row \in [R -> MatrixRow(n, c)]
    BY <1>1 DEF MatrixSet
  <2>2. \A q \in R : rows[q] = IF q = r THEN [m.row[r] EXCEPT !.pivot = pivot] ELSE m.row[q]
    BY <2>1
  <2>3. [m.row[r] EXCEPT !.pivot = pivot] \in MatrixRow(n, c)
        /\ [m.row[r] EXCEPT !.pivot = pivot].index = m.row[r].index
        /\ [m.row[r] EXCEPT !.pivot = pivot].pivot = pivot
    BY <1>3, <1>4 DEF MatrixRow
  <2>4. \A q \in R : rows[q] \in MatrixRow(n, c)
    BY <2>1, <2>2, <2>3
  <2>5. rows \in [R -> MatrixRow(n, c)]
    BY <2>1, <2>4
  <2>6. ASSUME NEW q \in R
        PROVE  /\ rows[q].index = m.row[q].index
               /\ rows[q].pivot = IF q = r THEN pivot ELSE m.row[q].pivot
    <3>1. CASE q = r
      BY <2>2, <2>3, <3>1
    <3>2. CASE q # r
      BY <2>2, <3>2
    <3> QED BY <3>1, <3>2
  <2> QED BY <2>5, <2>6
<1>8. /\ data \in [R -> SUBSET (0..c)]
      /\ \A j \in R : data[j] = IF j = i THEN sum ELSE m.data[j]
  BY <1>1, <1>3, <1>4 DEF MatrixSet
<1> HIDE DEF rows, data
<1>9. k \in MatrixSet(n, c)
  <2>1. [m EXCEPT !.data = data, !.extract = m.extract \cup {i}, !.row = rows] \in MatrixSet(n, c)
    BY <1>1, <1>3, <1>7, <1>8 DEF MatrixSet
  <2>2. k = [m EXCEPT !.data = data, !.extract = m.extract \cup {i}, !.row = rows]
    BY <1>5 DEF data, rows
  <2> QED BY <2>1, <2>2
<1>10. \A q \in R : /\ Content(k, q) = IF q = r THEN sum ELSE Content(m, q)
                    /\ k.row[q].index = m.row[q].index
                    /\ Pivot(k, q) = IF q = r THEN pivot ELSE Pivot(m, q)
  <2>1. TAKE q \in R
  <2>2. m.row[q].index \in R
    BY <1>1, MatrixFacts
  <2>3. m.row[q].index = i => q = r
    BY <1>3 DEF Shaped
  <2> QED BY <1>6, <1>7, <1>8, <2>2, <2>3 DEF Content, Pivot
<1>11. Rows(k) = R /\ DOMAIN k.data = R /\ DOMAIN m.data = R
  BY <1>1, <1>6, <1>7, <1>8 DEF Rows, MatrixSet
<1>12. \A q \in Rows(k) : Pivot(k, q) = ComputePivot(k, Content(k, q))
  <2>1. TAKE q \in Rows(k)
  <2>2. \A X : ComputePivot(k, X) = ComputePivot(m, X)
    BY <1>2, <1>6 DEF ComputePivot, NOPIVOT
  <2>3. Pivot(m, q) = ComputePivot(m, Content(m, q))
    BY <1>3, <1>11 DEF Shaped
  <2> QED BY <1>4, <1>10, <1>11, <2>2, <2>3
<1>13. k.rowinv = Positions(k.row)
  <2>1. m.rowinv = Positions(m.row)
    BY DEF Shaped
  <2>2. DOMAIN k.row = R /\ DOMAIN m.row = R
    BY <1>3, <1>11 DEF Rows
  <2> DEFINE K(j) == CHOOSE q \in R : k.row[q].index = j
             M(j) == CHOOSE q \in R : m.row[q].index = j
  <2>3. \A j \in R : K(j) = M(j)
    BY <1>10
  <2>4. Positions(k.row) = [j \in R |-> K(j)]
    BY <2>2 DEF Positions
  <2>5. Positions(m.row) = [j \in R |-> M(j)]
    BY <2>2 DEF Positions
  <2> HIDE DEF K, M
  <2>6. Positions(k.row) = Positions(m.row)
    BY <2>3, <2>4, <2>5
  <2> QED BY <1>6, <2>1, <2>6
<1>14. Shaped(k, n, c)
  <2>1. /\ \A q, s \in Rows(k) : k.row[q].index = k.row[s].index => q = s
        /\ \A j \in DOMAIN k.data : \E q \in Rows(k) : k.row[q].index = j
    <3>1. /\ \A q, s \in R : m.row[q].index = m.row[s].index => q = s
          /\ \A j \in R : \E q \in R : m.row[q].index = j
      BY <1>3, <1>11 DEF Shaped
    <3>2. \A q \in R : k.row[q].index = m.row[q].index
      BY <1>10
    <3> HIDE DEF R
    <3>3. \A q, s \in R : k.row[q].index = k.row[s].index => q = s
      BY <3>1, <3>2
    <3>4. \A j \in R : \E q \in R : k.row[q].index = j
      BY <3>1, <3>2
    <3> QED BY <1>11, <3>3, <3>4
  <2> QED BY <1>9, <1>12, <1>13, <2>1 DEF Shaped
<1> QED BY <1>2, <1>6, <1>10, <1>14 DEF sum, data, Added

\* Added twice it is gone.
LEMMA XorIntoTwice ==
    ASSUME NEW n \in Nat, NEW c \in Nat, NEW m, Shaped(m, n, c), NEW r \in 0..(n - 1),
           NEW E \in SUBSET (0..c), NEW k, k = XorInto(m, r, E, ComputePivot(m, E))
    PROVE  Same(XorInto(k, r, E, ComputePivot(m, E)), m)
<1> DEFINE l == XorInto(k, r, E, ComputePivot(k, E))
           R == 0..(n - 1)
<1>1. /\ Shaped(k, n, c) /\ k.columns = m.columns /\ k.rowinv = m.rowinv
      /\ \A q \in R :
                 /\ Content(k, q) = IF q = r THEN SymDiff(Content(m, r), E) ELSE Content(m, q)
                 /\ k.row[q].index = m.row[q].index
  <2>1. Added(k, m, r, E, n, c)
    BY XorIntoIs
  <2> QED BY <2>1 DEF Added
<1>2. ComputePivot(k, E) = ComputePivot(m, E)
  BY <1>1, PivotSame
<1>3. /\ Shaped(l, n, c) /\ l.columns = k.columns /\ l.rowinv = k.rowinv
      /\ \A q \in R :
                 /\ Content(l, q) = IF q = r THEN SymDiff(Content(k, r), E) ELSE Content(k, q)
                 /\ l.row[q].index = k.row[q].index
  <2>1. Added(l, k, r, E, n, c)
    BY <1>1, XorIntoIs
  <2> QED BY <2>1 DEF Added
<1> HIDE DEF l
<1>4. m \in MatrixSet(n, c) /\ l \in MatrixSet(n, c)
  BY <1>3 DEF Shaped
<1>5. \A A : SymDiff(SymDiff(A, E), E) = A
  BY DEF SymDiff
<1>6. \A q \in R : Content(l, q) = Content(m, q) /\ l.row[q].index = m.row[q].index
  BY <1>1, <1>3, <1>5
<1>7. Rows(m) = R /\ Rows(l) = R /\ DOMAIN m.data = R /\ DOMAIN l.data = R
  BY <1>4, MatrixFacts DEF MatrixSet
<1>8. l.data = m.data
  <2>1. ASSUME NEW i \in R PROVE l.data[i] = m.data[i]
    <3>1. PICK q \in R : m.row[q].index = i
      BY <1>7 DEF Shaped
    <3> QED BY <1>6, <3>1 DEF Content
  <2>2. m.data \in [R -> SUBSET (0..c)] /\ l.data \in [R -> SUBSET (0..c)]
    BY <1>4 DEF MatrixSet
  <2> QED BY <2>1, <2>2
<1>9. l.row = m.row
  <2>1. ASSUME NEW q \in R PROVE l.row[q] = m.row[q]
    <3>1. Pivot(l, q) = ComputePivot(l, Content(l, q)) /\ Pivot(m, q) = ComputePivot(m, Content(m, q))
      BY <1>3, <1>7 DEF Shaped
    <3>2. l.row[q].pivot = m.row[q].pivot
      BY <1>1, <1>3, <1>6, <3>1 DEF ComputePivot, NOPIVOT, Pivot
    <3>3. l.row[q] \in MatrixRow(n, c) /\ m.row[q] \in MatrixRow(n, c)
      BY <1>4, MatrixFacts
    <3> QED BY <1>6, <3>2, <3>3 DEF MatrixRow
  <2>2. m.row \in [R -> MatrixRow(n, c)] /\ l.row \in [R -> MatrixRow(n, c)]
    BY <1>4 DEF MatrixSet
  <2> QED BY <2>1, <2>2
<1> QED BY <1>1, <1>2, <1>3, <1>8, <1>9 DEF Same, l

\* Members with the same rank are the same.
LEMMA RankInjective ==
    ASSUME NEW S, IsFiniteSet(S), S \subseteq Nat, NEW s \in S, NEW t \in S,
           Before(S, s) = Before(S, t)
    PROVE  s = t
<1>1. s \in Nat /\ t \in Nat
  OBVIOUS
<1>2. s < t => Before(S, s) < Before(S, t)
  BY <1>1, RankGrows
<1>3. t < s => Before(S, t) < Before(S, s)
  BY <1>1, RankGrows
<1>4. Before(S, s) \in Nat /\ Before(S, t) \in Nat
  BY <1>1, RankGrows
<1> QED BY <1>1, <1>2, <1>3, <1>4

\* Sets of positions are finite.
LEMMA PositionsFinite ==
    ASSUME NEW n \in Nat, NEW S \in SUBSET (0..(n - 1))
    PROVE  /\ IsFiniteSet(S) /\ S \subseteq Nat /\ Cardinality(S) \in Nat
           /\ IsFiniteSet((0..(n - 1)) \ S) /\ (0..(n - 1)) \ S \subseteq Nat
           /\ Cardinality((0..(n - 1)) \ S) = n - Cardinality(S)
<1>1. 0 \in Int /\ n - 1 \in Int
  OBVIOUS
<1>2. /\ IsFiniteSet(0..(n - 1))
      /\ Cardinality(0..(n - 1)) = IF 0 > n - 1 THEN 0 ELSE (n - 1) - 0 + 1
  BY <1>1, FS_Interval
<1>3. Cardinality(0..(n - 1)) = n
  BY <1>2
<1>4. S \subseteq Nat /\ (0..(n - 1)) \ S \subseteq Nat
  OBVIOUS
<1> DEFINE R == 0..(n - 1)
<1>5. IsFiniteSet(R) /\ S \in SUBSET R /\ R \ S \in SUBSET R /\ R \cap S = S
  BY <1>2
<1>6. Cardinality(R) = n
  BY <1>3
<1> HIDE DEF R
<1>7. IsFiniteSet(S) /\ IsFiniteSet(R \ S)
  BY <1>5, FS_Subset
<1>8. Cardinality(R \ S) = Cardinality(R) - Cardinality(R \cap S)
  BY <1>5, FS_Difference
<1>9. Cardinality(S) \in Nat
  BY <1>7, FS_CardinalityType
<1> QED BY <1>4, <1>5, <1>6, <1>7, <1>8, <1>9 DEF R

\* A position without C has the rank that r has without D.
Ranked(n, C, D, r) ==
    \E s \in (0..(n - 1)) \ C : Before((0..(n - 1)) \ C, s) = Before((0..(n - 1)) \ D, r)

\* The rest of two sets of positions of the same size have the same ranks.
LEMMA RestsMatch ==
    ASSUME NEW n \in Nat, NEW C \in SUBSET (0..(n - 1)), NEW D \in SUBSET (0..(n - 1)),
           Cardinality(C) = Cardinality(D), NEW r \in (0..(n - 1)) \ D
    PROVE  Ranked(n, C, D, r)
<1> DEFINE R == 0..(n - 1)
<1>1. IsFiniteSet(R \ C) /\ R \ C \subseteq Nat /\ Cardinality(R \ C) = n - Cardinality(C)
  BY PositionsFinite
<1>2. IsFiniteSet(R \ D) /\ R \ D \subseteq Nat /\ Cardinality(R \ D) = n - Cardinality(D)
  BY PositionsFinite
<1>3. r \in Nat /\ r \in R \ D
  OBVIOUS
<1> HIDE DEF R
<1>4. Before(R \ D, r) \in Nat /\ Before(R \ D, r) < Cardinality(R \ D)
  BY <1>2, <1>3, RankGrows
<1>5. \E s \in R \ C : Before(R \ C, s) = Before(R \ D, r)
  BY <1>1, <1>2, <1>4, RankIsTaken
<1> QED BY <1>5 DEF R, Ranked

\* What leaves and what comes are the same rows.
Permutes(m, out, in, n) ==
    /\ DOMAIN out \in SUBSET (0..(n - 1)) /\ DOMAIN in \in SUBSET (0..(n - 1))
    /\ Cardinality(DOMAIN out) = Cardinality(DOMAIN in)
    /\ out = [r \in DOMAIN out |-> m.row[r]] /\ in = [p \in DOMAIN in |-> in[p]]
    /\ \A p \in DOMAIN in : \E r \in DOMAIN out : in[p] = m.row[r]
    /\ \A r \in DOMAIN out : \E p \in DOMAIN in : in[p] = m.row[r]
    /\ \A p, q \in DOMAIN in : in[p] = in[q] => p = q

\* Where a row of k was in m.
CameFrom(k, m, out, in, n, r, s) ==
    /\ s \in 0..(n - 1) /\ k.row[r] = m.row[s]
    /\ IF r \in DOMAIN in THEN k.row[r] = in[r] /\ s \in DOMAIN out
       ELSE /\ s \notin DOMAIN out
            /\ Before((0..(n - 1)) \ DOMAIN out, s) = Before((0..(n - 1)) \ DOMAIN in, r)

\* k is m with its rows in another order.
Permuted(k, m, out, in, n, c) ==
    /\ Shaped(k, n, c)
    /\ k.data = m.data /\ k.columns = m.columns /\ k.changes = m.changes
    /\ k.extract = m.extract /\ k.updateRows = m.updateRows /\ k.updatePivot = m.updatePivot
    /\ \A r \in 0..(n - 1) : \E s \in 0..(n - 1) : CameFrom(k, m, out, in, n, r, s)
    /\ \A s \in 0..(n - 1) : \E r \in 0..(n - 1) : CameFrom(k, m, out, in, n, r, s)

\* Rows that are moved are the same rows in another order.
LEMMA PermutationIs ==
    ASSUME NEW n \in Nat, NEW c \in Nat, NEW m, Shaped(m, n, c), NEW out, NEW in,
           Permutes(m, out, in, n), NEW k, k = ApplyPermutation(m, out, in)
    PROVE  Permuted(k, m, out, in, n, c)
<1> DEFINE R == 0..(n - 1)
           C == DOMAIN out
           D == DOMAIN in
           Match(r) == CHOOSE s \in R \ C : Before(R \ C, s) = Before(R \ D, r)
           row == [r \in R |-> IF r \in D THEN in[r] ELSE m.row[Match(r)]]
<1>1. m \in MatrixSet(n, c) /\ C \in SUBSET R /\ D \in SUBSET R
  BY DEF Shaped, Permutes
<1>2. Rows(m) = R /\ DOMAIN m.row = R /\ DOMAIN m.data = R
  BY <1>1, MatrixFacts DEF MatrixSet
<1>3. k = [m EXCEPT !.row = row, !.rowinv = Positions(row)]
  BY <1>2 DEF ApplyPermutation
<1>4. ASSUME NEW r \in R \ D
      PROVE  Match(r) \in R \ C /\ Before(R \ C, Match(r)) = Before(R \ D, r)
  <2>1. \E s \in R \ C : Before(R \ C, s) = Before(R \ D, r)
    <3>1. Cardinality(C) = Cardinality(D)
      BY DEF Permutes
    <3> HIDE DEF C, D
    <3>2. Ranked(n, C, D, r)
      BY <1>1, <3>1, RestsMatch
    <3> QED BY <3>2 DEF Ranked
  <2> HIDE DEF R, C, D
  <2> QED BY <2>1
<1>5. \A s \in R \ C : \E r \in R \ D : s = Match(r)
  <2>1. TAKE s \in R \ C
  <2>2. PICK r \in R \ D : Before(R \ D, r) = Before(R \ C, s)
    <3>1. Cardinality(D) = Cardinality(C)
      BY DEF Permutes
    <3> HIDE DEF C, D
    <3>2. Ranked(n, D, C, s)
      BY <1>1, <3>1, RestsMatch
    <3> QED BY <3>2 DEF Ranked
  <2>3. Match(r) \in R \ C /\ Before(R \ C, Match(r)) = Before(R \ C, s)
    BY <1>4, <2>2
  <2>4. IsFiniteSet(R \ C) /\ R \ C \subseteq Nat
    BY <1>1, PositionsFinite
  <2> HIDE DEF Match
  <2>5. Match(r) = s
    BY <2>3, <2>4, RankInjective
  <2> QED BY <2>2, <2>5
<1> HIDE DEF Match
<1>6. \A r \in R : \E s \in R : /\ row[r] = m.row[s]
                                /\ IF r \in D THEN row[r] = in[r] /\ s \in C
                                   ELSE /\ s \notin C
                                        /\ Before(R \ C, s) = Before(R \ D, r)
  <2>1. TAKE r \in R
  <2>2. CASE r \in D
    <3>1. row[r] = in[r]
      BY <2>2
    <3>2. PICK s \in C : in[r] = m.row[s]
      BY <2>2 DEF Permutes
    <3> QED BY <1>1, <2>2, <3>1, <3>2
  <2>3. CASE r \notin D
    <3>1. row[r] = m.row[Match(r)]
      BY <2>3
    <3>2. Match(r) \in R \ C /\ Before(R \ C, Match(r)) = Before(R \ D, r)
      BY <1>4, <2>3
    <3> HIDE DEF row
    <3> QED BY <2>3, <3>1, <3>2
  <2> QED BY <2>2, <2>3
<1>7. \A s \in R : \E r \in R : /\ row[r] = m.row[s]
                                /\ IF r \in D THEN row[r] = in[r] /\ s \in C
                                   ELSE /\ s \notin C
                                        /\ Before(R \ C, s) = Before(R \ D, r)
  <2>1. TAKE s \in R
  <2>2. CASE s \in C
    <3>1. PICK p \in D : in[p] = m.row[s]
      BY <2>2 DEF Permutes
    <3>2. p \in R /\ row[p] = in[p]
      BY <1>1
    <3> QED BY <2>2, <3>1, <3>2
  <2>3. CASE s \notin C
    <3>1. PICK r \in R \ D : s = Match(r)
      BY <1>5, <2>3
    <3>2. row[r] = m.row[Match(r)]
      OBVIOUS
    <3>3. Before(R \ C, Match(r)) = Before(R \ D, r)
      BY <1>4
    <3> HIDE DEF row
    <3> QED BY <2>3, <3>1, <3>2, <3>3
  <2> QED BY <2>2, <2>3
<1>8. /\ \A q, r \in R : m.row[q].index = m.row[r].index => q = r
      /\ \A i \in R : \E r \in R : m.row[r].index = i
      /\ \A r \in R : Pivot(m, r) = ComputePivot(m, Content(m, r))
  BY <1>2 DEF Shaped
<1>9. \A q, r \in R : row[q].index = row[r].index => q = r
  <2>1. SUFFICES ASSUME NEW q \in R, NEW r \in R, row[q].index = row[r].index
                 PROVE  q = r
    OBVIOUS
  <2>2. PICK s \in R : /\ row[q] = m.row[s]
                       /\ IF q \in D THEN row[q] = in[q] /\ s \in C
                          ELSE s \notin C /\ Before(R \ C, s) = Before(R \ D, q)
    BY <1>6
  <2>3. PICK t \in R : /\ row[r] = m.row[t]
                       /\ IF r \in D THEN row[r] = in[r] /\ t \in C
                          ELSE t \notin C /\ Before(R \ C, t) = Before(R \ D, r)
    BY <1>6
  <2> HIDE DEF row
  <2>4. s = t
    BY <1>8, <2>1, <2>2, <2>3
  <2>5. CASE s \in C
    <3>1. q \in D /\ r \in D /\ in[q] = in[r]
      BY <2>2, <2>3, <2>4, <2>5
    <3> QED BY <3>1 DEF Permutes
  <2>6. CASE s \notin C
    <3>1. q \in R \ D /\ r \in R \ D /\ Before(R \ D, q) = Before(R \ D, r)
      BY <2>2, <2>3, <2>4, <2>6
    <3>2. IsFiniteSet(R \ D) /\ R \ D \subseteq Nat
      BY <1>1, PositionsFinite
    <3> HIDE DEF R, D
    <3> QED BY <3>1, <3>2, RankInjective
  <2> QED BY <2>5, <2>6
<1>10. \A i \in R : \E r \in R : row[r].index = i
  <2>1. TAKE i \in R
  <2>2. PICK s \in R : m.row[s].index = i
    BY <1>8
  <2>3. PICK r \in R : row[r] = m.row[s]
    BY <1>7
  <2> HIDE DEF row
  <2> QED BY <2>2, <2>3
<1>11. row \in [R -> MatrixRow(n, c)]
  <2>1. \A r \in R : \E s \in R : row[r] = m.row[s]
    BY <1>6
  <2>2. \A s \in R : m.row[s] \in MatrixRow(n, c)
    BY <1>1, MatrixFacts
  <2>3. \A r \in R : row[r] \in MatrixRow(n, c)
    BY <2>1, <2>2
  <2>4. DOMAIN row = R /\ row = [r \in R |-> row[r]]
    OBVIOUS
  <2> HIDE DEF row
  <2> QED BY <2>3, <2>4
<1>12. DOMAIN row = R
  BY <1>11
<1> HIDE DEF row
<1>13. Positions(row) \in [R -> R]
  <2> DEFINE P(i) == CHOOSE r \in R : row[r].index = i
  <2>1. \A i \in R : P(i) \in R
    BY <1>10
  <2>2. Positions(row) = [i \in R |-> P(i)]
    BY <1>12 DEF Positions
  <2> HIDE DEF P
  <2> QED BY <2>1, <2>2
<1>14. /\ k \in MatrixSet(n, c)
       /\ k.row = row /\ k.rowinv = Positions(row) /\ k.data = m.data /\ k.columns = m.columns
       /\ k.changes = m.changes /\ k.extract = m.extract /\ k.updateRows = m.updateRows
       /\ k.updatePivot = m.updatePivot
  BY <1>1, <1>3, <1>11, <1>13 DEF MatrixSet
<1>15. Shaped(k, n, c)
  <2>1. Rows(k) = R /\ DOMAIN k.data = R
    BY <1>2, <1>12, <1>14 DEF Rows
  <2>2. \A r \in R : Pivot(k, r) = ComputePivot(k, Content(k, r))
    <3>1. TAKE r \in R
    <3>2. PICK s \in R : row[r] = m.row[s]
      BY <1>6
    <3>3. Pivot(k, r) = Pivot(m, s) /\ Content(k, r) = Content(m, s)
      BY <1>14, <3>2 DEF Pivot, Content
    <3> QED BY <1>8, <1>14, <3>3, PivotSame
  <2> HIDE DEF R
  <2> QED BY <1>9, <1>10, <1>14, <2>1, <2>2 DEF Shaped
<1>16. \A r \in R : \E s \in R : CameFrom(k, m, out, in, n, r, s)
  BY <1>6, <1>14 DEF CameFrom
<1>17. \A s \in R : \E r \in R : CameFrom(k, m, out, in, n, r, s)
  BY <1>7, <1>14 DEF CameFrom
<1> QED BY <1>14, <1>15, <1>16, <1>17 DEF Permuted

\* Exchanging what leaves and what comes brings the rows back.
LEMMA PermutationBack ==
    ASSUME NEW n \in Nat, NEW c \in Nat, NEW m, Shaped(m, n, c), NEW out, NEW in,
           Permutes(m, out, in, n), NEW k, Permuted(k, m, out, in, n, c)
    PROVE  Same(ApplyPermutation(k, in, out), m)
<1> DEFINE R == 0..(n - 1)
           C == DOMAIN out
           D == DOMAIN in
           Match(r) == CHOOSE s \in R \ D : Before(R \ D, s) = Before(R \ C, r)
           row == [r \in R |-> IF r \in C THEN out[r] ELSE k.row[Match(r)]]
<1>1. /\ m \in MatrixSet(n, c) /\ k \in MatrixSet(n, c)
      /\ C \in SUBSET R /\ D \in SUBSET R /\ Cardinality(C) = Cardinality(D)
  BY DEF Shaped, Permuted, Permutes
<1>2. Rows(k) = R /\ DOMAIN m.row = R
  BY <1>1, MatrixFacts DEF MatrixSet
<1>3. ApplyPermutation(k, in, out) = [k EXCEPT !.row = row, !.rowinv = Positions(row)]
  BY <1>2 DEF ApplyPermutation
<1>4. \A r \in R : row[r] = m.row[r]
  <2>1. TAKE r \in R
  <2>2. CASE r \in C
    BY <2>2 DEF Permutes
  <2>3. CASE r \notin C
    <3>1. row[r] = k.row[Match(r)]
      BY <2>3
    <3>2. \E s \in R \ D : Before(R \ D, s) = Before(R \ C, r)
      <4>1. r \in R \ C
        BY <2>3
      <4> HIDE DEF C, D
      <4>2. Ranked(n, D, C, r)
        BY <1>1, <4>1, RestsMatch
      <4> QED BY <4>2 DEF Ranked
    <3>3. Match(r) \in R \ D /\ Before(R \ D, Match(r)) = Before(R \ C, r)
      <4> HIDE DEF R, C, D
      <4> QED BY <3>2
    <3>4. PICK s \in R : CameFrom(k, m, out, in, n, Match(r), s)
      BY <3>3 DEF Permuted
    <3> HIDE DEF Match
    <3>5. s \in R \ C /\ Before(R \ C, s) = Before(R \ C, r) /\ k.row[Match(r)] = m.row[s]
      BY <3>3, <3>4 DEF CameFrom
    <3>6. IsFiniteSet(R \ C) /\ R \ C \subseteq Nat
      BY <1>1, PositionsFinite
    <3>7. r \in R \ C
      BY <2>3
    <3> HIDE DEF R, C, row
    <3>8. s = r
      BY <3>5, <3>6, <3>7, RankInjective
    <3> QED BY <3>1, <3>5, <3>8
  <2> QED BY <2>2, <2>3
<1>5. row = m.row
  <2>1. m.row = [r \in R |-> m.row[r]]
    BY <1>1 DEF MatrixSet
  <2>2. row = [r \in R |-> row[r]]
    OBVIOUS
  <2> HIDE DEF row, R
  <2> QED BY <1>4, <2>1, <2>2
<1> HIDE DEF row
<1>6. m.rowinv = Positions(row)
  BY <1>5 DEF Shaped
<1> QED BY <1>1, <1>3, <1>5, <1>6 DEF Same, MatrixSet, Permuted

\* Row s comes before row r when the rows are sorted.
Lower(m, s, r) == Pivot(m, s) < Pivot(m, r) \/ (Pivot(m, s) = Pivot(m, r) /\ s < r)

FreeBelow(m, r) == {s \in Rows(m) \ m.updatePivot : Pivot(m, s) < Pivot(m, r)}

LowerRows(m, r) == {s \in m.updatePivot : Lower(m, s, r)}

\* The rows that are sorted get positions in the order of their pivots.
LEMMA SortedPositionGrows ==
    ASSUME NEW n \in Nat, NEW c \in Nat, NEW m \in MatrixSet(n, c), NEW r \in m.updatePivot
    PROVE  /\ SortedPosition(m, r) \in 0..(n - 1)
           /\ SortedPosition(m, r) = Cardinality(FreeBelow(m, r)) + Cardinality(LowerRows(m, r))
           /\ \A s \in m.updatePivot : Lower(m, r, s) =>
                 SortedPosition(m, r) < SortedPosition(m, s)
<1> DEFINE R == 0..(n - 1)
           U == m.updatePivot
<1>1. /\ U \in SUBSET R /\ Rows(m) = R
      /\ \A s \in R : s \in Int /\ Pivot(m, s) \in Int
  <2>1. U \in SUBSET R
    BY DEF MatrixSet
  <2>2. Rows(m) = R
    BY MatrixFacts
  <2>3. \A s \in R : Pivot(m, s) \in 0..(c + 1)
    BY MatrixFacts
  <2> QED BY <2>1, <2>2, <2>3
<1>2. /\ IsFiniteSet(U) /\ IsFiniteSet(R \ U)
      /\ Cardinality(U) \in Nat /\ Cardinality(R \ U) = n - Cardinality(U)
  BY <1>1, PositionsFinite
<1> HIDE DEF R
<1>3. \A s : SortedPosition(m, s) = Cardinality(FreeBelow(m, s)) + Cardinality(LowerRows(m, s))
  BY DEF SortedPosition, FreeBelow, LowerRows, Lower
<1>4. ASSUME NEW s \in U
      PROVE  /\ IsFiniteSet(FreeBelow(m, s)) /\ Cardinality(FreeBelow(m, s)) \in Nat
             /\ Cardinality(FreeBelow(m, s)) <= n - Cardinality(U)
             /\ IsFiniteSet(LowerRows(m, s)) /\ Cardinality(LowerRows(m, s)) \in Nat
             /\ IsFiniteSet(LowerRows(m, s) \cup {s})
             /\ Cardinality(LowerRows(m, s) \cup {s}) = Cardinality(LowerRows(m, s)) + 1
             /\ Cardinality(LowerRows(m, s)) + 1 <= Cardinality(U)
  <2>1. FreeBelow(m, s) \in SUBSET (R \ U) /\ LowerRows(m, s) \in SUBSET U
    BY <1>1 DEF FreeBelow, LowerRows
  <2>2. /\ IsFiniteSet(FreeBelow(m, s)) /\ IsFiniteSet(LowerRows(m, s))
        /\ Cardinality(FreeBelow(m, s)) <= n - Cardinality(U)
    BY <1>2, <2>1, FS_Subset
  <2>3. Cardinality(FreeBelow(m, s)) \in Nat /\ Cardinality(LowerRows(m, s)) \in Nat
    BY <2>2, FS_CardinalityType
  <2>4. s \notin LowerRows(m, s) /\ LowerRows(m, s) \cup {s} \in SUBSET U
    BY <1>1, <2>1 DEF LowerRows, Lower
  <2>5. /\ IsFiniteSet(LowerRows(m, s) \cup {s})
        /\ Cardinality(LowerRows(m, s) \cup {s}) = Cardinality(LowerRows(m, s)) + 1
    BY <2>2, <2>4, FS_AddElement
  <2>6. Cardinality(LowerRows(m, s) \cup {s}) <= Cardinality(U)
    BY <1>2, <2>4, FS_Subset
  <2> QED BY <2>2, <2>3, <2>5, <2>6
<1>5. SortedPosition(m, r) \in 0..(n - 1)
  <2> DEFINE a == Cardinality(FreeBelow(m, r))
             b == Cardinality(LowerRows(m, r))
             u == Cardinality(U)
  <2>1. a \in Nat /\ b \in Nat /\ u \in Nat /\ a <= n - u /\ b + 1 <= u
    BY <1>2, <1>4
  <2>2. SortedPosition(m, r) = a + b
    BY <1>3
  <2> HIDE DEF a, b, u
  <2>3. a + b \in 0..(n - 1)
    BY <2>1
  <2> QED BY <2>2, <2>3
<1>6. ASSUME NEW s \in U, Lower(m, r, s)
      PROVE  SortedPosition(m, r) < SortedPosition(m, s)
  <2>1. r \in R /\ s \in R
    BY <1>1
  <2>2. FreeBelow(m, r) \in SUBSET FreeBelow(m, s)
    BY <1>1, <1>6, <2>1 DEF FreeBelow, Lower
  <2>3. LowerRows(m, r) \cup {r} \in SUBSET LowerRows(m, s)
    <3>1. ASSUME NEW q \in U, Lower(m, q, r) PROVE Lower(m, q, s)
      <4>1. q \in R
        BY <1>1
      <4>2. /\ Pivot(m, q) \in Int /\ Pivot(m, r) \in Int /\ Pivot(m, s) \in Int
            /\ q \in Int /\ r \in Int /\ s \in Int
        BY <1>1, <2>1, <4>1
      <4> QED BY <1>6, <3>1, <4>2 DEF Lower
    <3> QED BY <1>6, <3>1 DEF LowerRows
  <2>4. Cardinality(FreeBelow(m, r)) <= Cardinality(FreeBelow(m, s))
    BY <1>4, <2>2, FS_Subset
  <2>5. Cardinality(LowerRows(m, r) \cup {r}) <= Cardinality(LowerRows(m, s))
    BY <1>4, <2>3, FS_Subset
  <2>6. /\ Cardinality(FreeBelow(m, r)) \in Nat /\ Cardinality(FreeBelow(m, s)) \in Nat
        /\ Cardinality(LowerRows(m, r)) \in Nat /\ Cardinality(LowerRows(m, s)) \in Nat
        /\ Cardinality(LowerRows(m, r) \cup {r}) = Cardinality(LowerRows(m, r)) + 1
    BY <1>4
  <2> QED BY <1>3, <2>4, <2>5, <2>6
<1> QED BY <1>3, <1>5, <1>6

\* So they get different ones.
LEMMA SortedPositionInjective ==
    ASSUME NEW n \in Nat, NEW c \in Nat, NEW m \in MatrixSet(n, c), NEW r \in m.updatePivot,
           NEW s \in m.updatePivot, SortedPosition(m, r) = SortedPosition(m, s)
    PROVE  r = s
<1>1. r \in 0..(n - 1) /\ s \in 0..(n - 1)
  BY DEF MatrixSet
<1>2. /\ Pivot(m, r) \in Int /\ Pivot(m, s) \in Int /\ r \in Int /\ s \in Int
  BY <1>1, MatrixFacts
<1>3. Lower(m, r, s) \/ Lower(m, s, r) \/ r = s
  BY <1>2 DEF Lower
<1>4. SortedPosition(m, r) \in Int
  BY SortedPositionGrows
<1> QED BY <1>3, <1>4, SortedPositionGrows

SortOut(m) == [r \in m.updatePivot |-> m.row[r]]

SortIn(m) ==
    [p \in {SortedPosition(m, r) : r \in m.updatePivot} |->
        m.row[CHOOSE r \in m.updatePivot : SortedPosition(m, r) = p]]

\* Sorting permutes the rows.
LEMMA SortPermutes ==
    ASSUME NEW n \in Nat, NEW c \in Nat, NEW m, Shaped(m, n, c)
    PROVE  /\ Permutes(m, SortOut(m), SortIn(m), n)
           /\ \A r \in m.updatePivot : /\ SortedPosition(m, r) \in DOMAIN SortIn(m)
                                       /\ SortIn(m)[SortedPosition(m, r)] = m.row[r]
           /\ \A p \in DOMAIN SortIn(m) : \E r \in m.updatePivot : p = SortedPosition(m, r)
           /\ SortOut(m) \in Moved(n, c) /\ SortIn(m) \in Moved(n, c)
<1> DEFINE R == 0..(n - 1)
           U == m.updatePivot
           D == {SortedPosition(m, r) : r \in U}
           K(p) == CHOOSE r \in U : SortedPosition(m, r) = p
<1>1. m \in MatrixSet(n, c) /\ U \in SUBSET R
  BY DEF Shaped, MatrixSet
<1>2. \A r \in U : SortedPosition(m, r) \in R
  BY <1>1, SortedPositionGrows
<1>3. D \in SUBSET R
  BY <1>2
<1>4. \A p \in D : K(p) \in U /\ SortedPosition(m, K(p)) = p
  OBVIOUS
<1>5. \A r \in U : K(SortedPosition(m, r)) = r
  <2>1. TAKE r \in U
  <2>2. SortedPosition(m, r) \in D
    OBVIOUS
  <2> DEFINE t == K(SortedPosition(m, r))
  <2>3. t \in U /\ SortedPosition(m, t) = SortedPosition(m, r)
    BY <1>4, <2>2
  <2> HIDE DEF t
  <2>4. t = r
    BY <1>1, <2>3, SortedPositionInjective
  <2> QED BY <2>4 DEF t
<1>6. SortIn(m) = [p \in D |-> m.row[K(p)]]
  BY DEF SortIn
<1> HIDE DEF K, D
<1>7. DOMAIN SortIn(m) = D /\ DOMAIN SortOut(m) = U
  BY <1>6 DEF SortOut
<1>8. \A r \in U : SortedPosition(m, r) \in D
  BY DEF D
<1>9. \A p \in D : SortIn(m)[p] = m.row[K(p)]
  BY <1>6
<1>10. \A r \in U : SortIn(m)[SortedPosition(m, r)] = m.row[r]
  BY <1>5, <1>8, <1>9
<1>11. \A r \in U : m.row[r] \in MatrixRow(n, c)
  BY <1>1, MatrixFacts
<1>12. SortOut(m) \in [U -> MatrixRow(n, c)] /\ SortIn(m) \in [D -> MatrixRow(n, c)]
  BY <1>4, <1>6, <1>11 DEF SortOut
<1>13. SortOut(m) \in Moved(n, c) /\ SortIn(m) \in Moved(n, c)
  BY <1>1, <1>3, <1>12 DEF Moved
<1>14. Cardinality(U) = Cardinality(D)
  <2> DEFINE f == [r \in U |-> SortedPosition(m, r)]
  <2>1. f \in [U -> D]
    BY <1>8
  <2>2. \A r, s \in U : f[r] = f[s] => r = s
    BY <1>1, SortedPositionInjective
  <2>3. \A p \in D : \E r \in U : f[r] = p
    BY DEF D
  <2> HIDE DEF f
  <2>4. f \in Bijection(U, D)
    BY <2>1, <2>2, <2>3 DEF Bijection, Injection, Surjection, IsInjective
  <2>5. IsFiniteSet(U)
    BY <1>1, PositionsFinite
  <2> QED BY <2>4, <2>5, FS_Bijection DEF ExistsBijection
<1>15. \A p, q \in D : SortIn(m)[p] = SortIn(m)[q] => p = q
  <2>1. SUFFICES ASSUME NEW p \in D, NEW q \in D, SortIn(m)[p] = SortIn(m)[q]
                 PROVE  p = q
    OBVIOUS
  <2>2. K(p) \in R /\ K(q) \in R /\ m.row[K(p)].index = m.row[K(q)].index
    BY <1>1, <1>4, <1>9, <2>1
  <2>3. Rows(m) = R
    BY <1>1, MatrixFacts
  <2>4. K(p) = K(q)
    BY <2>2, <2>3 DEF Shaped
  <2> QED BY <1>4, <2>4
<1>16. Permutes(m, SortOut(m), SortIn(m), n)
  <2>1. \A p \in D : \E r \in U : SortIn(m)[p] = m.row[r]
    BY <1>4, <1>9
  <2>2. \A r \in U : \E p \in D : SortIn(m)[p] = m.row[r]
    BY <1>8, <1>10
  <2>3. SortIn(m) = [p \in D |-> SortIn(m)[p]] /\ SortOut(m) = [r \in U |-> m.row[r]]
    BY <1>12 DEF SortOut
  <2> QED BY <1>1, <1>3, <1>7, <1>14, <1>15, <2>1, <2>2, <2>3 DEF Permutes
<1> QED BY <1>4, <1>7, <1>8, <1>10, <1>13, <1>16

\* Sorting is an undoable change of the order.
LEMMA SortIs ==
    ASSUME NEW n \in Nat, NEW c \in Nat, NEW m, Shaped(m, n, c),
           NEW k, k = Apply(m, SortChange(SortOut(m), SortIn(m)))
    PROVE  /\ Permuted(k, m, SortOut(m), SortIn(m), n, c)
           /\ SortChange(SortOut(m), SortIn(m)) \in Change(n, c)
           /\ Same(UndoChange(SortChange(SortOut(m), SortIn(m)), k), m)
<1>1. Permutes(m, SortOut(m), SortIn(m), n)
  BY SortPermutes
<1>2. k = ApplyPermutation(m, SortOut(m), SortIn(m))
  BY DEF Apply, SortChange
<1>3. Permuted(k, m, SortOut(m), SortIn(m), n, c)
  BY <1>1, <1>2, PermutationIs
<1>4. Same(ApplyPermutation(k, SortIn(m), SortOut(m)), m)
  BY <1>1, <1>3, PermutationBack
<1>5. SortOut(m) \in Moved(n, c) /\ SortIn(m) \in Moved(n, c)
  BY SortPermutes
<1> QED BY <1>3, <1>4, <1>5 DEF SortChange, Change, UndoChange

-----------------------------------------------------------------------------
(* Changes and the log *)

\* A change that can be made to m and taken back.
Good(ch, m, n, c) ==
    \/ \E r \in 0..(n - 1), E \in (SUBSET (0..c)) \ {{}} : ch = XorRow(r, E)
    \/ \E a, b \in 0..(n - 1) : a # b /\ ch = XorRowtoRow(a, b)
    \/ ch = SortChange(SortOut(m), SortIn(m))

\* k is m with the change, before it is logged.
Made(k, ch, m, n, c) ==
    /\ Shaped(k, n, c) /\ ch \in Change(n, c) /\ Same(UndoChange(ch, k), m)
    /\ k.changes = m.changes /\ k.columns = m.columns
    /\ k.updateRows = m.updateRows /\ k.updatePivot = m.updatePivot

\* Adding an equation to a row.
LEMMA RowChangeIs ==
    ASSUME NEW n \in Nat, NEW c \in Nat, NEW m, Shaped(m, n, c), NEW r \in 0..(n - 1),
           NEW E \in (SUBSET (0..c)) \ {{}}, NEW k, k = Apply(m, XorRow(r, E))
    PROVE  Added(k, m, r, E, n, c) /\ Made(k, XorRow(r, E), m, n, c)
<1>1. m \in MatrixSet(n, c) /\ m.columns = c
  BY DEF Shaped, MatrixSet
<1>2. Min(E) = ComputePivot(m, E)
  BY DEF ComputePivot
<1>3. k = XorInto(m, r, E, ComputePivot(m, E))
  BY <1>2 DEF Apply, XorRow
<1>4. Added(k, m, r, E, n, c)
  BY <1>3, XorIntoIs
<1>5. Same(XorInto(k, r, E, ComputePivot(m, E)), m)
  BY <1>3, XorIntoTwice
<1>6. UndoChange(XorRow(r, E), k) = XorInto(k, r, E, ComputePivot(m, E))
  BY <1>2 DEF UndoChange, Apply, XorRow
<1>7. XorRow(r, E) \in Change(n, c)
  BY DEF XorRow, Change
<1> QED BY <1>4, <1>5, <1>6, <1>7 DEF Made, Added

\* Adding a row to another one.
LEMMA RowToRowIs ==
    ASSUME NEW n \in Nat, NEW c \in Nat, NEW m, Shaped(m, n, c), NEW a \in 0..(n - 1),
           NEW b \in 0..(n - 1), a # b, NEW k, k = Apply(m, XorRowtoRow(a, b))
    PROVE  /\ Added(k, m, a, Content(m, b), n, c)
           /\ Made(k, XorRowtoRow(a, b), m, n, c)
<1>1. m \in MatrixSet(n, c) /\ Rows(m) = 0..(n - 1)
  BY MatrixFacts DEF Shaped
<1>2. Content(m, b) \in SUBSET (0..c)
  BY <1>1, MatrixFacts
<1>3. Pivot(m, b) = ComputePivot(m, Content(m, b))
  BY <1>1 DEF Shaped
<1>4. k = XorInto(m, a, Content(m, b), ComputePivot(m, Content(m, b)))
  BY <1>3 DEF Apply, XorRowtoRow
<1>5. Added(k, m, a, Content(m, b), n, c)
  BY <1>2, <1>4, XorIntoIs
<1>6. Same(XorInto(k, a, Content(m, b), ComputePivot(m, Content(m, b))), m)
  BY <1>2, <1>4, XorIntoTwice
<1>7. Content(k, b) = Content(m, b) /\ Pivot(k, b) = Pivot(m, b)
  BY <1>5 DEF Added
<1>8. UndoChange(XorRowtoRow(a, b), k)
        = XorInto(k, a, Content(m, b), ComputePivot(m, Content(m, b)))
  BY <1>3, <1>7 DEF UndoChange, Apply, XorRowtoRow
<1>9. XorRowtoRow(a, b) \in Change(n, c)
  BY DEF XorRowtoRow, Change
<1> QED BY <1>5, <1>6, <1>8, <1>9 DEF Made, Added

\* Every good change is made so that it can be taken back.
LEMMA ChangeIs ==
    ASSUME NEW n \in Nat, NEW c \in Nat, NEW m, Shaped(m, n, c), NEW ch, Good(ch, m, n, c)
    PROVE  Made(Apply(m, ch), ch, m, n, c)
<1>1. CASE \E r \in 0..(n - 1), E \in (SUBSET (0..c)) \ {{}} : ch = XorRow(r, E)
  BY <1>1, RowChangeIs
<1>2. CASE \E a, b \in 0..(n - 1) : a # b /\ ch = XorRowtoRow(a, b)
  BY <1>2, RowToRowIs
<1>3. CASE ch = SortChange(SortOut(m), SortIn(m))
  <2> DEFINE k == Apply(m, ch)
  <2>1. /\ Permuted(k, m, SortOut(m), SortIn(m), n, c)
        /\ ch \in Change(n, c)
        /\ Same(UndoChange(ch, k), m)
    BY <1>3, SortIs
  <2> QED BY <2>1 DEF Made, Permuted
<1> QED BY <1>1, <1>2, <1>3 DEF Good

\* The shape is one of the equations and their order.
LEMMA SameShaped ==
    ASSUME NEW n, NEW c, NEW a, NEW b, Shaped(a, n, c), b \in MatrixSet(n, c), Same(a, b)
    PROVE  Shaped(b, n, c)
<1>1. Rows(a) = Rows(b) /\ DOMAIN a.data = DOMAIN b.data
  BY DEF Same, Rows
<1>2. \A r : Pivot(a, r) = Pivot(b, r) /\ Content(a, r) = Content(b, r)
  BY DEF Same, Pivot, Content
<1>3. \A A : ComputePivot(a, A) = ComputePivot(b, A)
  BY DEF Same, ComputePivot, NOPIVOT
<1> QED BY <1>1, <1>2, <1>3 DEF Same, Shaped

\* Matrices that are the same as a third one.
LEMMA SameTransitive ==
    ASSUME NEW a, NEW b, NEW k, Same(a, b), Same(b, k)
    PROVE  Same(a, k) /\ Same(b, a)
  BY DEF Same

\* Taking a change back depends on nothing else.
LEMMA UndoCongruent ==
    ASSUME NEW n, NEW c, NEW a, NEW b, a \in MatrixSet(n, c), b \in MatrixSet(n, c),
           Same(a, b), NEW ch \in Change(n, c), NEW x, Shaped(x, n, c), Same(UndoChange(ch, a), x)
    PROVE  Same(UndoChange(ch, b), x) /\ Shaped(UndoChange(ch, b), n, c)
<1>1. Rows(a) = Rows(b)
  BY DEF Same, Rows
<1>2. \A r : Pivot(a, r) = Pivot(b, r) /\ Content(a, r) = Content(b, r)
  BY DEF Same, Pivot, Content
<1>3. \A A : ComputePivot(a, A) = ComputePivot(b, A)
  BY DEF Same, ComputePivot, NOPIVOT
<1>4. x \in MatrixSet(n, c)
  BY DEF Shaped
<1> DEFINE Rest(k, m) == k = [m EXCEPT !.data = k.data, !.row = k.row, !.rowinv = k.rowinv,
                                      !.extract = k.extract]
<1>5. ASSUME NEW r \in 0..(n - 1), NEW E, NEW p
      PROVE  LET k == XorInto(a, r, E, p)
                 l == XorInto(b, r, E, p)
             IN  /\ Same(k, l) /\ Rest(l, b) /\ l.extract \in SUBSET (0..(n - 1))
  <2>1. b.row[r].index \in 0..(n - 1)
    BY MatrixFacts
  <2> DEFINE sum == SymDiff(Content(b, r), E)
             q == IF Pivot(b, r) < p THEN Pivot(b, r)
                  ELSE IF Pivot(b, r) = p THEN ComputePivot(b, sum) ELSE p
             l == XorInto(b, r, E, p)
             k == XorInto(a, r, E, p)
             data(m) == [m.data EXCEPT ![m.row[r].index] = sum]
             row(m) == [m.row EXCEPT ![r] = [@ EXCEPT !.pivot = q]]
             seen(m) == m.extract \cup {m.row[r].index}
  <2>2. l = [b EXCEPT !.data = data(b), !.extract = seen(b), !.row = row(b)]
    BY DEF XorInto, MatrixSet
  <2>3. k = [a EXCEPT !.data = data(a), !.extract = seen(a), !.row = row(a)]
    BY <1>2, <1>3 DEF XorInto, MatrixSet
  <2>4. data(a) = data(b) /\ row(a) = row(b) /\ seen(b) \in SUBSET (0..(n - 1))
    BY <2>1 DEF Same, MatrixSet
  <2> HIDE DEF k, l, data, row, seen
  <2>5. /\ l.columns = b.columns /\ l.rowinv = b.rowinv /\ l.extract = seen(b)
        /\ l.data = data(b) /\ l.row = row(b)
    BY <2>2 DEF MatrixSet
  <2>6. /\ k.columns = a.columns /\ k.rowinv = a.rowinv
        /\ k.data = data(a) /\ k.row = row(a)
    BY <2>3 DEF MatrixSet
  <2>7. Rest(l, b)
    BY <2>2, <2>5 DEF MatrixSet
  <2>8. Same(k, l)
    BY <2>4, <2>5, <2>6 DEF Same
  <2>9. l.extract \in SUBSET (0..(n - 1))
    BY <2>4, <2>5
  <2> QED BY <2>7, <2>8, <2>9 DEF k, l
<1>6. ASSUME NEW out, NEW in
      PROVE  LET k == ApplyPermutation(a, out, in)
                 l == ApplyPermutation(b, out, in)
             IN  /\ Same(k, l) /\ Rest(l, b) /\ l.extract = b.extract
  <2> DEFINE Row(m) == [r \in Rows(m) |->
                   IF r \in DOMAIN in THEN in[r]
                   ELSE m.row[CHOOSE s \in Rows(m) \ DOMAIN out :
                                Before(Rows(m) \ DOMAIN out, s) = Before(Rows(m) \ DOMAIN in, r)]]
             l == ApplyPermutation(b, out, in)
             k == ApplyPermutation(a, out, in)
  <2>1. Row(a) = Row(b)
    BY <1>1 DEF Same
  <2>2. /\ k = [a EXCEPT !.row = Row(a), !.rowinv = Positions(Row(a))]
        /\ l = [b EXCEPT !.row = Row(b), !.rowinv = Positions(Row(b))]
    BY DEF ApplyPermutation
  <2> HIDE DEF Row, k, l
  <2>3. /\ l.columns = b.columns /\ l.data = b.data /\ Rest(l, b) /\ l.extract = b.extract
        /\ l.row = Row(b) /\ l.rowinv = Positions(Row(b))
    BY <2>2 DEF MatrixSet
  <2>4. /\ k.columns = a.columns /\ k.data = a.data
        /\ k.row = Row(a) /\ k.rowinv = Positions(Row(a))
    BY <2>2 DEF MatrixSet
  <2> QED BY <2>1, <2>3, <2>4 DEF Same, k, l
<1> DEFINE k == UndoChange(ch, a)
           l == UndoChange(ch, b)
<1>7. /\ Same(k, l) /\ Rest(l, b) /\ l.extract \in SUBSET (0..(n - 1))
  <2>1. CASE ch \in [kind : {"row"}, row : 0..(n - 1), equation : (SUBSET (0..c)) \ {{}}]
    <3>1. /\ ch.row \in 0..(n - 1)
          /\ k = XorInto(a, ch.row, ch.equation, Min(ch.equation))
          /\ l = XorInto(b, ch.row, ch.equation, Min(ch.equation))
      BY <2>1 DEF UndoChange, Apply
    <3> HIDE DEF k, l, Rest
    <3> QED BY <1>5, <3>1
  <2>2. CASE ch \in [kind : {"row to row"}, row : 0..(n - 1), by : 0..(n - 1)]
    <3>1. /\ ch.row \in 0..(n - 1)
          /\ k = XorInto(a, ch.row, Content(a, ch.by), Pivot(a, ch.by))
          /\ l = XorInto(b, ch.row, Content(b, ch.by), Pivot(b, ch.by))
      BY <2>2 DEF UndoChange, Apply
    <3>2. l = XorInto(b, ch.row, Content(a, ch.by), Pivot(a, ch.by))
      BY <1>2, <3>1
    <3> HIDE DEF k, l, Rest
    <3> QED BY <1>5, <3>1, <3>2
  <2>3. CASE ch \in [kind : {"sort"}, out : Moved(n, c), in : Moved(n, c)]
    <3>1. k = ApplyPermutation(a, ch.in, ch.out) /\ l = ApplyPermutation(b, ch.in, ch.out)
      BY <2>3 DEF UndoChange
    <3>2. b.extract \in SUBSET (0..(n - 1))
      BY DEF MatrixSet
    <3> HIDE DEF k, l, Rest
    <3> QED BY <1>6, <3>1, <3>2
  <2> HIDE DEF k, l, Rest
  <2> QED BY <2>1, <2>2, <2>3 DEF Change
<1>9. Same(k, x)
  OBVIOUS
<1> HIDE DEF k, l
<1>8. l \in MatrixSet(n, c)
  <2>1. /\ k.data \in [0..(n - 1) -> SUBSET (0..c)]
        /\ k.row \in [0..(n - 1) -> MatrixRow(n, c)]
        /\ k.rowinv \in [0..(n - 1) -> 0..(n - 1)]
    BY <1>4, <1>9 DEF MatrixSet, Same
  <2>2. /\ l.data \in [0..(n - 1) -> SUBSET (0..c)]
        /\ l.row \in [0..(n - 1) -> MatrixRow(n, c)]
        /\ l.rowinv \in [0..(n - 1) -> 0..(n - 1)]
        /\ l.extract \in SUBSET (0..(n - 1))
    BY <1>7, <2>1 DEF Same
  <2> DEFINE data == l.data
             row == l.row
             rowinv == l.rowinv
             extract == l.extract
  <2>3. l = [b EXCEPT !.data = data, !.row = row, !.rowinv = rowinv, !.extract = extract]
    BY <1>7
  <2>4. /\ data \in [0..(n - 1) -> SUBSET (0..c)]
        /\ row \in [0..(n - 1) -> MatrixRow(n, c)]
        /\ rowinv \in [0..(n - 1) -> 0..(n - 1)]
        /\ extract \in SUBSET (0..(n - 1))
    BY <2>2
  <2> HIDE DEF data, row, rowinv, extract
  <2>5. [b EXCEPT !.data = data, !.row = row, !.rowinv = rowinv, !.extract = extract]
           \in MatrixSet(n, c)
    BY <2>4 DEF MatrixSet
  <2> QED BY <2>3, <2>5
<1>10. Same(x, l) /\ Same(l, x)
  BY <1>7, <1>9 DEF Same
<1>11. Shaped(l, n, c)
  BY <1>8, <1>10, SameShaped
<1> QED BY <1>10, <1>11 DEF l

\* The equation of the recursive function of Undone, from the j-th change on.
UndoneFrom(m, j, f) ==
    [k \in j..Len(m.changes) |->
        IF k = Len(m.changes) THEN m ELSE UndoChange(m.changes[k + 1], f[k + 1])]

\* Each matrix is the next one without the change between them.
UndoChain(m, f) ==
    /\ f[Len(m.changes)] = m
    /\ \A k \in 0..(Len(m.changes) - 1) : f[k] = UndoChange(m.changes[k + 1], f[k + 1])

\* Undone solves it.
LEMMA UndoneIs ==
    ASSUME NEW m, Len(m.changes) \in Nat
    PROVE  UndoChain(m, Undone(m))
<1> DEFINE N == Len(m.changes)
           T == {i \in Nat : i <= N /\ ~ \E f : f = UndoneFrom(m, N - i, f)}
<1>1. T = {}
  <2>1. SUFFICES ASSUME T # {} PROVE FALSE
    OBVIOUS
  <2>2. PICK i \in T : \A k \in T : i <= k
    <3>1. T \in SUBSET Nat
      OBVIOUS
    <3> HIDE DEF T
    <3> QED BY <2>1, <3>1, LeastIndex
  <2>3. i \in Nat /\ i <= N /\ ~ \E f : f = UndoneFrom(m, N - i, f)
    OBVIOUS
  <2>4. CASE i = 0
    <3> DEFINE g == [k \in {N} |-> m]
    <3>1. (N - i)..N = {N}
      BY <2>4
    <3>2. UndoneFrom(m, N - i, g) = [k \in {N} |-> m]
      BY <3>1 DEF UndoneFrom
    <3> QED BY <2>3, <3>2
  <2>5. CASE i # 0
    <3>1. i - 1 \in Nat /\ ~ (i <= i - 1) /\ i - 1 <= N
      BY <2>3, <2>5
    <3>2. i - 1 \notin T
      BY <2>2, <3>1
    <3> DEFINE j == N - i
    <3>3. N - (i - 1) = j + 1 /\ j \in Int /\ j < N
      BY <2>3, <2>5
    <3>4. PICK f : f = UndoneFrom(m, j + 1, f)
      BY <3>1, <3>2, <3>3
    <3> DEFINE g == UndoneFrom(m, j, f)
    <3> HIDE DEF j, N
    <3>5. \A k \in (j + 1)..N : k \in j..N
      BY <3>3
    <3>6. \A k \in (j + 1)..N : g[k] = f[k]
      <4>1. \A k \in (j + 1)..N :
               f[k] = IF k = N THEN m ELSE UndoChange(m.changes[k + 1], f[k + 1])
        BY <3>4 DEF UndoneFrom, N
      <4>2. \A k \in j..N :
               g[k] = IF k = N THEN m ELSE UndoChange(m.changes[k + 1], f[k + 1])
        BY DEF UndoneFrom, N
      <4> QED BY <3>5, <4>1, <4>2
    <3>7. \A k \in j..N : k # N => k + 1 \in (j + 1)..N
      BY <3>3 DEF N
    <3> HIDE DEF g
    <3>8. UndoneFrom(m, j, g) = UndoneFrom(m, j, f)
      <4>1. \A k \in j..N : (IF k = N THEN m ELSE UndoChange(m.changes[k + 1], g[k + 1]))
                          = (IF k = N THEN m ELSE UndoChange(m.changes[k + 1], f[k + 1]))
        BY <3>6, <3>7
      <4> QED BY <4>1 DEF UndoneFrom, N
    <3> QED BY <2>3, <3>8 DEF g, j
  <2> QED BY <2>4, <2>5
<1>2. N \in Nat /\ N <= N /\ N - N = 0
  OBVIOUS
<1>3. \E f : f = UndoneFrom(m, 0, f)
  BY <1>1, <1>2
<1> DEFINE f == CHOOSE f : f = UndoneFrom(m, 0, f)
<1>4. f = UndoneFrom(m, 0, f)
  BY <1>3
<1>5. Undone(m) = f
  BY DEF Undone, UndoneFrom
<1> HIDE DEF f
<1>6. \A k \in 0..N : f[k] = IF k = N THEN m ELSE UndoChange(m.changes[k + 1], f[k + 1])
  BY <1>4 DEF UndoneFrom
<1>7. N \in 0..N /\ \A k \in 0..(N - 1) : k \in 0..N /\ k # N
  BY <1>2
<1> QED BY <1>5, <1>6, <1>7 DEF UndoChain

\* The equation of the recursive function of InOrder, to the n-th change.
OrderedTo(m, change, log, n, f) ==
    [k \in 0..n |-> IF k = 0 THEN m
                    ELSE IF k - 1 \in DOMAIN change THEN Changed(f[k - 1], change[k - 1], log)
                    ELSE f[k - 1]]

\* InOrder solves it.
LEMMA InOrderIs ==
    ASSUME NEW m, m.columns \in Nat, NEW change, NEW log
    PROVE  \E f : /\ f[0] = m /\ f[m.columns + 1] = InOrder(m, change, log)
                  /\ \A k \in 0..m.columns :
                        f[k + 1] = IF k \in DOMAIN change THEN Changed(f[k], change[k], log)
                                   ELSE f[k]
<1> DEFINE N == m.columns + 1
           T == {i \in Nat : ~ \E f : f = OrderedTo(m, change, log, i, f)}
<1>1. T = {}
  <2>1. SUFFICES ASSUME T # {} PROVE FALSE
    OBVIOUS
  <2>2. PICK i \in T : \A k \in T : i <= k
    <3>1. T \in SUBSET Nat
      OBVIOUS
    <3> HIDE DEF T
    <3> QED BY <2>1, <3>1, LeastIndex
  <2>3. i \in Nat /\ ~ \E f : f = OrderedTo(m, change, log, i, f)
    OBVIOUS
  <2>4. CASE i = 0
    <3> DEFINE g == [k \in {0} |-> m]
    <3>1. 0..i = {0}
      BY <2>4
    <3>2. OrderedTo(m, change, log, i, g) = [k \in {0} |-> m]
      BY <3>1 DEF OrderedTo
    <3> QED BY <2>3, <3>2
  <2>5. CASE i # 0
    <3>1. i - 1 \in Nat /\ ~ (i <= i - 1)
      BY <2>3, <2>5
    <3>2. i - 1 \notin T
      BY <2>2, <3>1
    <3>3. PICK f : f = OrderedTo(m, change, log, i - 1, f)
      BY <3>1, <3>2
    <3> DEFINE g == OrderedTo(m, change, log, i, f)
    <3>4. \A k \in 0..(i - 1) : g[k] = f[k]
      <4>1. \A k \in 0..(i - 1) : k \in 0..i
        BY <2>3
      <4>2. \A k \in 0..(i - 1) :
               f[k] = IF k = 0 THEN m
                      ELSE IF k - 1 \in DOMAIN change THEN Changed(f[k - 1], change[k - 1], log)
                      ELSE f[k - 1]
        BY <3>3 DEF OrderedTo
      <4>3. \A k \in 0..i :
               g[k] = IF k = 0 THEN m
                      ELSE IF k - 1 \in DOMAIN change THEN Changed(f[k - 1], change[k - 1], log)
                      ELSE f[k - 1]
        BY DEF OrderedTo
      <4> QED BY <4>1, <4>2, <4>3
    <3>5. \A k \in 0..i : k # 0 => k - 1 \in 0..(i - 1)
      BY <2>3
    <3> HIDE DEF g
    <3>6. OrderedTo(m, change, log, i, g) = OrderedTo(m, change, log, i, f)
      <4>1. \A k \in 0..i :
               (IF k = 0 THEN m
                ELSE IF k - 1 \in DOMAIN change THEN Changed(g[k - 1], change[k - 1], log)
                ELSE g[k - 1])
             = (IF k = 0 THEN m
                ELSE IF k - 1 \in DOMAIN change THEN Changed(f[k - 1], change[k - 1], log)
                ELSE f[k - 1])
        BY <3>4, <3>5
      <4> QED BY <4>1 DEF OrderedTo
    <3> QED BY <2>3, <3>6 DEF g
  <2> QED BY <2>4, <2>5
<1>2. N \in Nat
  OBVIOUS
<1>3. \E f : f = OrderedTo(m, change, log, N, f)
  BY <1>1, <1>2
<1> DEFINE f == CHOOSE f : f = OrderedTo(m, change, log, N, f)
<1>4. f = OrderedTo(m, change, log, N, f)
  BY <1>3
<1>5. InOrder(m, change, log) = f[N]
  BY DEF InOrder, OrderedTo
<1> HIDE DEF f, N
<1>6. \A k \in 0..N : f[k] = IF k = 0 THEN m
                             ELSE IF k - 1 \in DOMAIN change
                                  THEN Changed(f[k - 1], change[k - 1], log)
                             ELSE f[k - 1]
  BY <1>4 DEF OrderedTo
<1>7. 0 \in 0..N
  BY <1>2
<1>8. \A k \in 0..m.columns : k + 1 \in 0..N /\ k + 1 # 0 /\ (k + 1) - 1 = k
  BY DEF N
<1>9. f[0] = m
  BY <1>6, <1>7
<1>10. \A k \in 0..m.columns :
          f[k + 1] = IF k \in DOMAIN change THEN Changed(f[k], change[k], log) ELSE f[k]
  <2>1. TAKE k \in 0..m.columns
  <2>2. f[k + 1] = IF (k + 1) - 1 \in DOMAIN change
                        THEN Changed(f[(k + 1) - 1], change[(k + 1) - 1], log)
                   ELSE f[(k + 1) - 1]
    BY <1>6, <1>8
  <2> QED BY <1>8, <2>2
<1> QED BY <1>5, <1>9, <1>10 DEF N

\* A property that every change keeps is kept by all of them in order.
\* (The property is given as the set of the matrices that have it.)
LEMMA InOrderKeeps ==
    ASSUME NEW m, m.columns \in Nat, NEW change, NEW log, NEW S, m \in S,
           \A k \in 0..m.columns : \A a \in S :
              k \in DOMAIN change => Changed(a, change[k], log) \in S
    PROVE  InOrder(m, change, log) \in S
<1>1. PICK f : /\ f[0] = m /\ f[m.columns + 1] = InOrder(m, change, log)
               /\ \A k \in 0..m.columns :
                     f[k + 1] = IF k \in DOMAIN change THEN Changed(f[k], change[k], log)
                                ELSE f[k]
  BY InOrderIs
<1> DEFINE T == {k \in Nat : k <= m.columns + 1 /\ f[k] \notin S}
<1>2. T = {}
  <2>1. SUFFICES ASSUME T # {} PROVE FALSE
    OBVIOUS
  <2>2. PICK i \in T : \A k \in T : i <= k
    <3>1. T \in SUBSET Nat
      OBVIOUS
    <3> HIDE DEF T
    <3> QED BY <2>1, <3>1, LeastIndex
  <2>3. i \in Nat /\ i <= m.columns + 1 /\ f[i] \notin S /\ i # 0
    BY <1>1
  <2>4. i - 1 \in 0..m.columns /\ i - 1 \in Nat /\ ~ (i <= i - 1) /\ (i - 1) + 1 = i
    BY <2>3
  <2>5. i - 1 \notin T
    BY <2>2, <2>4
  <2>6. f[i - 1] \in S
    BY <2>4, <2>5
  <2>7. f[(i - 1) + 1] = IF i - 1 \in DOMAIN change THEN Changed(f[i - 1], change[i - 1], log)
                         ELSE f[i - 1]
    BY <1>1, <2>4
  <2> QED BY <2>3, <2>4, <2>6, <2>7
<1>3. m.columns + 1 \in Nat /\ m.columns + 1 <= m.columns + 1
  OBVIOUS
<1> QED BY <1>1, <1>2, <1>3

\* Taking back the changes of m from a matrix that is the same leads to the same ones.
LEMMA ChainCongruent ==
    ASSUME NEW n, NEW c, NEW m, Shaped(m, n, c), Undoable(m, n, c), NEW N, N = Len(m.changes),
           NEW F, NEW G, G = Undone(m), Same(F[N], m), Shaped(F[N], n, c),
           \A j \in 0..(N - 1) : F[j] = UndoChange(m.changes[j + 1], F[j + 1])
    PROVE  \A j \in 0..N : Same(F[j], G[j]) /\ Shaped(F[j], n, c)
<1>1. m \in MatrixSet(n, c)
  BY DEF Shaped
<1>2. m.changes \in Seq(Change(n, c))
  BY <1>1 DEF MatrixSet
<1>3. N \in Nat
  BY <1>2
<1>4. /\ G[N] = m
      /\ \A j \in 0..(N - 1) : G[j] = UndoChange(m.changes[j + 1], G[j + 1])
  BY <1>3, UndoneIs DEF UndoChain
<1>5. \A j \in 0..N : Shaped(G[j], n, c)
  BY DEF Undoable
<1> DEFINE T == {i \in Nat : i <= N /\ ~ (Same(F[N - i], G[N - i]) /\ Shaped(F[N - i], n, c))}
<1>6. T = {}
  <2>1. SUFFICES ASSUME T # {} PROVE FALSE
    OBVIOUS
  <2>2. PICK i \in T : \A j \in T : i <= j
    <3>1. T \in SUBSET Nat
      OBVIOUS
    <3> HIDE DEF T
    <3> QED BY <2>1, <3>1, LeastIndex
  <2>3. i \in Nat /\ i <= N /\ ~ (Same(F[N - i], G[N - i]) /\ Shaped(F[N - i], n, c))
    OBVIOUS
  <2>4. i # 0
    <3>1. SUFFICES ASSUME i = 0 PROVE FALSE
      OBVIOUS
    <3>2. N - i = N
      BY <1>3, <3>1
    <3> QED BY <1>4, <2>3, <3>2
  <2>5. i - 1 \in Nat /\ i - 1 <= N /\ ~ (i <= i - 1)
    BY <1>3, <2>3, <2>4
  <2>6. i - 1 \notin T
    BY <2>2, <2>5
  <2>7. Same(F[N - (i - 1)], G[N - (i - 1)]) /\ Shaped(F[N - (i - 1)], n, c)
    BY <2>5, <2>6
  <2> DEFINE j == N - i
  <2>8. N - (i - 1) = j + 1 /\ j \in 0..(N - 1) /\ j \in 0..N /\ j + 1 \in 0..N /\ j + 1 \in 1..N
    BY <1>3, <2>3, <2>4
  <2>9. ~ (Same(F[j], G[j]) /\ Shaped(F[j], n, c))
    BY <2>3
  <2> HIDE DEF j, T
  <2>10. m.changes[j + 1] \in Change(n, c)
    BY <1>2, <2>8
  <2>11. /\ F[j] = UndoChange(m.changes[j + 1], F[j + 1])
         /\ G[j] = UndoChange(m.changes[j + 1], G[j + 1])
    BY <1>4, <2>8
  <2>12. /\ G[j + 1] \in MatrixSet(n, c) /\ F[j + 1] \in MatrixSet(n, c)
         /\ Same(G[j + 1], F[j + 1]) /\ Shaped(G[j], n, c)
    BY <1>5, <2>7, <2>8 DEF Shaped, Same
  <2>13. Same(UndoChange(m.changes[j + 1], G[j + 1]), G[j])
    BY <2>11 DEF Same
  <2>14. /\ Same(UndoChange(m.changes[j + 1], F[j + 1]), G[j])
         /\ Shaped(UndoChange(m.changes[j + 1], F[j + 1]), n, c)
    BY <2>10, <2>12, <2>13, UndoCongruent
  <2> QED BY <2>9, <2>11, <2>14
<1> QED
  <2>1. TAKE j \in 0..N
  <2> DEFINE i == N - j
  <2>2. i \in Nat /\ i <= N /\ N - i = j
    BY <1>3
  <2> HIDE DEF i
  <2>3. i \notin T
    BY <1>6
  <2>4. Same(F[N - i], G[N - i]) /\ Shaped(F[N - i], n, c)
    BY <2>2, <2>3
  <2> QED BY <2>2, <2>4

\* A change that is logged is taken back first; before it the log is as it was.
LEMMA LogStep ==
    ASSUME NEW n, NEW c, NEW m, Shaped(m, n, c), NEW ch, NEW k,
           Made(k, ch, m, n, c), NEW l, l = [k EXCEPT !.changes = Append(@, ch)]
    PROVE  /\ Shaped(l, n, c) /\ Same(k, l)
           /\ l.updateRows = k.updateRows /\ l.updatePivot = k.updatePivot
           /\ Undoable(m, n, c) => Undoable(l, n, c) /\ Same(Undone(l)[0], Undone(m)[0])
<1> DEFINE N == Len(m.changes)
           F == Undone(l)
           G == Undone(m)
<1>1. /\ m \in MatrixSet(n, c) /\ k \in MatrixSet(n, c) /\ ch \in Change(n, c)
      /\ k.changes = m.changes /\ Same(UndoChange(ch, k), m) /\ Shaped(k, n, c)
  BY DEF Shaped, Made
<1>2. m.changes \in Seq(Change(n, c))
  BY <1>1 DEF MatrixSet
<1>3. Append(m.changes, ch) \in Seq(Change(n, c))
  BY <1>1, <1>2
<1>4. l.changes = Append(m.changes, ch)
  BY <1>1 DEF MatrixSet
<1>5. /\ l \in MatrixSet(n, c) /\ Same(k, l)
      /\ l.updateRows = k.updateRows /\ l.updatePivot = k.updatePivot
  BY <1>1, <1>3 DEF MatrixSet, Same
<1>6. Shaped(l, n, c)
  BY <1>1, <1>5, SameShaped
<1>7. N \in Nat /\ Len(l.changes) = N + 1
  BY <1>2, <1>4
<1>8. SUFFICES ASSUME Undoable(m, n, c)
               PROVE  Undoable(l, n, c) /\ Same(Undone(l)[0], Undone(m)[0])
  BY <1>5, <1>6
<1>9. /\ F[N + 1] = l
      /\ \A j \in 0..N : F[j] = UndoChange(l.changes[j + 1], F[j + 1])
  <2>1. Len(l.changes) \in Nat /\ Len(l.changes) - 1 = N
    BY <1>7
  <2>2. UndoChain(l, F)
    <3> HIDE DEF N
    <3> QED BY <2>1, UndoneIs
  <2> HIDE DEF N, F
  <2> QED BY <1>7, <2>1, <2>2 DEF UndoChain
<1> HIDE DEF F
<1>10. Same(F[N], m) /\ Shaped(F[N], n, c)
  <2>1. N \in 0..N /\ l.changes[N + 1] = ch
    BY <1>2, <1>4, <1>7
  <2>2. F[N] = UndoChange(ch, l)
    BY <1>9, <2>1
  <2>3. Same(UndoChange(ch, l), m) /\ Shaped(UndoChange(ch, l), n, c)
    BY <1>1, <1>5, UndoCongruent
  <2> QED BY <2>2, <2>3
<1>11. \A j \in 0..(N - 1) : F[j] = UndoChange(m.changes[j + 1], F[j + 1])
  <2>1. TAKE j \in 0..(N - 1)
  <2>2. l.changes[j + 1] = m.changes[j + 1] /\ j \in 0..N
    BY <1>2, <1>4, <1>7
  <2> QED BY <1>9, <2>2
<1>12. \A j \in 0..N : Same(F[j], G[j]) /\ Shaped(F[j], n, c)
  <2>1. G = Undone(m) /\ N = Len(m.changes)
    OBVIOUS
  <2>2. SUFFICES ASSUME Undoable(m, n, c) PROVE \A j \in 0..N : Same(F[j], G[j]) /\ Shaped(F[j], n, c)
    BY <1>8
  <2> HIDE DEF G, N
  <2> QED BY <1>10, <1>11, <2>1, <2>2, ChainCongruent
<1>13. Undoable(l, n, c)
  <2>1. \A j \in 0..(N + 1) : j \in 0..N \/ j = N + 1
    BY <1>7
  <2>2. \A j \in 0..(N + 1) : Shaped(F[j], n, c)
    BY <1>6, <1>9, <1>12, <2>1
  <2> QED BY <1>7, <2>2 DEF Undoable, F
<1>14. 0 \in 0..N
  BY <1>7
<1> QED BY <1>12, <1>13, <1>14 DEF F, G

\* Matrices that are the same and have the same log lead back to the same matrix.
LEMMA SameLog ==
    ASSUME NEW n, NEW c, NEW m, Shaped(m, n, c), NEW k \in MatrixSet(n, c), Same(k, m),
           k.changes = m.changes, Undoable(m, n, c)
    PROVE  Shaped(k, n, c) /\ Undoable(k, n, c) /\ Same(Undone(k)[0], Undone(m)[0])
<1> DEFINE N == Len(m.changes)
           F == Undone(k)
           G == Undone(m)
<1>1. Shaped(k, n, c)
  <2>1. Same(m, k)
    BY DEF Same
  <2> QED BY <2>1, SameShaped
<1>2. m.changes \in Seq(Change(n, c))
  BY DEF MatrixSet
<1>3. N \in Nat
  BY <1>2
<1>4. UndoChain(k, F)
  BY <1>3, UndoneIs
<1>5. /\ F[N] = k
      /\ \A j \in 0..(N - 1) : F[j] = UndoChange(m.changes[j + 1], F[j + 1])
  <2> HIDE DEF F
  <2> QED BY <1>4 DEF UndoChain
<1> HIDE DEF F, N
<1>6. N = Len(m.changes)
  BY DEF N
<1>7. \A j \in 0..N : Same(F[j], Undone(m)[j]) /\ Shaped(F[j], n, c)
  <2> DEFINE H == Undone(m)
  <2>1. H = Undone(m)
    OBVIOUS
  <2> HIDE DEF H
  <2>2. \A j \in 0..N : Same(F[j], H[j]) /\ Shaped(F[j], n, c)
    BY <1>1, <1>5, <1>6, <2>1, ChainCongruent
  <2> QED BY <2>1, <2>2
<1>8. 0 \in 0..N
  BY <1>3
<1> QED BY <1>1, <1>6, <1>7, <1>8 DEF Undoable, F

-----------------------------------------------------------------------------
(* What a matrix says *)

\* Adding an equation that holds to another one changes nothing.
LEMMA SumSolves ==
    ASSUME NEW c \in Nat, NEW O, NEW A \in SUBSET (0..c), NEW B \in SUBSET (0..c),
           Solves(O, B, c)
    PROVE  Solves(O, SymDiff(A, B), c) <=> Solves(O, A, c)
<1>1. IsFiniteSet(0..c)
  <2>1. 0 \in Int /\ c \in Int
    OBVIOUS
  <2> QED BY <2>1, FS_Interval
<1>2. A \cap O \in SUBSET (0..c) /\ B \cap O \in SUBSET (0..c)
  OBVIOUS
<1>3. IsFiniteSet(A \cap O) /\ IsFiniteSet(B \cap O)
  BY <1>1, <1>2, FS_Subset
<1>4. SymDiff(A, B) \cap O = SymDiff(A \cap O, B \cap O)
  BY DEF SymDiff
<1>5. Odd(SymDiff(A \cap O, B \cap O)) = (Odd(A \cap O) # Odd(B \cap O))
  BY <1>3, OddSymDiff
<1>6. c \in SymDiff(A, B) <=> ((c \in A) # (c \in B))
  BY DEF SymDiff
<1>7. Odd(SymDiff(A, B) \cap O) = (Odd(A \cap O) # Odd(B \cap O))
  BY <1>4, <1>5
<1>8. Odd(A \cap O) \in BOOLEAN /\ Odd(B \cap O) \in BOOLEAN
  BY DEF Odd
<1> QED BY <1>6, <1>7, <1>8 DEF Solves

\* k is m with more changes: it says the same of T, and leads back to the same matrix.
Follows(k, m, T, log, n, c) ==
    /\ Shaped(k, n, c)
    /\ \A O \in T : SolvesRows(O, k) <=> SolvesRows(O, m)
    /\ IF log THEN Undoable(m, n, c) => Undoable(k, n, c) /\ Same(Undone(k)[0], Undone(m)[0])
              ELSE k.changes = m.changes

\* A matrix follows itself.
LEMMA FollowsItself ==
    ASSUME NEW n, NEW c, NEW m, Shaped(m, n, c), NEW T, NEW log
    PROVE  Follows(m, m, T, log, n, c)
  BY DEF Follows, Same

\* What follows one that follows.
LEMMA FollowsTransitive ==
    ASSUME NEW n, NEW c, NEW a, NEW b, NEW k, NEW T, NEW log,
           Follows(b, a, T, log, n, c), Follows(k, b, T, log, n, c)
    PROVE  Follows(k, a, T, log, n, c)
  BY DEF Follows, Same

\* The same equations in the same order say the same.
LEMMA SameSays ==
    ASSUME NEW k, NEW m, Same(k, m), NEW O
    PROVE  SolvesRows(O, k) <=> SolvesRows(O, m)
  BY DEF Same, SolvesRows, Rows, Content, RHS

\* The same rows have the same equations and pivots.
LEMMA SameContent ==
    ASSUME NEW k, NEW m, Same(k, m)
    PROVE  \A r : Content(k, r) = Content(m, r) /\ Pivot(k, r) = Pivot(m, r)
  BY DEF Same, Content, Pivot

\* What is marked does not matter.
LEMMA MarkedFollows ==
    ASSUME NEW n, NEW c, NEW m, Shaped(m, n, c), NEW k \in MatrixSet(n, c), Same(k, m),
           k.changes = m.changes, NEW T, NEW log
    PROVE  Follows(k, m, T, log, n, c)
<1>1. Shaped(k, n, c)
  <2>1. Same(m, k)
    BY DEF Same
  <2> QED BY <2>1, SameShaped
<1>2. Undoable(m, n, c) => Undoable(k, n, c) /\ Same(Undone(k)[0], Undone(m)[0])
  BY SameLog
<1>3. \A O \in T : SolvesRows(O, k) <=> SolvesRows(O, m)
  BY SameSays
<1> QED BY <1>1, <1>2, <1>3 DEF Follows

\* A change that is made, and logged if changes are logged.
LEMMA ChangedIs ==
    ASSUME NEW n \in Nat, NEW c \in Nat, NEW m, Shaped(m, n, c), NEW ch, Good(ch, m, n, c),
           NEW log, NEW k, k = Changed(m, ch, log)
    PROVE  /\ Shaped(k, n, c) /\ Same(Apply(m, ch), k)
           /\ k.updateRows = m.updateRows /\ k.updatePivot = m.updatePivot
           /\ IF log THEN Undoable(m, n, c) => /\ Undoable(k, n, c)
                                               /\ Same(Undone(k)[0], Undone(m)[0])
              ELSE k.changes = m.changes
<1> DEFINE a == Apply(m, ch)
<1>1. Made(a, ch, m, n, c)
  BY ChangeIs
<1>2. k = IF log THEN [a EXCEPT !.changes = Append(@, ch)] ELSE a
  BY DEF Changed
<1>3. /\ Shaped(a, n, c) /\ a.changes = m.changes
      /\ a.updateRows = m.updateRows /\ a.updatePivot = m.updatePivot
  BY <1>1 DEF Made
<1> HIDE DEF a
<1>4. CASE log
  <2>1. k = [a EXCEPT !.changes = Append(@, ch)]
    BY <1>2, <1>4
  <2>2. /\ Shaped(k, n, c) /\ Same(a, k)
        /\ k.updateRows = a.updateRows /\ k.updatePivot = a.updatePivot
        /\ Undoable(m, n, c) => Undoable(k, n, c) /\ Same(Undone(k)[0], Undone(m)[0])
    BY <1>1, <2>1, LogStep
  <2> QED BY <1>3, <1>4, <2>2 DEF a
<1>5. CASE ~ log
  <2>1. k = a
    BY <1>2, <1>5
  <2> QED BY <1>3, <1>5, <2>1 DEF a, Same
<1> QED BY <1>4, <1>5

\* An equation is added to a row.
LEMMA RowAdds ==
    ASSUME NEW n \in Nat, NEW c \in Nat, NEW m, Shaped(m, n, c), NEW r \in 0..(n - 1),
           NEW E \in (SUBSET (0..c)) \ {{}}, NEW log, NEW k, k = Changed(m, XorRow(r, E), log)
    PROVE  /\ Shaped(k, n, c)
           /\ k.updateRows = m.updateRows /\ k.updatePivot = m.updatePivot
           /\ \A q \in 0..(n - 1) :
                 /\ Content(k, q) = IF q = r THEN SymDiff(Content(m, r), E) ELSE Content(m, q)
                 /\ q # r => Pivot(k, q) = Pivot(m, q)
<1> DEFINE a == Apply(m, XorRow(r, E))
<1>1. Good(XorRow(r, E), m, n, c)
  BY DEF Good
<1>2. Added(a, m, r, E, n, c)
  BY RowChangeIs
<1>3. /\ Shaped(k, n, c) /\ Same(a, k)
      /\ k.updateRows = m.updateRows /\ k.updatePivot = m.updatePivot
  BY <1>1, ChangedIs
<1> HIDE DEF a
<1>4. \A q : Content(a, q) = Content(k, q) /\ Pivot(a, q) = Pivot(k, q)
  BY <1>3, SameContent
<1> QED BY <1>2, <1>3, <1>4 DEF Added

\* If the equation holds, nothing else is said.
LEMMA RowFollows ==
    ASSUME NEW n \in Nat, NEW c \in Nat, NEW m, Shaped(m, n, c), NEW r \in 0..(n - 1),
           NEW E \in (SUBSET (0..c)) \ {{}}, NEW T, \A O \in T : Solves(O, E, c), NEW log,
           NEW k, k = Changed(m, XorRow(r, E), log)
    PROVE  Follows(k, m, T, log, n, c)
<1>1. Good(XorRow(r, E), m, n, c)
  BY DEF Good
<1>2. /\ Shaped(k, n, c)
      /\ IF log THEN Undoable(m, n, c) => /\ Undoable(k, n, c)
                                          /\ Same(Undone(k)[0], Undone(m)[0])
         ELSE k.changes = m.changes
  BY <1>1, ChangedIs
<1>3. \A q \in 0..(n - 1) :
          Content(k, q) = IF q = r THEN SymDiff(Content(m, r), E) ELSE Content(m, q)
  BY RowAdds
<1>4. m \in MatrixSet(n, c) /\ k \in MatrixSet(n, c)
  BY <1>2 DEF Shaped
<1>5. /\ Rows(m) = 0..(n - 1) /\ RHS(m) = c /\ Rows(k) = 0..(n - 1) /\ RHS(k) = c
      /\ \A q \in 0..(n - 1) : Content(m, q) \in SUBSET (0..c)
  BY <1>4, MatrixFacts
<1>6. ASSUME NEW O \in T
      PROVE  SolvesRows(O, k) <=> SolvesRows(O, m)
  <2>1. Solves(O, SymDiff(Content(m, r), E), c) <=> Solves(O, Content(m, r), c)
    BY <1>5, SumSolves
  <2>2. \A q \in 0..(n - 1) : Solves(O, Content(k, q), c) <=> Solves(O, Content(m, q), c)
    BY <1>3, <2>1
  <2> QED BY <1>5, <2>2 DEF SolvesRows
<1> QED BY <1>2, <1>6 DEF Follows

\* A row is added to another row.
LEMMA RowToRowAdds ==
    ASSUME NEW n \in Nat, NEW c \in Nat, NEW m, Shaped(m, n, c), NEW a \in 0..(n - 1),
           NEW b \in 0..(n - 1), a # b, NEW log, NEW k, k = Changed(m, XorRowtoRow(a, b), log)
    PROVE  /\ Shaped(k, n, c)
           /\ k.updateRows = m.updateRows /\ k.updatePivot = m.updatePivot
           /\ \A q \in 0..(n - 1) :
                 /\ Content(k, q) = IF q = a THEN SymDiff(Content(m, a), Content(m, b))
                                    ELSE Content(m, q)
                 /\ q # a => Pivot(k, q) = Pivot(m, q)
<1> DEFINE l == Apply(m, XorRowtoRow(a, b))
<1>1. Good(XorRowtoRow(a, b), m, n, c)
  BY DEF Good
<1>2. Added(l, m, a, Content(m, b), n, c)
  BY RowToRowIs
<1>3. /\ Shaped(k, n, c) /\ Same(l, k)
      /\ k.updateRows = m.updateRows /\ k.updatePivot = m.updatePivot
  BY <1>1, ChangedIs
<1> HIDE DEF l
<1>4. \A q : Content(l, q) = Content(k, q) /\ Pivot(l, q) = Pivot(k, q)
  BY <1>3, SameContent
<1> QED BY <1>2, <1>3, <1>4 DEF Added

\* The rows say the same together.
LEMMA RowToRowFollows ==
    ASSUME NEW n \in Nat, NEW c \in Nat, NEW m, Shaped(m, n, c), NEW a \in 0..(n - 1),
           NEW b \in 0..(n - 1), a # b, NEW T, NEW log,
           NEW k, k = Changed(m, XorRowtoRow(a, b), log)
    PROVE  Follows(k, m, T, log, n, c)
<1>1. Good(XorRowtoRow(a, b), m, n, c)
  BY DEF Good
<1>2. /\ Shaped(k, n, c)
      /\ IF log THEN Undoable(m, n, c) => /\ Undoable(k, n, c)
                                          /\ Same(Undone(k)[0], Undone(m)[0])
         ELSE k.changes = m.changes
  BY <1>1, ChangedIs
<1>3. \A q \in 0..(n - 1) :
          Content(k, q) = IF q = a THEN SymDiff(Content(m, a), Content(m, b)) ELSE Content(m, q)
  BY RowToRowAdds
<1>4. m \in MatrixSet(n, c) /\ k \in MatrixSet(n, c)
  BY <1>2 DEF Shaped
<1>5. /\ Rows(m) = 0..(n - 1) /\ RHS(m) = c /\ Rows(k) = 0..(n - 1) /\ RHS(k) = c
      /\ \A q \in 0..(n - 1) : Content(m, q) \in SUBSET (0..c)
  BY <1>4, MatrixFacts
<1>6. ASSUME NEW O \in T
      PROVE  SolvesRows(O, k) <=> SolvesRows(O, m)
  <2>1. Solves(O, Content(m, b), c) =>
           (Solves(O, SymDiff(Content(m, a), Content(m, b)), c) <=> Solves(O, Content(m, a), c))
    BY <1>5, SumSolves
  <2>2. /\ Content(k, b) = Content(m, b)
        /\ \A q \in 0..(n - 1) : q # a => Content(k, q) = Content(m, q)
        /\ Content(k, a) = SymDiff(Content(m, a), Content(m, b))
    BY <1>3
  <2>3. (\A q \in 0..(n - 1) : Solves(O, Content(k, q), c))
          <=> (\A q \in 0..(n - 1) : Solves(O, Content(m, q), c))
    BY <2>1, <2>2
  <2> QED BY <1>5, <2>3 DEF SolvesRows
<1> QED BY <1>2, <1>6 DEF Follows

\* The rows are sorted.
LEMMA SortFollows ==
    ASSUME NEW n \in Nat, NEW c \in Nat, NEW m, Shaped(m, n, c), NEW T, NEW log,
           NEW k, k = SortByPivot(m, log)
    PROVE  /\ Follows(k, m, T, log, n, c)
           /\ k.updateRows = m.updateRows /\ k.updatePivot = {}
           /\ \E a : Permuted(a, m, SortOut(m), SortIn(m), n, c) /\ Same(a, k)
<1> DEFINE ch == SortChange(SortOut(m), SortIn(m))
           a == Apply(m, ch)
           l == Changed(m, ch, log)
<1>1. Good(ch, m, n, c)
  BY DEF Good
<1>2. Permuted(a, m, SortOut(m), SortIn(m), n, c)
  BY SortIs
<1>3. k = [l EXCEPT !.updatePivot = {}]
  BY DEF SortByPivot, SortOut, SortIn
<1> HIDE DEF ch, a
<1>4. /\ Shaped(l, n, c) /\ Same(a, l)
      /\ l.updateRows = m.updateRows /\ l.updatePivot = m.updatePivot
      /\ IF log THEN Undoable(m, n, c) => /\ Undoable(l, n, c)
                                          /\ Same(Undone(l)[0], Undone(m)[0])
         ELSE l.changes = m.changes
  BY <1>1, ChangedIs DEF a
<1> HIDE DEF l
<1>5. /\ k \in MatrixSet(n, c) /\ Same(k, l) /\ k.changes = l.changes
      /\ k.updateRows = m.updateRows /\ k.updatePivot = {}
  <2>1. l \in MatrixSet(n, c)
    BY <1>4 DEF Shaped
  <2>2. k \in MatrixSet(n, c)
    BY <1>3, <2>1 DEF MatrixSet
  <2>3. /\ k.columns = l.columns /\ k.data = l.data /\ k.row = l.row /\ k.rowinv = l.rowinv
        /\ k.changes = l.changes /\ k.updateRows = l.updateRows /\ k.updatePivot = {}
    BY <1>3, <2>1 DEF MatrixSet
  <2> QED BY <1>4, <2>2, <2>3 DEF Same
<1>6. Follows(k, l, T, log, n, c)
  BY <1>4, <1>5, MarkedFollows
<1>7. ASSUME NEW O \in T
      PROVE  SolvesRows(O, l) <=> SolvesRows(O, m)
  <2>1. m \in MatrixSet(n, c) /\ l \in MatrixSet(n, c)
    BY <1>4 DEF Shaped
  <2>2. Rows(m) = 0..(n - 1) /\ RHS(m) = c /\ Rows(l) = 0..(n - 1) /\ RHS(l) = c
    BY <2>1, MatrixFacts
  <2>3. \A r, s \in 0..(n - 1) : CameFrom(a, m, SortOut(m), SortIn(m), n, r, s) =>
                                    Content(l, r) = Content(m, s)
    BY <1>2, <1>4 DEF CameFrom, Content, Permuted, Same
  <2>4. \A r \in 0..(n - 1) : \E s \in 0..(n - 1) : Content(l, r) = Content(m, s)
    BY <1>2, <2>3 DEF Permuted
  <2>5. \A s \in 0..(n - 1) : \E r \in 0..(n - 1) : Content(l, r) = Content(m, s)
    BY <1>2, <2>3 DEF Permuted
  <2>6. (\A q \in 0..(n - 1) : Solves(O, Content(l, q), c))
          <=> (\A q \in 0..(n - 1) : Solves(O, Content(m, q), c))
    BY <2>4, <2>5
  <2> QED BY <2>2, <2>6 DEF SolvesRows
<1>8. Follows(l, m, T, log, n, c)
  BY <1>4, <1>7 DEF Follows
<1>9. Follows(k, m, T, log, n, c)
  BY <1>6, <1>8, FollowsTransitive
<1>10. Same(a, k)
  BY <1>4, <1>5 DEF Same
<1> QED BY <1>2, <1>5, <1>9, <1>10

\* A change of one row, by an equation that holds or by another row.
OfOneRow(ch, T, n, c) ==
    \/ \E r \in 0..(n - 1), E \in (SUBSET (0..c)) \ {{}} :
          ch = XorRow(r, E) /\ \A O \in T : Solves(O, E, c)
    \/ \E a, b \in 0..(n - 1) : a # b /\ ch = XorRowtoRow(a, b)

\* What follows m and has the same marks.
Followers(m, T, log, n, c) ==
    {a \in MatrixSet(n, c) : /\ Follows(a, m, T, log, n, c)
                             /\ a.updateRows = m.updateRows /\ a.updatePivot = m.updatePivot}

\* Changes of rows, one after the other, add up to one that can be taken back.
LEMMA InOrderFollows ==
    ASSUME NEW n \in Nat, NEW c \in Nat, NEW m, Shaped(m, n, c), NEW T, NEW log, NEW change,
           \A k \in DOMAIN change : OfOneRow(change[k], T, n, c)
    PROVE  InOrder(m, change, log) \in Followers(m, T, log, n, c)
<1> DEFINE S == Followers(m, T, log, n, c)
<1>1. m \in MatrixSet(n, c) /\ m.columns \in Nat
  BY DEF Shaped, MatrixSet
<1>2. m \in S
  BY <1>1, FollowsItself DEF Followers
<1>3. ASSUME NEW k \in 0..m.columns, NEW a \in S, k \in DOMAIN change
      PROVE  Changed(a, change[k], log) \in S
  <2> DEFINE b == Changed(a, change[k], log)
  <2>1. /\ Shaped(a, n, c) /\ Follows(a, m, T, log, n, c)
        /\ a.updateRows = m.updateRows /\ a.updatePivot = m.updatePivot
    BY DEF Followers, Follows
  <2> HIDE DEF S
  <2>2. /\ Follows(b, a, T, log, n, c)
        /\ b.updateRows = a.updateRows /\ b.updatePivot = a.updatePivot
    <3>1. CASE \E r \in 0..(n - 1), E \in (SUBSET (0..c)) \ {{}} :
                  change[k] = XorRow(r, E) /\ \A O \in T : Solves(O, E, c)
      <4>1. PICK r \in 0..(n - 1), E \in (SUBSET (0..c)) \ {{}} :
                    change[k] = XorRow(r, E) /\ \A O \in T : Solves(O, E, c)
        BY <3>1
      <4>2. b = Changed(a, XorRow(r, E), log)
        BY <4>1
      <4>3. \A O \in T : Solves(O, E, c)
        BY <4>1
      <4>4. Shaped(a, n, c)
        BY <2>1
      <4> HIDE DEF b
      <4>5. Follows(b, a, T, log, n, c)
        BY <4>2, <4>3, <4>4, RowFollows
      <4> QED BY <4>2, <4>4, <4>5, RowAdds
    <3>2. CASE \E p, q \in 0..(n - 1) : p # q /\ change[k] = XorRowtoRow(p, q)
      <4>1. PICK p, q \in 0..(n - 1) : p # q /\ change[k] = XorRowtoRow(p, q)
        BY <3>2
      <4>2. b = Changed(a, XorRowtoRow(p, q), log)
        BY <4>1
      <4> HIDE DEF b
      <4>3. Follows(b, a, T, log, n, c)
        BY <2>1, <4>1, <4>2, RowToRowFollows
      <4> QED BY <2>1, <4>1, <4>2, <4>3, RowToRowAdds
    <3> QED BY <1>3, <3>1, <3>2 DEF OfOneRow
  <2> HIDE DEF b
  <2>3. Follows(b, m, T, log, n, c)
    BY <2>1, <2>2, FollowsTransitive
  <2>4. b \in MatrixSet(n, c)
    BY <2>3 DEF Follows, Shaped
  <2> QED BY <2>1, <2>2, <2>3, <2>4 DEF Followers, b, S
<1> HIDE DEF S
<1>4. InOrder(m, change, log) \in S
  BY <1>1, <1>2, <1>3, InOrderKeeps
<1> QED BY <1>4 DEF S

\* m with other rows marked.
Marked(m, u, v) == [m EXCEPT !.updateRows = u, !.updatePivot = v]

\* They change nothing else.
LEMMA MarksAre ==
    ASSUME NEW n, NEW c, NEW m, Shaped(m, n, c), NEW u \in SUBSET (0..(n - 1)),
           NEW v \in SUBSET (0..(n - 1)), NEW k, k = Marked(m, u, v)
    PROVE  /\ Shaped(k, n, c) /\ Same(k, m) /\ k.changes = m.changes
           /\ k.updateRows = u /\ k.updatePivot = v
           /\ \A r : Content(k, r) = Content(m, r) /\ Pivot(k, r) = Pivot(m, r)
<1>1. m \in MatrixSet(n, c)
  BY DEF Shaped
<1>2. k \in MatrixSet(n, c)
  BY <1>1 DEF MatrixSet, Marked
<1>3. /\ k.columns = m.columns /\ k.data = m.data /\ k.row = m.row /\ k.rowinv = m.rowinv
      /\ k.changes = m.changes /\ k.updateRows = u /\ k.updatePivot = v
  BY <1>1 DEF MatrixSet, Marked
<1>4. Same(k, m) /\ Same(m, k)
  BY <1>3 DEF Same
<1>5. Shaped(k, n, c)
  BY <1>2, <1>4, SameShaped
<1> QED BY <1>3, <1>4, <1>5, SameContent

\* Touch marks rows.
LEMMA TouchFollows ==
    ASSUME NEW n \in Nat, NEW c \in Nat, NEW m, Shaped(m, n, c), NEW R \in SUBSET (0..(n - 1)),
           NEW p \in BOOLEAN, NEW T, NEW log, NEW k, k = Touch(m, R, p)
    PROVE  Follows(k, m, T, log, n, c)
<1> DEFINE u == m.updateRows \cup R
           v == IF p THEN m.updatePivot \cup R ELSE m.updatePivot
<1>1. k = Marked(m, u, v)
  BY DEF Touch, Marked
<1>2. u \in SUBSET (0..(n - 1)) /\ v \in SUBSET (0..(n - 1))
  BY DEF Shaped, MatrixSet
<1> HIDE DEF u, v
<1>3. Shaped(k, n, c) /\ Same(k, m) /\ k.changes = m.changes
  <2>1. /\ Shaped(k, n, c) /\ Same(k, m) /\ k.changes = m.changes
        /\ k.updateRows = u /\ k.updatePivot = v
        /\ \A r : Content(k, r) = Content(m, r) /\ Pivot(k, r) = Pivot(m, r)
    BY <1>1, <1>2, MarksAre
  <2> QED BY <2>1
<1>4. k \in MatrixSet(n, c)
  BY <1>3 DEF Shaped
<1> QED BY <1>3, <1>4, MarkedFollows

\* The bound of the rows is that of a row, if there is one.
LEMMA RowOfIs ==
    ASSUME NEW n \in Nat, NEW c, NEW m \in MatrixSet(n, c), NEW column
    PROVE  /\ RowOf(m, column) \in -1..(n - 1)
           /\ HasPivot(m, column) => /\ RowOf(m, column) \in 0..(n - 1)
                                     /\ Pivot(m, RowOf(m, column)) = column
<1> DEFINE R == 0..(n - 1)
           S == {r \in R : Pivot(m, r) <= column}
<1>1. Rows(m) = R
  BY MatrixFacts
<1>2. S \in SUBSET R /\ {} \in SUBSET R /\ R \ {} = R
  OBVIOUS
<1>3. Cardinality(R) = n /\ IsFiniteSet(R)
  <2>1. Cardinality({}) = 0
    BY FS_EmptySet
  <2>2. /\ Cardinality((0..(n - 1)) \ {}) = n - Cardinality({})
        /\ IsFiniteSet((0..(n - 1)) \ {})
    BY <1>2, PositionsFinite
  <2>3. Cardinality(R \ {}) = n /\ IsFiniteSet(R \ {})
    BY <2>1, <2>2
  <2> HIDE DEF R
  <2> QED BY <1>2, <2>3
<1>4. Cardinality(S) \in Nat /\ Cardinality(S) <= n
  <2> HIDE DEF S, R
  <2>1. IsFiniteSet(S) /\ Cardinality(S) <= Cardinality(R)
    BY <1>2, <1>3, FS_Subset
  <2> QED BY <1>3, <2>1, FS_CardinalityType
<1>5. RowOf(m, column) = Cardinality(S) - 1
  BY <1>1 DEF RowOf, GetPivotUpperBound
<1> HIDE DEF S
<1>6. RowOf(m, column) \in -1..(n - 1)
  BY <1>4, <1>5
<1> QED BY <1>6 DEF HasPivot

\* The first column of an equation is one of its columns.
LEMMA MinIn ==
    ASSUME NEW c \in Int, NEW E \in (SUBSET (0..c)) \ {{}}
    PROVE  Min(E) \in E /\ Min(E) \in 0..c /\ \A k \in E : Min(E) <= k
<1>1. E \in SUBSET Nat /\ E # {}
  OBVIOUS
<1> QED BY <1>1, MinIs

\* Adding an equation whose first column is the pivot of a row.
LEMMA ReplaceRowFollows ==
    ASSUME NEW n \in Nat, NEW c \in Nat, NEW m, Shaped(m, n, c), NEW row \in 0..(n - 1),
           NEW E \in (SUBSET (0..c)) \ {{}}, NEW T, \A O \in T : Solves(O, E, c),
           NEW log
    PROVE  Follows(ReplaceRow(m, row, E, log), m, T, log, n, c)
<1> DEFINE sum == Changed(m, XorRow(row, E), log)
           again == {x \in E \ {Min(E)} : HasPivot(sum, x) /\ RowOf(sum, x) # row}
           change == [x \in again |-> XorRowtoRow(row, RowOf(sum, x))]
           k == InOrder(sum, change, log)
<1>1. ReplaceRow(m, row, E, log) = Touch(k, {row}, TRUE)
  BY DEF ReplaceRow
<1>2. Follows(sum, m, T, log, n, c)
  BY RowFollows
<1> HIDE DEF sum
<1>3. Shaped(sum, n, c) /\ sum \in MatrixSet(n, c)
  BY <1>2 DEF Follows, Shaped
<1>4. ASSUME NEW x \in again PROVE OfOneRow(XorRowtoRow(row, RowOf(sum, x)), T, n, c)
  <2>1. RowOf(sum, x) \in 0..(n - 1) /\ RowOf(sum, x) # row
    BY <1>3, RowOfIs
  <2> QED BY <2>1 DEF OfOneRow
<1>5. DOMAIN change = again /\ \A x \in again : change[x] = XorRowtoRow(row, RowOf(sum, x))
  OBVIOUS
<1> HIDE DEF again, change
<1>6. k \in Followers(sum, T, log, n, c)
  BY <1>3, <1>4, <1>5, InOrderFollows
<1> HIDE DEF k
<1>7. Follows(k, sum, T, log, n, c) /\ Shaped(k, n, c)
  BY <1>6 DEF Followers, Follows
<1>8. Follows(Touch(k, {row}, TRUE), k, T, log, n, c)
  <2>1. {row} \in SUBSET (0..(n - 1)) /\ TRUE \in BOOLEAN
    OBVIOUS
  <2> QED BY <1>7, <2>1, TouchFollows
<1>9. Follows(Touch(k, {row}, TRUE), sum, T, log, n, c)
  BY <1>7, <1>8, FollowsTransitive
<1> QED BY <1>1, <1>2, <1>9, FollowsTransitive

\* Adding an equation whose first column is none.
LEMMA SubstituteFollows ==
    ASSUME NEW n \in Nat, NEW c \in Nat, NEW m, Shaped(m, n, c), NEW bound \in -1..(n - 1),
           NEW E \in (SUBSET (0..c)) \ {{}}, NEW T, \A O \in T : Solves(O, E, c),
           NEW log
    PROVE  Follows(Substitute(m, bound, E, log), m, T, log, n, c)
<1> DEFINE rows == {r \in 0..bound : Min(E) \in Content(m, r)}
           change == [r \in rows |-> XorRow(r, E)]
           sums == InOrder(m, change, log)
           U == {RowOf(sums, x) : x \in {d \in E \ {Min(E)} : HasPivot(sums, d)}}
<1>1. Substitute(m, bound, E, log) = Touch(sums, U, FALSE)
  BY DEF Substitute
<1>2. ASSUME NEW r \in rows PROVE OfOneRow(XorRow(r, E), T, n, c)
  <2>1. r \in 0..(n - 1)
    OBVIOUS
  <2> QED BY <2>1 DEF OfOneRow
<1>3. DOMAIN change = rows /\ \A r \in rows : change[r] = XorRow(r, E)
  OBVIOUS
<1> HIDE DEF rows, change
<1>4. sums \in Followers(m, T, log, n, c)
  BY <1>2, <1>3, InOrderFollows
<1> HIDE DEF sums
<1>5. Follows(sums, m, T, log, n, c) /\ Shaped(sums, n, c) /\ sums \in MatrixSet(n, c)
  BY <1>4 DEF Followers, Follows
<1>6. U \in SUBSET (0..(n - 1))
  BY <1>5, RowOfIs
<1> HIDE DEF U
<1>7. Follows(Touch(sums, U, FALSE), sums, T, log, n, c)
  BY <1>5, <1>6, TouchFollows
<1> QED BY <1>1, <1>5, <1>7, FollowsTransitive

\* Adding an equation that holds.
LEMMA AddEquationFollows ==
    ASSUME NEW n \in Nat, NEW c \in Nat, NEW m, Shaped(m, n, c),
           NEW E \in (SUBSET (0..c)) \ {{}}, NEW T, \A O \in T : Solves(O, E, c), NEW log
    PROVE  Follows(AddEquation(m, E, log), m, T, log, n, c)
<1>1. m \in MatrixSet(n, c)
  BY DEF Shaped
<1>2. CASE HasPivot(m, Min(E))
  <2>1. RowOf(m, Min(E)) \in 0..(n - 1)
    BY <1>1, <1>2, RowOfIs
  <2>2. AddEquation(m, E, log) = ReplaceRow(m, RowOf(m, Min(E)), E, log)
    BY <1>2 DEF AddEquation
  <2> QED BY <2>1, <2>2, ReplaceRowFollows
<1>3. CASE ~ HasPivot(m, Min(E))
  <2>1. RowOf(m, Min(E)) \in -1..(n - 1)
    BY <1>1, RowOfIs
  <2>2. AddEquation(m, E, log) = Substitute(m, RowOf(m, Min(E)), E, log)
    BY <1>3 DEF AddEquation
  <2> QED BY <2>1, <2>2, SubstituteFollows
<1> QED BY <1>2, <1>3

\* A turn of EpsilonGauss.
LEMMA EpsilonGaussFollows ==
    ASSUME NEW n \in Nat, NEW c \in Nat, NEW m, Shaped(m, n, c), m.updateRows # {}, NEW T,
           NEW log
    PROVE  Follows(EpsilonGauss(m, log), m, T, log, n, c)
<1> DEFINE row == Min(m.updateRows)
           rows == {r \in Eliminable(m, row) : \A b \in Broken(m, row) : r <= b}
           pivots == {r \in rows : Pivot(m, row) <= Pivot(m, r)}
           rest == m.updateRows \ {row}
           l == [m EXCEPT !.updateRows = rest]
           change == [r \in rows |-> XorRowtoRow(r, row)]
           k == InOrder(l, change, log)
<1>1. m \in MatrixSet(n, c) /\ Rows(m) = 0..(n - 1)
  BY MatrixFacts DEF Shaped
<1>2. EpsilonGauss(m, log) = Touch(k, pivots, TRUE)
  BY DEF EpsilonGauss
<1>3. row \in 0..(n - 1) /\ rest \in SUBSET (0..(n - 1))
  <2>1. m.updateRows \in (SUBSET (0..(n - 1))) \ {{}} /\ n - 1 \in Int
    BY <1>1 DEF MatrixSet
  <2>2. Min(m.updateRows) \in 0..(n - 1)
    <3> DEFINE u == m.updateRows
    <3>1. u \in (SUBSET (0..(n - 1))) \ {{}}
      BY <2>1
    <3> HIDE DEF u
    <3>2. Min(u) \in 0..(n - 1)
      <4>1. u \in SUBSET Nat /\ u # {} /\ u \in SUBSET (0..(n - 1))
        BY <3>1
      <4> QED BY <4>1, MinIs
    <3> QED BY <3>2 DEF u
  <2> QED BY <2>1, <2>2
<1>4. rows \in SUBSET (0..(n - 1)) /\ row \notin rows /\ pivots \in SUBSET (0..(n - 1))
  BY <1>1 DEF Eliminable
<1> HIDE DEF row
<1>5. ASSUME NEW r \in rows PROVE OfOneRow(XorRowtoRow(r, row), T, n, c)
  <2>1. r \in 0..(n - 1) /\ r # row
    BY <1>4
  <2> QED BY <1>3, <2>1 DEF OfOneRow
<1>6. DOMAIN change = rows /\ \A r \in rows : change[r] = XorRowtoRow(r, row)
  OBVIOUS
<1> HIDE DEF rest, pivots, rows, change
<1>7. l \in MatrixSet(n, c)
  BY <1>1, <1>3 DEF MatrixSet
<1>8. Same(l, m) /\ l.changes = m.changes
  BY <1>1 DEF MatrixSet, Same
<1> HIDE DEF l
<1>9. Follows(l, m, T, log, n, c)
  BY <1>7, <1>8, MarkedFollows
<1>10. Shaped(l, n, c)
  BY <1>9 DEF Follows
<1>11. k \in Followers(l, T, log, n, c)
  BY <1>5, <1>6, <1>10, InOrderFollows
<1> HIDE DEF k
<1>12. Follows(k, l, T, log, n, c) /\ Shaped(k, n, c)
  BY <1>11 DEF Followers, Follows
<1>13. Follows(Touch(k, pivots, TRUE), k, T, log, n, c)
  BY <1>4, <1>12, TouchFollows
<1>14. Follows(k, m, T, log, n, c)
  BY <1>9, <1>12, FollowsTransitive
<1> QED BY <1>2, <1>13, <1>14, FollowsTransitive

-----------------------------------------------------------------------------
(* The ends of a log *)

\* An empty log.
LEMMA FixedIs ==
    ASSUME NEW n \in Nat, NEW c \in Nat, NEW m, Shaped(m, n, c), NEW k,
           k = [m EXCEPT !.changes = <<>>]
    PROVE  /\ Shaped(k, n, c) /\ Same(k, m) /\ Undoable(k, n, c) /\ Same(Undone(k)[0], k)
           /\ k.changes = <<>>
           /\ k.updateRows = m.updateRows /\ k.updatePivot = m.updatePivot
<1>1. m \in MatrixSet(n, c)
  BY DEF Shaped
<1>2. k \in MatrixSet(n, c)
  <2>1. <<>> \in Seq(Change(n, c))
    OBVIOUS
  <2> QED BY <1>1, <2>1 DEF MatrixSet
<1>3. /\ k.columns = m.columns /\ k.data = m.data /\ k.row = m.row /\ k.rowinv = m.rowinv
      /\ k.changes = <<>> /\ k.updateRows = m.updateRows /\ k.updatePivot = m.updatePivot
  BY <1>1 DEF MatrixSet
<1>4. Same(k, m) /\ Same(m, k)
  BY <1>3 DEF Same
<1>5. Shaped(k, n, c)
  BY <1>2, <1>4, SameShaped
<1>6. Len(k.changes) = 0
  BY <1>3
<1>7. UndoChain(k, Undone(k))
  <2>1. Len(k.changes) \in Nat
    BY <1>6
  <2> QED BY <2>1, UndoneIs
<1>8. Undone(k)[0] = k
  BY <1>6, <1>7 DEF UndoChain
<1>9. Undoable(k, n, c)
  BY <1>5, <1>6, <1>8 DEF Undoable
<1> QED BY <1>3, <1>4, <1>5, <1>8, <1>9 DEF Same

\* Undo ends where the log began.
LEMMA UndoIs ==
    ASSUME NEW n \in Nat, NEW c \in Nat, NEW m, Shaped(m, n, c), Undoable(m, n, c), NEW k,
           k = Undo(m)
    PROVE  /\ Shaped(k, n, c) /\ Same(k, Undone(m)[0]) /\ k.changes = <<>>
           /\ k.updateRows = {} /\ k.updatePivot = {}
<1> DEFINE a == Undone(m)[0]
<1>1. Shaped(a, n, c)
  <2>1. m.changes \in Seq(Change(n, c))
    BY DEF Shaped, MatrixSet
  <2>2. 0 \in 0..Len(m.changes)
    BY <2>1
  <2> QED BY <2>2 DEF Undoable
<1>2. k = [a EXCEPT !.changes = <<>>, !.updateRows = {}, !.updatePivot = {}]
  BY DEF Undo
<1> HIDE DEF a
<1>3. a \in MatrixSet(n, c)
  BY <1>1 DEF Shaped
<1>4. k \in MatrixSet(n, c)
  <2>1. <<>> \in Seq(Change(n, c)) /\ {} \in SUBSET (0..(n - 1))
    OBVIOUS
  <2> QED BY <1>2, <1>3, <2>1 DEF MatrixSet
<1>5. /\ k.columns = a.columns /\ k.data = a.data /\ k.row = a.row /\ k.rowinv = a.rowinv
      /\ k.changes = <<>> /\ k.updateRows = {} /\ k.updatePivot = {}
  BY <1>2, <1>3 DEF MatrixSet
<1>6. Same(k, a) /\ Same(a, k)
  BY <1>5 DEF Same
<1>7. Shaped(k, n, c)
  BY <1>1, <1>4, <1>6, SameShaped
<1> QED BY <1>5, <1>6, <1>7 DEF a

-----------------------------------------------------------------------------
(* Steps, conditions and the variables of a matrix *)

\* The parts of a linear step.
LEMMA StepFacts ==
    ASSUME NEW s \in LinearSteps
    PROVE  LET st == StepList[s]
           IN  /\ st.kind = "linear" /\ st = LinearStep(st.bits, st.outputs, st.depends)
               /\ st.bits \in Seq(Bit) /\ Len(st.bits) \in Nat /\ DOMAIN st.bits = 1..Len(st.bits)
               /\ \A j, k \in 1..Len(st.bits) : st.bits[j] = st.bits[k] => j = k
               /\ \A k \in 1..Len(st.bits) : st.bits[k] \in Bit /\ st.bits[k] \in Range(st.bits)
               /\ st.outputs \in Nat /\ st.outputs \in 1..Len(st.bits)
               /\ st.inputs = Len(st.bits) - st.outputs /\ st.inputs \in Nat
               /\ st.depends \in [0..(st.outputs - 1) -> SUBSET (0..(st.inputs - 1))]
               /\ RowCount(s) \in Nat /\ ColumnCount(s) \in Nat /\ RowCount(s) <= ColumnCount(s)
<1> DEFINE st == StepList[s]
<1>1. s \in DOMAIN StepList /\ st.kind = "linear"
  BY DEF LinearSteps
<1>2. st \in Range(StepList)
  BY <1>1 DEF Range
<1>3. /\ st = LinearStep(st.bits, st.outputs, st.depends)
      /\ st.bits \in Seq(Bit) /\ IsInjective(st.bits)
      /\ st.outputs \in 1..Len(st.bits)
      /\ st.depends \in [0..(st.outputs - 1) -> SUBSET (0..(Len(st.bits) - st.outputs - 1))]
  BY <1>1, <1>2, LinearAssumption
<1>4. st.inputs = Len(st.bits) - st.outputs
  BY <1>3 DEF LinearStep
<1>5. Len(st.bits) \in Nat /\ DOMAIN st.bits = 1..Len(st.bits)
  BY <1>3
<1>6. st.outputs \in Nat /\ st.inputs \in Nat
  BY <1>3, <1>4, <1>5
<1>7. \A k \in 1..Len(st.bits) : st.bits[k] \in Bit /\ st.bits[k] \in Range(st.bits)
  BY <1>3, <1>5 DEF Range
<1>8. \A j, k \in 1..Len(st.bits) : st.bits[j] = st.bits[k] => j = k
  BY <1>3, <1>5 DEF IsInjective
<1>9. RowCount(s) \in Nat /\ ColumnCount(s) \in Nat /\ RowCount(s) <= ColumnCount(s)
  BY <1>3, <1>5, <1>6 DEF RowCount, ColumnCount
<1> QED BY <1>1, <1>3, <1>4, <1>5, <1>6, <1>7, <1>8, <1>9

\* An assignment gives every bit a value that its condition allows.
LEMMA AssignmentIs ==
    ASSUME NEW s \in LinearSteps, NEW c \in [Bit -> Condition],
           NEW t \in Assignment(StepList[s], c)
    PROVE  /\ t \in [1..Len(StepList[s].bits) -> Pair]
           /\ \A k \in 1..Len(StepList[s].bits) : t[k] \in c[StepList[s].bits[k]]
<1> DEFINE st == StepList[s]
           V == UNION {c[b] : b \in Range(st.bits)}
<1>1. DOMAIN st.bits = 1..Len(st.bits) /\ \A k \in 1..Len(st.bits) : st.bits[k] \in Bit
  BY StepFacts
<1>2. t \in [DOMAIN st.bits -> V] /\ \A k \in DOMAIN t : t[k] \in c[st.bits[k]]
  BY DEF Assignment
<1>3. DOMAIN t = 1..Len(st.bits)
  BY <1>1, <1>2
<1>4. \A k \in 1..Len(st.bits) : t[k] \in c[st.bits[k]]
  BY <1>2, <1>3
<1>5. \A k \in 1..Len(st.bits) : c[st.bits[k]] \subseteq Pair
  BY <1>1 DEF Condition
<1>6. \A k \in 1..Len(st.bits) : t[k] \in Pair
  BY <1>4, <1>5
<1>7. t = [k \in 1..Len(st.bits) |-> t[k]]
  BY <1>2, <1>3
<1>8. t \in [1..Len(st.bits) -> Pair]
  BY <1>6, <1>7
<1> QED BY <1>4, <1>8

\* The columns of the bit at each position.
LEMMA OnesAt ==
    ASSUME NEW N \in Nat, NEW t, DOMAIN t = 1..N, NEW p \in 0..(N - 1)
    PROVE  /\ 2 * p \in Ones(t) <=> ValueOne(t[p + 1])
           /\ 2 * p + 1 \in Ones(t) <=> ValueTwo(t[p + 1])
           /\ 2 * N \notin Ones(t)
<1> DEFINE A == {j \in 1..N : ValueOne(t[j])}
           B == {j \in 1..N : ValueTwo(t[j])}
<1>1. \A x : x \in Ones(t) <=> \/ \E k \in A : x = 2 * (k - 1)
                               \/ \E k \in B : x = 2 * (k - 1) + 1
  BY DEF Ones
<1>2. \A k \in 1..N : k \in Int /\ k >= 1 /\ k <= N
  OBVIOUS
<1>3. p \in Int /\ p >= 0 /\ p < N /\ p + 1 \in 1..N /\ (p + 1) - 1 = p
  OBVIOUS
<1>4. \A k \in 1..N : 2 * p = 2 * (k - 1) => k = p + 1
  BY <1>2, <1>3
<1>5. \A k \in 1..N : 2 * p # 2 * (k - 1) + 1 /\ 2 * p + 1 # 2 * (k - 1)
  BY <1>2, <1>3
<1>6. \A k \in 1..N : 2 * p + 1 = 2 * (k - 1) + 1 => k = p + 1
  BY <1>2, <1>3
<1>7. \A k \in 1..N : 2 * N # 2 * (k - 1) + 1 /\ 2 * N # 2 * (k - 1)
  BY <1>2
<1>8. A \subseteq 1..N /\ B \subseteq 1..N
  OBVIOUS
<1>9. p + 1 \in A <=> ValueOne(t[p + 1])
  BY <1>3
<1>10. p + 1 \in B <=> ValueTwo(t[p + 1])
  BY <1>3
<1> HIDE DEF A, B
<1>11. 2 * p \in Ones(t) <=> p + 1 \in A
  BY <1>1, <1>3, <1>4, <1>5, <1>8
<1>12. 2 * p + 1 \in Ones(t) <=> p + 1 \in B
  BY <1>1, <1>3, <1>5, <1>6, <1>8
<1>13. 2 * N \notin Ones(t)
  BY <1>1, <1>7, <1>8
<1> QED BY <1>9, <1>10, <1>11, <1>12, <1>13

\* Parities of at most two columns.
LEMMA OddOne ==
    ASSUME NEW x, NEW O
    PROVE  Odd({x} \cap O) <=> x \in O
<1>1. CASE x \in O
  <2>1. {x} \cap O = {x}
    BY <1>1
  <2>2. Cardinality({x}) = 1
    BY FS_Singleton
  <2> QED BY <1>1, <2>1, <2>2 DEF Odd
<1>2. CASE x \notin O
  <2>1. {x} \cap O = {}
    BY <1>2
  <2>2. Cardinality({}) = 0
    BY FS_EmptySet
  <2> QED BY <1>2, <2>1, <2>2 DEF Odd
<1> QED BY <1>1, <1>2

\* Of two columns, one has a variable that is 1.
LEMMA OddTwo ==
    ASSUME NEW x, NEW y, x # y, NEW O
    PROVE  Odd({x, y} \cap O) <=> ((x \in O) # (y \in O))
<1>1. {x, y} \cap O = SymDiff({x} \cap O, {y} \cap O)
  BY DEF SymDiff
<1>2. IsFiniteSet({x} \cap O) /\ IsFiniteSet({y} \cap O)
  BY FS_Singleton, FS_Subset
<1>3. Odd(SymDiff({x} \cap O, {y} \cap O)) = (Odd({x} \cap O) # Odd({y} \cap O))
  BY <1>2, OddSymDiff
<1>4. Odd({x} \cap O) <=> x \in O
  BY OddOne
<1>5. Odd({y} \cap O) <=> y \in O
  BY OddOne
<1>6. Odd({x} \cap O) \in BOOLEAN /\ Odd({y} \cap O) \in BOOLEAN
  BY DEF Odd
<1>7. Odd({x, y} \cap O) = (Odd({x} \cap O) # Odd({y} \cap O))
  BY <1>1, <1>3
<1>8. Odd({x} \cap O) = (x \in O) /\ Odd({y} \cap O) = (y \in O)
  BY <1>4, <1>5, <1>6
<1>9. Odd({x, y} \cap O) = ((x \in O) # (y \in O))
  BY <1>7, <1>8
<1> QED BY <1>9

\* The right-hand side is not a variable.
LEMMA SolvesOne ==
    ASSUME NEW x, NEW c, x # c, NEW O, c \notin O, NEW v \in BOOLEAN
    PROVE  Solves(O, {x} \cup (IF v THEN {c} ELSE {}), c) <=> ((x \in O) <=> v)
<1> DEFINE E == {x} \cup (IF v THEN {c} ELSE {})
<1>1. E \cap O = {x} \cap O
  OBVIOUS
<1>2. c \in E <=> v
  OBVIOUS
<1>3. Odd({x} \cap O) <=> x \in O
  BY OddOne
<1>4. Odd({x} \cap O) \in BOOLEAN
  BY DEF Odd
<1> QED BY <1>1, <1>2, <1>3, <1>4 DEF Solves

\* An equation of two columns.
LEMMA SolvesTwo ==
    ASSUME NEW x, NEW y, x # y, NEW c, x # c, y # c, NEW O, c \notin O, NEW v \in BOOLEAN
    PROVE  Solves(O, {x, y} \cup (IF v THEN {c} ELSE {}), c) <=> (((x \in O) # (y \in O)) <=> v)
<1> DEFINE E == {x, y} \cup (IF v THEN {c} ELSE {})
<1>1. E \cap O = {x, y} \cap O
  OBVIOUS
<1>2. c \in E <=> v
  OBVIOUS
<1>3. Odd({x, y} \cap O) <=> ((x \in O) # (y \in O))
  BY OddTwo
<1>4. Odd({x, y} \cap O) \in BOOLEAN
  BY DEF Odd
<1> QED BY <1>1, <1>2, <1>3, <1>4 DEF Solves

(***************************************************************************)
(* The equations of a condition hold for every pair of values it allows.   *)
(***************************************************************************)
LEMMA LinearConditionsHold ==
    ASSUME NEW N \in Nat, NEW pos \in 0..(N - 1), NEW bc \in Condition,
           NEW q, q = LinearConditions(bc, pos, 2 * N)
    PROVE  /\ q \in Seq(SUBSET (0..(2 * N))) /\ Len(q) <= 2
           /\ \A k \in 1..Len(q) :
                 /\ OneBit(q[k], pos, 2 * N)
                 /\ \A t : (DOMAIN t = 1..N /\ t[pos + 1] \in bc) => Solves(Ones(t), q[k], 2 * N)
<1> DEFINE x == 2 * pos
           y == 2 * pos + 1
           C == 2 * N
           One(column, v) == {column} \cup (IF v THEN {C} ELSE {})
           Both(v) == {x, y} \cup (IF v THEN {C} ELSE {})
           Fine(E, b) == /\ E \in SUBSET (0..C) /\ OneBit(E, pos, C)
                         /\ \A t : (DOMAIN t = 1..N /\ t[pos + 1] \in b) => Solves(Ones(t), E, C)
<1>1. x \in 0..C /\ y \in 0..C /\ C \in 0..C /\ x # y /\ x # C /\ y # C
  OBVIOUS
<1>2. ASSUME NEW t, DOMAIN t = 1..N
      PROVE  /\ x \in Ones(t) <=> t[pos + 1] \in {"u", "1"}
             /\ y \in Ones(t) <=> t[pos + 1] \in {"n", "1"}
             /\ C \notin Ones(t)
  <2>1. /\ 2 * pos \in Ones(t) <=> ValueOne(t[pos + 1])
        /\ 2 * pos + 1 \in Ones(t) <=> ValueTwo(t[pos + 1])
        /\ 2 * N \notin Ones(t)
    BY <1>2, OnesAt
  <2> QED BY <2>1 DEF ValueOne, ValueTwo
<1> HIDE DEF x, y, C
<1>3. \A v \in BOOLEAN : /\ One(x, v) \in SUBSET (0..C) /\ OneBit(One(x, v), pos, C)
                         /\ One(y, v) \in SUBSET (0..C) /\ OneBit(One(y, v), pos, C)
                         /\ Both(v) \in SUBSET (0..C) /\ OneBit(Both(v), pos, C)
  BY <1>1 DEF OneBit, x, y
<1>4. ASSUME NEW v \in BOOLEAN, NEW b, NEW t, DOMAIN t = 1..N, t[pos + 1] \in b
      PROVE  /\ (\A w \in b : w \in {"u", "1"} <=> v) => Solves(Ones(t), One(x, v), C)
             /\ (\A w \in b : w \in {"n", "1"} <=> v) => Solves(Ones(t), One(y, v), C)
             /\ (\A w \in b : (w \in {"u", "1"} <=> w \in {"n", "1"}) <=> ~ v) =>
                   Solves(Ones(t), Both(v), C)
  <2>1. /\ x \in Ones(t) <=> t[pos + 1] \in {"u", "1"}
        /\ y \in Ones(t) <=> t[pos + 1] \in {"n", "1"}
        /\ C \notin Ones(t)
    BY <1>2, <1>4
  <2>2. Solves(Ones(t), One(x, v), C) <=> ((x \in Ones(t)) <=> v)
    BY <1>1, <2>1, SolvesOne
  <2>3. Solves(Ones(t), One(y, v), C) <=> ((y \in Ones(t)) <=> v)
    BY <1>1, <2>1, SolvesOne
  <2>4. Solves(Ones(t), Both(v), C) <=> (((x \in Ones(t)) # (y \in Ones(t))) <=> v)
    BY <1>1, <2>1, SolvesTwo
  <2> HIDE DEF One, Both
  <2> DEFINE w == t[pos + 1]
  <2>5. w \in b
    BY <1>4
  <2> QED BY <2>1, <2>2, <2>3, <2>4, <2>5
<1> HIDE DEF One, Both
<1>5. /\ \A v \in BOOLEAN : \A b : (\A w \in b : w \in {"u", "1"} <=> v) => Fine(One(x, v), b)
      /\ \A v \in BOOLEAN : \A b : (\A w \in b : w \in {"n", "1"} <=> v) => Fine(One(y, v), b)
      /\ \A v \in BOOLEAN : \A b : (\A w \in b : (w \in {"u", "1"} <=> w \in {"n", "1"}) <=> ~ v) =>
            Fine(Both(v), b)
  BY <1>3, <1>4
<1>6. /\ Fine(One(x, FALSE), {"0"}) /\ Fine(One(y, FALSE), {"0"})
      /\ Fine(One(x, TRUE), {"1"}) /\ Fine(One(y, TRUE), {"1"})
      /\ Fine(One(x, FALSE), {"n"}) /\ Fine(One(y, TRUE), {"n"})
      /\ Fine(One(x, TRUE), {"u"}) /\ Fine(One(y, FALSE), {"u"})
      /\ Fine(Both(FALSE), {"0", "1"}) /\ Fine(Both(TRUE), {"u", "n"})
      /\ Fine(One(y, FALSE), {"0", "u"}) /\ Fine(One(x, FALSE), {"0", "n"})
      /\ Fine(One(x, TRUE), {"u", "1"}) /\ Fine(One(y, TRUE), {"n", "1"})
  <2> HIDE DEF Fine
  <2> QED BY <1>5
<1>7. q = CASE bc = {"0"} -> <<One(x, FALSE), One(y, FALSE)>>
            [] bc = {"1"} -> <<One(x, TRUE), One(y, TRUE)>>
            [] bc = {"n"} -> <<One(x, FALSE), One(y, TRUE)>>
            [] bc = {"u"} -> <<One(x, TRUE), One(y, FALSE)>>
            [] bc = {"0", "1"} -> <<Both(FALSE)>>
            [] bc = {"u", "n"} -> <<Both(TRUE)>>
            [] bc = {"0", "u"} -> <<One(y, FALSE)>>
            [] bc = {"0", "n"} -> <<One(x, FALSE)>>
            [] bc = {"u", "1"} -> <<One(x, TRUE)>>
            [] bc = {"n", "1"} -> <<One(y, TRUE)>>
            [] OTHER -> <<>>
  BY DEF LinearConditions, NoDifference, Difference, One, Both, x, y, C
<1> DEFINE Good2(s) == /\ s \in Seq(SUBSET (0..C)) /\ Len(s) <= 2
                       /\ \A k \in 1..Len(s) : Fine(s[k], bc)
<1>8. \A E, F : Fine(E, bc) /\ Fine(F, bc) => Good2(<<E, F>>)
  <2>1. SUFFICES ASSUME NEW E, NEW F, Fine(E, bc), Fine(F, bc) PROVE Good2(<<E, F>>)
    OBVIOUS
  <2>2. E \in SUBSET (0..C) /\ F \in SUBSET (0..C)
    BY <2>1
  <2> HIDE DEF Fine
  <2> QED BY <2>1, <2>2
<1>9. \A E : Fine(E, bc) => Good2(<<E>>)
  <2>1. SUFFICES ASSUME NEW E, Fine(E, bc) PROVE Good2(<<E>>)
    OBVIOUS
  <2>2. E \in SUBSET (0..C)
    BY <2>1
  <2> HIDE DEF Fine
  <2> QED BY <2>1, <2>2
<1>10. Good2(<<>>)
  <2> HIDE DEF Fine
  <2>1. Len(<<>>) = 0 /\ <<>> \in Seq(SUBSET (0..C))
    OBVIOUS
  <2> QED BY <2>1
<1> HIDE DEF Good2, Fine
<1>11. Good2(q)
  <2>1. CASE bc = {"0"}
    <3>1. "0" \in bc /\ "u" \notin bc /\ "n" \notin bc /\ "1" \notin bc
      BY <2>1
    <3>2. /\ bc # {"1"} /\ bc # {"n"} /\ bc # {"u"} /\ bc # {"0", "1"} /\ bc # {"u", "n"}
          /\ bc # {"0", "u"} /\ bc # {"0", "n"} /\ bc # {"u", "1"} /\ bc # {"n", "1"}
      BY <3>1
    <3>3. q = <<One(x, FALSE), One(y, FALSE)>>
      BY <1>7, <2>1, <3>2
    <3> QED BY <1>6, <1>8, <2>1, <3>3
  <2>2. CASE bc = {"1"}
    <3>1. "0" \notin bc /\ "u" \notin bc /\ "n" \notin bc /\ "1" \in bc
      BY <2>2
    <3>2. /\ bc # {"0"} /\ bc # {"n"} /\ bc # {"u"} /\ bc # {"0", "1"} /\ bc # {"u", "n"}
          /\ bc # {"0", "u"} /\ bc # {"0", "n"} /\ bc # {"u", "1"} /\ bc # {"n", "1"}
      BY <3>1
    <3>3. q = <<One(x, TRUE), One(y, TRUE)>>
      BY <1>7, <2>2, <3>2
    <3> QED BY <1>6, <1>8, <2>2, <3>3
  <2>3. CASE bc = {"n"}
    <3>1. "0" \notin bc /\ "u" \notin bc /\ "n" \in bc /\ "1" \notin bc
      BY <2>3
    <3>2. /\ bc # {"0"} /\ bc # {"1"} /\ bc # {"u"} /\ bc # {"0", "1"} /\ bc # {"u", "n"}
          /\ bc # {"0", "u"} /\ bc # {"0", "n"} /\ bc # {"u", "1"} /\ bc # {"n", "1"}
      BY <3>1
    <3>3. q = <<One(x, FALSE), One(y, TRUE)>>
      BY <1>7, <2>3, <3>2
    <3> QED BY <1>6, <1>8, <2>3, <3>3
  <2>4. CASE bc = {"u"}
    <3>1. "0" \notin bc /\ "u" \in bc /\ "n" \notin bc /\ "1" \notin bc
      BY <2>4
    <3>2. /\ bc # {"0"} /\ bc # {"1"} /\ bc # {"n"} /\ bc # {"0", "1"} /\ bc # {"u", "n"}
          /\ bc # {"0", "u"} /\ bc # {"0", "n"} /\ bc # {"u", "1"} /\ bc # {"n", "1"}
      BY <3>1
    <3>3. q = <<One(x, TRUE), One(y, FALSE)>>
      BY <1>7, <2>4, <3>2
    <3> QED BY <1>6, <1>8, <2>4, <3>3
  <2>5. CASE bc = {"0", "1"}
    <3>1. "0" \in bc /\ "u" \notin bc /\ "n" \notin bc /\ "1" \in bc
      BY <2>5
    <3>2. /\ bc # {"0"} /\ bc # {"1"} /\ bc # {"n"} /\ bc # {"u"} /\ bc # {"u", "n"}
          /\ bc # {"0", "u"} /\ bc # {"0", "n"} /\ bc # {"u", "1"} /\ bc # {"n", "1"}
      BY <3>1
    <3>3. q = <<Both(FALSE)>>
      BY <1>7, <2>5, <3>2
    <3> QED BY <1>6, <1>9, <2>5, <3>3
  <2>6. CASE bc = {"u", "n"}
    <3>1. "0" \notin bc /\ "u" \in bc /\ "n" \in bc /\ "1" \notin bc
      BY <2>6
    <3>2. /\ bc # {"0"} /\ bc # {"1"} /\ bc # {"n"} /\ bc # {"u"} /\ bc # {"0", "1"}
          /\ bc # {"0", "u"} /\ bc # {"0", "n"} /\ bc # {"u", "1"} /\ bc # {"n", "1"}
      BY <3>1
    <3>3. q = <<Both(TRUE)>>
      BY <1>7, <2>6, <3>2
    <3> QED BY <1>6, <1>9, <2>6, <3>3
  <2>7. CASE bc = {"0", "u"}
    <3>1. "0" \in bc /\ "u" \in bc /\ "n" \notin bc /\ "1" \notin bc
      BY <2>7
    <3>2. /\ bc # {"0"} /\ bc # {"1"} /\ bc # {"n"} /\ bc # {"u"} /\ bc # {"0", "1"}
          /\ bc # {"u", "n"} /\ bc # {"0", "n"} /\ bc # {"u", "1"} /\ bc # {"n", "1"}
      BY <3>1
    <3>3. q = <<One(y, FALSE)>>
      BY <1>7, <2>7, <3>2
    <3> QED BY <1>6, <1>9, <2>7, <3>3
  <2>8. CASE bc = {"0", "n"}
    <3>1. "0" \in bc /\ "u" \notin bc /\ "n" \in bc /\ "1" \notin bc
      BY <2>8
    <3>2. /\ bc # {"0"} /\ bc # {"1"} /\ bc # {"n"} /\ bc # {"u"} /\ bc # {"0", "1"}
          /\ bc # {"u", "n"} /\ bc # {"0", "u"} /\ bc # {"u", "1"} /\ bc # {"n", "1"}
      BY <3>1
    <3>3. q = <<One(x, FALSE)>>
      BY <1>7, <2>8, <3>2
    <3> QED BY <1>6, <1>9, <2>8, <3>3
  <2>9. CASE bc = {"u", "1"}
    <3>1. "0" \notin bc /\ "u" \in bc /\ "n" \notin bc /\ "1" \in bc
      BY <2>9
    <3>2. /\ bc # {"0"} /\ bc # {"1"} /\ bc # {"n"} /\ bc # {"u"} /\ bc # {"0", "1"}
          /\ bc # {"u", "n"} /\ bc # {"0", "u"} /\ bc # {"0", "n"} /\ bc # {"n", "1"}
      BY <3>1
    <3>3. q = <<One(x, TRUE)>>
      BY <1>7, <2>9, <3>2
    <3> QED BY <1>6, <1>9, <2>9, <3>3
  <2>10. CASE bc = {"n", "1"}
    <3>1. "0" \notin bc /\ "u" \notin bc /\ "n" \in bc /\ "1" \in bc
      BY <2>10
    <3>2. /\ bc # {"0"} /\ bc # {"1"} /\ bc # {"n"} /\ bc # {"u"} /\ bc # {"0", "1"}
          /\ bc # {"u", "n"} /\ bc # {"0", "u"} /\ bc # {"0", "n"} /\ bc # {"u", "1"}
      BY <3>1
    <3>3. q = <<One(y, TRUE)>>
      BY <1>7, <2>10, <3>2
    <3> QED BY <1>6, <1>9, <2>10, <3>3
  <2>11. CASE /\ bc # {"0"} /\ bc # {"1"} /\ bc # {"n"} /\ bc # {"u"} /\ bc # {"0", "1"}
              /\ bc # {"u", "n"} /\ bc # {"0", "u"} /\ bc # {"0", "n"} /\ bc # {"u", "1"}
              /\ bc # {"n", "1"}
    BY <1>7, <1>10, <2>11
  <2> QED BY <2>1, <2>2, <2>3, <2>4, <2>5, <2>6, <2>7, <2>8, <2>9, <2>10, <2>11
<1> QED BY <1>11 DEF Good2, Fine, C

\* The columns of the inputs of output k in message p.
InputColumns(st, k, p) == {2 * (st.outputs + j) + p : j \in st.depends[k]}

\* A row and a column of each output, for each message.
LEMMA RowIs ==
    ASSUME NEW s \in LinearSteps, NEW st, st = StepList[s], NEW r \in 0..(2 * st.outputs - 1)
    PROVE  /\ r \div 2 \in 0..(st.outputs - 1) /\ r % 2 \in {0, 1} /\ r = 2 * (r \div 2) + (r % 2)
           /\ r \in 0..(ColumnCount(s) - 1)
           /\ \A x \in InputColumns(st, r \div 2, r % 2) :
                 x \in 0..(ColumnCount(s) - 1) /\ 2 * st.outputs <= x /\ r < x
<1>1. /\ st.outputs \in Nat /\ st.inputs \in Nat /\ st.outputs <= Len(st.bits)
      /\ Len(st.bits) \in Nat /\ st.inputs = Len(st.bits) - st.outputs
      /\ st.depends \in [0..(st.outputs - 1) -> SUBSET (0..(st.inputs - 1))]
  BY StepFacts
<1>2. /\ r \div 2 \in 0..(st.outputs - 1) /\ r % 2 \in {0, 1} /\ r = 2 * (r \div 2) + (r % 2)
  BY <1>1
<1>3. r \in 0..(ColumnCount(s) - 1)
  BY <1>1 DEF ColumnCount
<1>4. ASSUME NEW j \in st.depends[r \div 2]
      PROVE  LET x == 2 * (st.outputs + j) + (r % 2)
             IN  x \in 0..(ColumnCount(s) - 1) /\ 2 * st.outputs <= x /\ r < x
  <2>1. j \in 0..(st.inputs - 1)
    BY <1>1, <1>2
  <2> DEFINE p == r % 2
  <2>2. p \in {0, 1}
    BY <1>2
  <2> HIDE DEF p
  <2>3. LET x == 2 * (st.outputs + j) + p
        IN  x \in 0..(2 * Len(st.bits) - 1) /\ 2 * st.outputs <= x /\ r < x
    <3> DEFINE o == st.outputs
               L == Len(st.bits)
               x == 2 * (o + j) + p
    <3>1. /\ o \in Int /\ L \in Int /\ o >= 0 /\ j \in Int /\ p \in Int /\ r \in Int
          /\ j >= 0 /\ j < L - o /\ p >= 0 /\ p <= 1 /\ r < 2 * o
      BY <1>1, <2>1, <2>2, SMTT(30)
    <3> HIDE DEF o, L
    <3>2. x \in Int /\ x >= 0 /\ x <= 2 * L - 1 /\ 2 * o <= x /\ r < x
      BY <3>1
    <3> QED BY <3>1, <3>2 DEF o, L
  <2> QED BY <2>3 DEF p, ColumnCount
<1> QED BY <1>2, <1>3, <1>4 DEF InputColumns

\* Row by row.
InitialRows(m, st, n) ==
    \A r \in 0..(n - 1) : Content(m, r) = {r} \cup InputColumns(st, r \div 2, r % 2)

\* The matrix before any equation: every row is its own pivot.
LEMMA InitialShaped ==
    ASSUME NEW s \in LinearSteps, NEW st, st = StepList[s],
           NEW m, m = InitialMatrix(st.inputs, st.outputs, st.depends)
    PROVE  /\ Shaped(m, RowCount(s), ColumnCount(s)) /\ m.changes = <<>>
           /\ m.updateRows = {} /\ m.updatePivot = {} /\ IsReducedRowEchelon(m)
           /\ InitialRows(m, st, RowCount(s))
<1> DEFINE R == 0..(2 * st.outputs - 1)
           n == RowCount(s)
           c == ColumnCount(s)
           D == [r \in R |-> {r} \cup InputColumns(st, r \div 2, r % 2)]
<1>1. /\ st.outputs \in Nat /\ st.inputs \in Nat /\ st.outputs <= Len(st.bits)
      /\ Len(st.bits) \in Nat /\ st.inputs = Len(st.bits) - st.outputs
      /\ n \in Nat /\ c \in Nat /\ n <= c
  BY StepFacts
<1>2. n = 2 * st.outputs /\ c = 2 * Len(st.bits) /\ 2 * (st.inputs + st.outputs) = c
  BY <1>1 DEF RowCount, ColumnCount
<1>3. /\ m.columns = c /\ m.data = D /\ m.row = [r \in R |-> [index |-> r, pivot |-> r]]
      /\ m.rowinv = [r \in R |-> r] /\ m.changes = <<>> /\ m.extract = R
      /\ m.updateRows = {} /\ m.updatePivot = {}
      /\ m = [columns |-> c, data |-> D, row |-> [r \in R |-> [index |-> r, pivot |-> r]],
              rowinv |-> [r \in R |-> r], changes |-> <<>>, extract |-> R,
              updateRows |-> {}, updatePivot |-> {}]
  BY <1>2 DEF InitialMatrix, InputColumns
<1>4. \A r \in R : /\ r \in 0..c /\ \A x \in InputColumns(st, r \div 2, r % 2) :
                                       x \in 0..c /\ x # c /\ 2 * st.outputs <= x /\ r < x
                   /\ r # c /\ r \in Int
  <2>1. TAKE r \in R
  <2>2. /\ r \in 0..(c - 1)
        /\ \A x \in InputColumns(st, r \div 2, r % 2) :
              x \in 0..(c - 1) /\ 2 * st.outputs <= x /\ r < x
    BY RowIs
  <2> HIDE DEF c
  <2>3. \A x \in 0..(c - 1) : x \in 0..c /\ x # c
    BY <1>1
  <2> QED BY <2>2, <2>3
<1>5. \A r \in R : D[r] \in SUBSET (0..c) /\ r \in D[r] /\ \A x \in D[r] : r <= x
  <2>1. TAKE r \in R
  <2> DEFINE I == InputColumns(st, r \div 2, r % 2)
  <2>2. D[r] = {r} \cup I
    OBVIOUS
  <2>3. r \in 0..c /\ r \in Int /\ \A x \in I : x \in 0..c /\ r < x
    BY <1>4
  <2> HIDE DEF I, D, c
  <2>4. \A x \in I : x \in 0..c /\ x \in Int /\ r <= x
    BY <1>1, <2>3
  <2> QED BY <2>2, <2>3, <2>4
<1> HIDE DEF D
<1>6. D \in [R -> SUBSET (0..c)]
  <2>1. D = [r \in R |-> D[r]]
    BY DEF D
  <2> QED BY <1>5, <2>1
<1>7. m \in MatrixSet(n, c)
  <2>1. 0..(n - 1) = R
    BY <1>2
  <2>2. \A r \in R : [index |-> r, pivot |-> r] \in [index : R, pivot : 0..(c + 1)]
    BY <1>1, <1>2, SMTT(30)
  <2>3. [r \in R |-> [index |-> r, pivot |-> r]] \in [R -> [index : R, pivot : 0..(c + 1)]]
    BY <2>2
  <2>4. <<>> \in Seq(Change(n, c))
    OBVIOUS
  <2>5. {} \in SUBSET R /\ R \in SUBSET R /\ c \in {c} /\ [r \in R |-> r] \in [R -> R]
    OBVIOUS
  <2>6. MatrixSet(n, c) = [columns : {c}, data : [R -> SUBSET (0..c)],
                           row : [R -> [index : R, pivot : 0..(c + 1)]], rowinv : [R -> R],
                           changes : Seq(Change(n, c)), extract : SUBSET R,
                           updateRows : SUBSET R, updatePivot : SUBSET R]
    BY <2>1 DEF MatrixSet, MatrixRow
  <2> DEFINE row == [r \in R |-> [index |-> r, pivot |-> r]]
             inv == [r \in R |-> r]
  <2>7. m = [columns |-> c, data |-> D, row |-> row, rowinv |-> inv, changes |-> <<>>,
             extract |-> R, updateRows |-> {}, updatePivot |-> {}]
    BY <1>3
  <2>8. row \in [R -> [index : R, pivot : 0..(c + 1)]] /\ inv \in [R -> R]
    BY <2>3, <2>5
  <2> HIDE DEF row, inv, R, c, n
  <2> QED BY <1>6, <2>4, <2>5, <2>6, <2>7, <2>8
<1>8. Rows(m) = R /\ DOMAIN m.data = R /\ \A r \in R : m.row[r].index = r /\ m.row[r].pivot = r
  BY <1>3, <1>6 DEF Rows
<1>9. \A r \in R : Content(m, r) = D[r] /\ Pivot(m, r) = r
  BY <1>3, <1>8 DEF Content, Pivot
<1>10. \A r \in R : Pivot(m, r) = ComputePivot(m, Content(m, r))
  <2>1. TAKE r \in R
  <2>2. c \in Nat /\ m.columns = c
    BY <1>1, <1>3
  <2> HIDE DEF c, R
  <2> DEFINE A == D[r]
  <2>3. A \in SUBSET (0..c) /\ r \in A /\ \A x \in A : r <= x
    BY <1>5
  <2> HIDE DEF A
  <2>4. ComputePivot(m, A) = r
    BY <2>2, <2>3, PivotUnique
  <2> QED BY <1>9, <2>4 DEF A
<1>11. m.rowinv = Positions(m.row)
  <2> DEFINE K(i) == CHOOSE r \in R : m.row[r].index = i
  <2>1. \A i \in R : K(i) = i
    BY <1>8
  <2>2. DOMAIN m.row = R
    BY <1>3
  <2>3. Positions(m.row) = [i \in R |-> K(i)]
    BY <2>2 DEF Positions
  <2>4. m.rowinv = [i \in R |-> i]
    BY <1>3
  <2> HIDE DEF K
  <2> QED BY <2>1, <2>3, <2>4
<1>12. Shaped(m, n, c)
  BY <1>7, <1>8, <1>10, <1>11, SMTT(30) DEF Shaped
<1>13. IsReducedRowEchelon(m)
  <2>1. IsRowEchelon(m)
    BY <1>4, <1>8, <1>9 DEF IsRowEchelon
  <2>2. ASSUME NEW r \in R, NEW q \in R, q < r PROVE r \notin Content(m, q)
    <3>1. r \in Int /\ q \in Int /\ r < 2 * st.outputs
      BY <1>1
    <3>2. Content(m, q) = {q} \cup InputColumns(st, q \div 2, q % 2)
      BY <1>9 DEF D
    <3>3. \A x \in InputColumns(st, q \div 2, q % 2) : x \in 0..c /\ 2 * st.outputs <= x
      BY <1>4
    <3>4. ~ (2 * st.outputs <= r)
      BY <1>1, <3>1
    <3> QED BY <2>2, <3>1, <3>2, <3>3, <3>4
  <2> QED BY <1>8, <1>9, <2>1, <2>2 DEF IsReducedRowEchelon
<1>14. \A r \in 0..(n - 1) : Content(m, r) = {r} \cup InputColumns(st, r \div 2, r % 2)
  BY <1>2, <1>9 DEF D
<1> QED BY <1>3, <1>12, <1>13, <1>14 DEF InitialRows

\* The values that the bits of a step have in an assignment.
LEMMA ValuesAt ==
    ASSUME NEW s \in LinearSteps, NEW st, st = StepList[s], NEW t, DOMAIN t = 1..Len(st.bits),
           NEW T, T = ValuesOf(st, t)
    PROVE  /\ T = [b \in Range(st.bits) |-> T[b]]
           /\ \A k \in 1..Len(st.bits) : T[st.bits[k]] = t[k]
<1>1. /\ DOMAIN st.bits = 1..Len(st.bits)
      /\ \A j, k \in 1..Len(st.bits) : st.bits[j] = st.bits[k] => j = k
      /\ \A k \in 1..Len(st.bits) : st.bits[k] \in Range(st.bits)
  BY StepFacts
<1> DEFINE L == 1..Len(st.bits)
           K(b) == CHOOSE k \in L : st.bits[k] = b
<1>2. T = [b \in Range(st.bits) |-> t[K(b)]]
  BY DEF ValuesOf
<1> HIDE DEF L
<1>3. ASSUME NEW k \in L PROVE K(st.bits[k]) = k
  <2> DEFINE j == K(st.bits[k])
  <2>1. j \in L /\ st.bits[j] = st.bits[k]
    OBVIOUS
  <2> HIDE DEF j
  <2>2. j = k
    BY <1>1, <2>1 DEF L
  <2> QED BY <2>2 DEF j
<1> HIDE DEF K
<1>4. \A k \in L : T[st.bits[k]] = t[k]
  BY <1>1, <1>2, <1>3 DEF L
<1> QED BY <1>2, <1>4 DEF L

\* Output k fits the inputs in a message whose bits with the value 1 are ones.
FitsAt(st, k, ones) ==
    st.bits[k + 1] \in ones <=>
        Cardinality({i \in st.depends[k] : st.bits[st.outputs + i + 1] \in ones}) % 2 = 1

\* The parity of a row of the initial matrix is that of its output and its inputs.
LEMMA InitialParity ==
    ASSUME NEW s \in LinearSteps, NEW st, st = StepList[s],
           NEW m, m = InitialMatrix(st.inputs, st.outputs, st.depends),
           NEW t, DOMAIN t = 1..Len(st.bits),
           NEW k \in 0..(st.outputs - 1), NEW p \in {0, 1},
           NEW ones, \A x \in 0..(Len(st.bits) - 1) :
                        st.bits[x + 1] \in ones <=> 2 * x + p \in Ones(t)
    PROVE  Solves(Ones(t), Content(m, 2 * k + p), ColumnCount(s)) <=> FitsAt(st, k, ones)
<1> DEFINE r == 2 * k + p
           c == ColumnCount(s)
           O == Ones(t)
           D == InputColumns(st, k, p)
           I == {i \in st.depends[k] : st.bits[st.outputs + i + 1] \in ones}
           f == [i \in I |-> 2 * (st.outputs + i) + p]
<1>1. /\ st.outputs \in Nat /\ st.inputs \in Nat /\ st.outputs <= Len(st.bits)
      /\ Len(st.bits) \in Nat /\ st.inputs = Len(st.bits) - st.outputs
      /\ st.depends \in [0..(st.outputs - 1) -> SUBSET (0..(st.inputs - 1))]
      /\ c \in Nat
  BY StepFacts
<1>2. r \in 0..(2 * st.outputs - 1) /\ r \div 2 = k /\ r % 2 = p /\ k \in 0..(Len(st.bits) - 1)
  <2> DEFINE o == st.outputs
             L == Len(st.bits)
  <2>1. o \in Int /\ L \in Int /\ k \in Int /\ k >= 0 /\ k < o /\ o <= L
    BY <1>1
  <2> HIDE DEF o, L
  <2>2. CASE p = 0
    <3>1. 2 * k \in 0..(2 * o - 1) /\ k \in 0..(L - 1)
      BY <2>1
    <3>2. (2 * k) \div 2 = k
      BY <2>1
    <3>3. (2 * k) % 2 = 0
      BY <2>1
    <3>4. r = 2 * k
      BY <2>1, <2>2
    <3> HIDE DEF r
    <3> QED BY <2>2, <3>1, <3>2, <3>3, <3>4 DEF o, L
  <2>3. CASE p = 1
    <3>1. 2 * k + 1 \in 0..(2 * o - 1) /\ k \in 0..(L - 1)
      BY <2>1
    <3>2. (2 * k + 1) \div 2 = k
      BY <2>1
    <3>3. (2 * k + 1) % 2 = 1
      BY <2>1
    <3> QED BY <2>3, <3>1, <3>2, <3>3 DEF o, L
  <2> QED BY <2>2, <2>3
<1>3. Content(m, r) = {r} \cup D
  <2>1. r \in 0..(RowCount(s) - 1)
    BY <1>2 DEF RowCount
  <2>3. \A q \in 0..(RowCount(s) - 1) :
           Content(m, q) = {q} \cup InputColumns(st, q \div 2, q % 2)
    <3>1. InitialRows(m, st, RowCount(s))
      BY InitialShaped
    <3> QED BY <3>1 DEF InitialRows
  <2> HIDE DEF r
  <2>2. Content(m, r) = {r} \cup InputColumns(st, r \div 2, r % 2)
    BY <2>1, <2>3
  <2> QED BY <1>2, <2>2
<1>4. r \in 0..(c - 1) /\ \A x \in D : x \in 0..(c - 1) /\ r < x
  <2> HIDE DEF r
  <2>1. r \in 0..(ColumnCount(s) - 1)
        /\ \A x \in InputColumns(st, r \div 2, r % 2) :
              x \in 0..(ColumnCount(s) - 1) /\ 2 * st.outputs <= x /\ r < x
    BY <1>2, RowIs
  <2> QED BY <1>2, <2>1
<1>5. c \notin Content(m, r) /\ Content(m, r) \cap O = SymDiff({r} \cap O, D \cap O)
  <2> HIDE DEF c, D, O, r
  <2>1. c # r /\ c \notin D /\ r \notin D
    BY <1>1, <1>4
  <2>2. c \notin Content(m, r)
    BY <1>3, <2>1
  <2>3. ({r} \cup D) \cap O = SymDiff({r} \cap O, D \cap O)
    BY <2>1 DEF SymDiff
  <2> QED BY <1>3, <2>2, <2>3
<1>6. IsFiniteSet(D \cap O) /\ IsFiniteSet({r} \cap O)
  <2>1. 0 \in Int /\ c - 1 \in Int
    BY <1>1
  <2>2. IsFiniteSet(0..(c - 1))
    BY <2>1, FS_Interval
  <2>3. D \cap O \in SUBSET (0..(c - 1)) /\ {r} \cap O \in SUBSET (0..(c - 1))
    BY <1>4
  <2> HIDE DEF D, O, r, c
  <2> QED BY <2>2, <2>3, FS_Subset
<1>7. \A i \in st.depends[k] : /\ i \in Nat /\ st.outputs + i \in 0..(Len(st.bits) - 1)
                               /\ 2 * (st.outputs + i) + p \in D
                               /\ i \in I <=> 2 * (st.outputs + i) + p \in O
  <2>1. TAKE i \in st.depends[k]
  <2>2. i \in 0..(st.inputs - 1)
    BY <1>1
  <2>3. i \in Nat /\ st.outputs + i \in 0..(Len(st.bits) - 1)
    <3> DEFINE o == st.outputs
               L == Len(st.bits)
    <3>1. o \in Nat /\ L \in Nat /\ i \in 0..(L - o - 1)
      BY <1>1, <2>2
    <3> HIDE DEF o, L
    <3>2. i \in Nat /\ o + i \in 0..(L - 1)
      BY <3>1
    <3> QED BY <3>2 DEF o, L
  <2>4. 2 * (st.outputs + i) + p \in D
    BY DEF InputColumns
  <2>5. st.bits[(st.outputs + i) + 1] \in ones <=> 2 * (st.outputs + i) + p \in O
    BY <2>3
  <2>6. i \in I <=> st.bits[st.outputs + i + 1] \in ones
    OBVIOUS
  <2> QED BY <2>3, <2>4, <2>5, <2>6
<1>8. Cardinality(D \cap O) = Cardinality(I)
  <2>1. \A i \in I : i \in st.depends[k] /\ f[i] = 2 * (st.outputs + i) + p
    OBVIOUS
  <2>2. \A i \in I : f[i] \in D \cap O
    BY <1>7, <2>1
  <2>3. \A x \in D \cap O : \E i \in I : f[i] = x
    <3>1. TAKE x \in D \cap O
    <3>2. PICK i \in st.depends[k] : x = 2 * (st.outputs + i) + p
      BY DEF InputColumns
    <3>3. i \in I
      BY <1>7, <3>2
    <3> QED BY <2>1, <3>2, <3>3
  <2>4. \A i, j \in I : f[i] = f[j] => i = j
    <3>1. TAKE i, j \in I
    <3>2. i \in Int /\ j \in Int /\ st.outputs \in Int /\ p \in Int
      BY <1>1, <1>7
    <3>3. 2 * (st.outputs + i) + p = 2 * (st.outputs + j) + p => i = j
      BY <3>2, SMTT(30)
    <3> QED BY <2>1, <3>3
  <2>5. f = [i \in I |-> f[i]]
    OBVIOUS
  <2> DEFINE X == D \cap O
  <2> HIDE DEF f, I, X
  <2>6. f \in [I -> X]
    BY <2>2, <2>5 DEF X
  <2>7. f \in Injection(I, X)
    BY <2>4, <2>6 DEF Injection, IsInjective
  <2>8. f \in Surjection(I, X)
    BY <2>3, <2>6 DEF Surjection, X
  <2>9. IsFiniteSet(X)
    BY <1>6 DEF X
  <2>10. IsFiniteSet(I)
    BY <2>7, <2>9, FS_Injection
  <2>11. Cardinality(X) = Cardinality(I)
    BY <2>7, <2>8, <2>10, FS_Surjection
  <2> QED BY <2>11 DEF X
<1>9. r \in O <=> st.bits[k + 1] \in ones
  BY <1>2
<1> HIDE DEF r, c, O, D, I
<1>10. Odd(Content(m, r) \cap O) = (Odd({r} \cap O) # Odd(D \cap O))
  <2> DEFINE A == {r} \cap O
             B == D \cap O
  <2>1. IsFiniteSet(A) /\ IsFiniteSet(B)
    BY <1>6
  <2> HIDE DEF A, B
  <2>2. Odd(SymDiff(A, B)) = (Odd(A) # Odd(B))
    BY <2>1, OddSymDiff
  <2> QED BY <1>5, <2>2 DEF A, B
<1>11. Odd({r} \cap O) <=> r \in O
  BY OddOne
<1>12. Odd(D \cap O) <=> Cardinality(I) % 2 = 1
  BY <1>8 DEF Odd
<1>13. Odd({r} \cap O) \in BOOLEAN /\ Odd(D \cap O) \in BOOLEAN
  BY DEF Odd
<1>14. Solves(O, Content(m, r), c) <=> (st.bits[k + 1] \in ones <=> Cardinality(I) % 2 = 1)
  BY <1>5, <1>9, <1>10, <1>11, <1>12, <1>13 DEF Solves
<1> QED BY <1>14 DEF r, c, O, I, FitsAt

(***************************************************************************)
(* The matrix a linear step starts with says what its function says, in    *)
(* both messages.                                                          *)
(***************************************************************************)
LEMMA InitialFaithful ==
    ASSUME NEW s \in LinearSteps, NEW st, st = StepList[s],
           NEW m, m = InitialMatrix(st.inputs, st.outputs, st.depends),
           NEW t \in [1..Len(st.bits) -> Pair]
    PROVE  SolvesRows(Ones(t), m) <=> ValuesOf(st, t) \in st.relation
<1> DEFINE T == ValuesOf(st, t)
           L == Len(st.bits)
           one == {b \in Range(st.bits) : ValueOne(T[b])}
           two == {b \in Range(st.bits) : ValueTwo(T[b])}
           O == Ones(t)
           n == RowCount(s)
           c == ColumnCount(s)
<1>1. /\ st.outputs \in Nat /\ L \in Nat /\ st.outputs <= L
      /\ st = LinearStep(st.bits, st.outputs, st.depends)
      /\ \A k \in 1..L : st.bits[k] \in Range(st.bits)
      /\ n \in Nat /\ n = 2 * st.outputs /\ DOMAIN st.bits = 1..L
  BY StepFacts DEF RowCount
<1>2. T = [b \in Range(st.bits) |-> T[b]] /\ \A k \in 1..L : T[st.bits[k]] = t[k]
  <2>1. DOMAIN t = 1..Len(st.bits)
    OBVIOUS
  <2> QED BY <2>1, ValuesAt
<1>3. T \in [Range(st.bits) -> Pair]
  <2>1. \A b \in Range(st.bits) : \E k \in 1..L : st.bits[k] = b
    BY <1>1 DEF Range
  <2>2. \A b \in Range(st.bits) : T[b] \in Pair
    BY <1>2, <2>1
  <2> HIDE DEF T
  <2> QED BY <1>2, <2>2
<1> HIDE DEF T
<1>4. T \in st.relation <=> /\ Fits(st.bits, st.outputs, st.depends, one)
                            /\ Fits(st.bits, st.outputs, st.depends, two)
  <2> DEFINE X == LinearStep(st.bits, st.outputs, st.depends)
  <2>2. X.relation = {u \in [Range(st.bits) -> Pair] :
            /\ Fits(st.bits, st.outputs, st.depends, {b \in Range(st.bits) : ValueOne(u[b])})
            /\ Fits(st.bits, st.outputs, st.depends, {b \in Range(st.bits) : ValueTwo(u[b])})}
    BY DEF LinearStep
  <2> HIDE DEF X
  <2>3. st.relation = X.relation
    BY <1>1 DEF X
  <2>1. st.relation = {u \in [Range(st.bits) -> Pair] :
            /\ Fits(st.bits, st.outputs, st.depends, {b \in Range(st.bits) : ValueOne(u[b])})
            /\ Fits(st.bits, st.outputs, st.depends, {b \in Range(st.bits) : ValueTwo(u[b])})}
    BY <2>2, <2>3
  <2> QED BY <1>3, <2>1
<1>5. \A x \in 0..(L - 1) : /\ st.bits[x + 1] \in one <=> 2 * x + 0 \in O
                            /\ st.bits[x + 1] \in two <=> 2 * x + 1 \in O
  <2>1. TAKE x \in 0..(L - 1)
  <2>2. x + 1 \in 1..L /\ 2 * x + 0 = 2 * x
    BY <1>1
  <2>3. T[st.bits[x + 1]] = t[x + 1] /\ st.bits[x + 1] \in Range(st.bits)
    BY <1>1, <1>2, <2>2
  <2>4. /\ 2 * x \in O <=> ValueOne(t[x + 1])
        /\ 2 * x + 1 \in O <=> ValueTwo(t[x + 1])
    <3>1. DOMAIN t = 1..L
      OBVIOUS
    <3> HIDE DEF L
    <3> QED BY <1>1, <3>1, OnesAt
  <2>5. st.bits[x + 1] \in one <=> ValueOne(t[x + 1])
    BY <2>3
  <2>6. st.bits[x + 1] \in two <=> ValueTwo(t[x + 1])
    BY <2>3
  <2> HIDE DEF one, two, O
  <2> QED BY <2>2, <2>4, <2>5, <2>6
<1> HIDE DEF one, two
<1>6. ASSUME NEW k \in 0..(st.outputs - 1)
      PROVE  /\ Solves(O, Content(m, 2 * k + 0), c) <=> FitsAt(st, k, one)
             /\ Solves(O, Content(m, 2 * k + 1), c) <=> FitsAt(st, k, two)
  <2>1. DOMAIN t = 1..Len(st.bits) /\ 0 \in {0, 1} /\ 1 \in {0, 1}
    OBVIOUS
  <2> HIDE DEF L
  <2>2. \A x \in 0..(Len(st.bits) - 1) : st.bits[x + 1] \in one <=> 2 * x + 0 \in Ones(t)
    BY <1>5 DEF L
  <2>3. \A x \in 0..(Len(st.bits) - 1) : st.bits[x + 1] \in two <=> 2 * x + 1 \in Ones(t)
    BY <1>5 DEF L
  <2>4. Solves(O, Content(m, 2 * k + 0), c) <=> FitsAt(st, k, one)
    BY <2>1, <2>2, InitialParity, ZenonT(60)
  <2>5. Solves(O, Content(m, 2 * k + 1), c) <=> FitsAt(st, k, two)
    BY <2>1, <2>3, InitialParity, ZenonT(60)
  <2> QED BY <2>4, <2>5
<1>7. Rows(m) = 0..(n - 1) /\ RHS(m) = c
  <2>1. m \in MatrixSet(n, c)
    BY InitialShaped DEF Shaped
  <2> QED BY <2>1, MatrixFacts
<1>8. \A r \in 0..(n - 1) : \E k \in 0..(st.outputs - 1) : r = 2 * k + 0 \/ r = 2 * k + 1
  <2>1. TAKE r \in 0..(n - 1)
  <2>1a. r \in 0..(2 * st.outputs - 1)
    BY <1>1
  <2>2. /\ r \div 2 \in 0..(st.outputs - 1) /\ r % 2 \in {0, 1} /\ r = 2 * (r \div 2) + (r % 2)
    BY <2>1a, RowIs
  <2> DEFINE k == r \div 2
             p == r % 2
  <2>3. k \in 0..(st.outputs - 1) /\ p \in {0, 1} /\ r = 2 * k + p
    BY <2>2
  <2> HIDE DEF k, p
  <2> QED BY <2>3
<1>9. \A k \in 0..(st.outputs - 1) : 2 * k + 0 \in 0..(n - 1) /\ 2 * k + 1 \in 0..(n - 1)
  BY <1>1
<1> HIDE DEF O, n, c
<1>10. SolvesRows(O, m) <=> \A k \in 0..(st.outputs - 1) : FitsAt(st, k, one) /\ FitsAt(st, k, two)
  <2>1. SolvesRows(O, m) <=> \A r \in 0..(n - 1) : Solves(O, Content(m, r), c)
    BY <1>7 DEF SolvesRows
  <2> QED BY <1>6, <1>8, <1>9, <2>1
<1>11. \A ones : Fits(st.bits, st.outputs, st.depends, ones) <=>
                    \A k \in 0..(st.outputs - 1) : FitsAt(st, k, ones)
  BY DEF Fits, FitsAt
<1>12. SolvesRows(O, m) <=> T \in st.relation
  BY <1>4, <1>10, <1>11
<1> QED BY <1>12 DEF O, T

-----------------------------------------------------------------------------
(* All matrices of a characteristic *)

\* The matrix of a step has the shape of the step.
LEMMA StepMatrixIs ==
    ASSUME NEW f \in StepMatrices, NEW s \in LinearSteps
    PROVE  /\ Shaped(f[s], RowCount(s), ColumnCount(s))
           /\ f[s] \in MatrixSet(RowCount(s), ColumnCount(s)) /\ RHS(f[s]) = ColumnCount(s)
           /\ RowCount(s) \in Nat /\ ColumnCount(s) \in Nat
<1>1. Shaped(f[s], RowCount(s), ColumnCount(s))
  BY DEF StepMatrices
<1>2. f[s] \in MatrixSet(RowCount(s), ColumnCount(s))
  BY <1>1 DEF Shaped
<1>3. RowCount(s) \in Nat /\ ColumnCount(s) \in Nat
  BY StepFacts
<1>4. f[s].columns = ColumnCount(s)
  BY <1>2 DEF MatrixSet
<1> QED BY <1>1, <1>2, <1>3, <1>4 DEF RHS

\* A matrix of its shape for every step makes the matrices of a characteristic.
LEMMA StepMatricesAre ==
    ASSUME NEW f, f = [s \in LinearSteps |-> f[s]],
           \A s \in LinearSteps : Shaped(f[s], RowCount(s), ColumnCount(s))
    PROVE  f \in StepMatrices
<1> DEFINE U == UNION {MatrixSet(RowCount(s), ColumnCount(s)) : s \in LinearSteps}
<1>1. \A s \in LinearSteps : f[s] \in U
  BY DEF Shaped
<1>2. StepMatrices = {g \in [LinearSteps -> U] :
            \A s \in LinearSteps : Shaped(g[s], RowCount(s), ColumnCount(s))}
  BY DEF StepMatrices
<1> HIDE DEF U
<1>3. f \in [LinearSteps -> U]
  BY <1>1
<1> QED BY <1>2, <1>3

\* What it is that the matrices of f say together with the conditions.
LEMMA FaithfulSays ==
    ASSUME NEW f, NEW c
    PROVE  Faithful(f, c) <=>
              \A s \in LinearSteps : \A t \in Assignment(StepList[s], c) :
                  SolvesRows(Ones(t), f[s]) <=> ValuesOf(StepList[s], t) \in StepList[s].relation
BY DEF Faithful, InMatrix, SolvesRows, Solves

\* Conditions that allow less allow fewer assignments.
LEMMA FaithfulBelow ==
    ASSUME NEW f, NEW d \in [Bit -> Condition], NEW c \in [Bit -> Condition], Below(c, d),
           Faithful(f, d)
    PROVE  Faithful(f, c)
<1>1. ASSUME NEW s \in LinearSteps, NEW t \in Assignment(StepList[s], c)
      PROVE  t \in Assignment(StepList[s], d)
  <2> DEFINE st == StepList[s]
  <2>1. /\ DOMAIN st.bits = 1..Len(st.bits) /\ \A k \in 1..Len(st.bits) : st.bits[k] \in Bit
        /\ \A k \in 1..Len(st.bits) : st.bits[k] \in Range(st.bits)
    BY StepFacts
  <2> DEFINE L == 1..Len(st.bits)
             U == UNION {c[b] : b \in Range(st.bits)}
             V == UNION {d[b] : b \in Range(st.bits)}
  <2>2. t \in [L -> U] /\ \A k \in DOMAIN t : t[k] \in c[st.bits[k]]
    BY <2>1 DEF Assignment
  <2>3. \A k \in L : t[k] \in d[st.bits[k]]
    BY <2>1, <2>2 DEF Below
  <2>4. \A k \in L : t[k] \in V
    BY <2>1, <2>3
  <2> HIDE DEF U, V
  <2>5. t \in [L -> V] /\ \A k \in DOMAIN t : t[k] \in d[st.bits[k]]
    BY <2>2, <2>3, <2>4
  <2> QED BY <2>1, <2>5 DEF Assignment, V
<1> QED BY <1>1, FaithfulSays

\* The equations of a condition know no more than its hull.
LEMMA HullIs ==
    ASSUME NEW bc \in Condition
    PROVE  /\ Hull(bc) \in Condition /\ bc \subseteq Hull(bc)
           /\ bc = {} <=> Hull(bc) = {}
           /\ \A d \in Condition : d \subseteq bc => Hull(d) \subseteq Hull(bc)
           /\ bc # Hull(bc) => \A pos, rhs : LinearConditions(bc, pos, rhs) = <<>>
<1>1. CASE \A v \in Pair : bc # Pair \ {v}
  <2>1. Hull(bc) = bc
    BY <1>1 DEF Hull
  <2>2. ASSUME NEW d \in Condition, d \subseteq bc PROVE Hull(d) \subseteq bc
    <3>1. CASE \A v \in Pair : d # Pair \ {v}
      BY <2>2, <3>1 DEF Hull
    <3>2. ASSUME NEW v \in Pair, d = Pair \ {v} PROVE bc = Pair
      <4>1. bc \subseteq Pair /\ Pair \ {v} \subseteq bc /\ bc # Pair \ {v}
        BY <1>1, <2>2, <3>2 DEF Condition
      <4> QED BY <4>1
    <3>3. Hull(d) \subseteq Pair
      BY DEF Hull, Condition
    <3> QED BY <3>1, <3>2, <3>3
  <2> QED BY <2>1, <2>2
<1>2. ASSUME NEW v \in Pair, bc = Pair \ {v}
      PROVE  /\ Hull(bc) = Pair /\ bc # {}
             /\ \A pos, rhs : LinearConditions(bc, pos, rhs) = <<>>
  <2>1. Hull(bc) = Pair
    BY <1>2 DEF Hull
  <2>2. /\ bc # {} /\ bc # {"0"} /\ bc # {"1"} /\ bc # {"n"} /\ bc # {"u"}
        /\ bc # NoDifference /\ bc # Difference /\ bc # {"0", "u"} /\ bc # {"0", "n"}
        /\ bc # {"u", "1"} /\ bc # {"n", "1"}
    BY <1>2 DEF Pair, NoDifference, Difference
  <2>3. \A pos, rhs : LinearConditions(bc, pos, rhs) = <<>>
    BY <2>2 DEF LinearConditions
  <2> QED BY <2>1, <2>2, <2>3
<1>3. \A d \in Condition : Hull(d) \subseteq Pair /\ Pair \in Condition
  BY DEF Hull, Condition
<1> QED BY <1>1, <1>2, <1>3 DEF Condition

\* The hulls of conditions are conditions, above them, and grow with them.
LEMMA HullsType ==
    ASSUME NEW c \in [Bit -> Condition]
    PROVE  /\ Hulls(c) \in [Bit -> Condition] /\ Below(c, Hulls(c))
           /\ \A b \in Bit : Hulls(c)[b] = Hull(c[b])
           /\ \A d \in [Bit -> Condition] : Below(d, c) => Below(Hulls(d), Hulls(c))
<1>1. \A d \in [Bit -> Condition] : \A b \in Bit : Hulls(d)[b] = Hull(d[b]) /\ d[b] \in Condition
  BY DEF Hulls
<1>2. Hulls(c) = [b \in Bit |-> Hull(c[b])]
  BY DEF Hulls
<1>3. \A b \in Bit : Hull(c[b]) \in Condition /\ c[b] \subseteq Hull(c[b])
  BY <1>1, HullIs
<1>4. ASSUME NEW d \in [Bit -> Condition], Below(d, c) PROVE Below(Hulls(d), Hulls(c))
  <2>1. ASSUME NEW b \in Bit PROVE Hull(d[b]) \subseteq Hull(c[b])
    <3>1. d[b] \subseteq c[b] /\ d[b] \in Condition /\ c[b] \in Condition
      BY <1>1, <1>4 DEF Below
    <3> QED BY <3>1, HullIs
  <2> QED BY <1>1, <2>1 DEF Below
<1> QED BY <1>1, <1>2, <1>3, <1>4 DEF Below

\* Matrices that fit the hulls fit the conditions.
LEMMA ExactBelow ==
    ASSUME NEW f, NEW d \in [Bit -> Condition], NEW c \in [Bit -> Condition], Below(c, d),
           Exact(f, d)
    PROVE  Exact(f, c) /\ Faithful(f, c)
<1>1. /\ Hulls(d) \in [Bit -> Condition] /\ Hulls(c) \in [Bit -> Condition]
      /\ Below(Hulls(c), Hulls(d)) /\ Below(c, Hulls(c))
  BY HullsType
<1>2. Exact(f, c)
  BY <1>1, FaithfulBelow DEF Exact
<1>3. Faithful(f, Hulls(c))
  BY <1>2 DEF Exact
<1>4. Faithful(f, c)
  BY <1>1, <1>3, FaithfulBelow
<1> QED BY <1>2, <1>4

\* Matrices that say the same of what the conditions allow.
LEMMA ExactLike ==
    ASSUME NEW f, NEW g, NEW c, Exact(f, c),
           \A s \in LinearSteps : \A O \in Allowed(s, c) :
               SolvesRows(O, g[s]) <=> SolvesRows(O, f[s])
    PROVE  Exact(g, c)
<1>1. ASSUME NEW s \in LinearSteps, NEW t \in Assignment(StepList[s], Hulls(c))
      PROVE  SolvesRows(Ones(t), g[s]) <=> SolvesRows(Ones(t), f[s])
  <2>1. Ones(t) \in Allowed(s, c)
    BY DEF Allowed
  <2> QED BY <2>1
<1> QED BY <1>1, FaithfulSays DEF Exact

\* Matrices with the same rows.
LEMMA ExactSame ==
    ASSUME NEW f, NEW g, NEW c, Exact(f, c), \A s \in LinearSteps : Same(g[s], f[s])
    PROVE  Exact(g, c)
<1>1. \A s \in LinearSteps : \A O \in Allowed(s, c) :
         SolvesRows(O, g[s]) <=> SolvesRows(O, f[s])
  BY SameSays
<1> QED BY <1>1, ExactLike

\* The matrices before any equation say what the functions of the steps say.
LEMMA NewMatricesHold ==
    /\ NewMatrices \in StepMatrices
    /\ \A c \in [Bit -> Condition] : Faithful(NewMatrices, c) /\ Exact(NewMatrices, c)
<1> DEFINE M(s) == InitialMatrix(StepList[s].inputs, StepList[s].outputs, StepList[s].depends)
<1>1. NewMatrices = [s \in LinearSteps |-> M(s)]
  BY DEF NewMatrices
<1>2. \A s \in LinearSteps : Shaped(M(s), RowCount(s), ColumnCount(s))
  BY InitialShaped
<1>3. ASSUME NEW c \in [Bit -> Condition], NEW s \in LinearSteps,
             NEW t \in Assignment(StepList[s], c)
      PROVE  SolvesRows(Ones(t), M(s)) <=> ValuesOf(StepList[s], t) \in StepList[s].relation
  <2>1. t \in [1..Len(StepList[s].bits) -> Pair]
    BY AssignmentIs
  <2> QED BY <2>1, InitialFaithful
<1> HIDE DEF M
<1>4. \A s \in LinearSteps : NewMatrices[s] = M(s)
  BY <1>1
<1>5. NewMatrices \in StepMatrices
  <2>1. NewMatrices = [s \in LinearSteps |-> NewMatrices[s]]
    BY <1>1, <1>4
  <2> QED BY <1>2, <1>4, <2>1, StepMatricesAre
<1>6. \A c \in [Bit -> Condition] : Faithful(NewMatrices, c)
  BY <1>3, <1>4, FaithfulSays
<1>7. \A c \in [Bit -> Condition] : Exact(NewMatrices, c)
  BY <1>6, HullsType DEF Exact
<1> QED BY <1>5, <1>6, <1>7

FixAll(f) == [s \in LinearSteps |-> [f[s] EXCEPT !.changes = <<>>]]

\* A log that starts afresh leads back to where it starts.
LEMMA FixAllIs ==
    ASSUME NEW f \in StepMatrices, NEW g, g = FixAll(f)
    PROVE  /\ g \in StepMatrices /\ AllUndoable(g)
           /\ \A s \in LinearSteps : Same(g[s], f[s])
           /\ \A c : Exact(f, c) => Exact(g, c) /\ Exact(UndoAll(g), c)
<1>1. ASSUME NEW s \in LinearSteps
      PROVE  /\ Shaped(g[s], RowCount(s), ColumnCount(s)) /\ Same(g[s], f[s])
             /\ Undoable(g[s], RowCount(s), ColumnCount(s)) /\ Same(Undone(g[s])[0], g[s])
  <2>1. g[s] = [f[s] EXCEPT !.changes = <<>>]
    BY DEF FixAll
  <2> QED BY <2>1, StepMatrixIs, FixedIs
<1>2. g \in StepMatrices
  <2>1. g = [s \in LinearSteps |-> g[s]]
    BY DEF FixAll
  <2> QED BY <1>1, <2>1, StepMatricesAre
<1>3. ASSUME NEW s \in LinearSteps
      PROVE  Same(UndoAll(g)[s], f[s])
  <2> DEFINE k == Undo(g[s])
  <2>1. Same(k, Undone(g[s])[0])
    BY <1>1, <1>2, StepMatrixIs, UndoIs
  <2>2. UndoAll(g)[s] = k
    BY DEF UndoAll
  <2> HIDE DEF k
  <2> QED BY <1>1, <2>1, <2>2, SameTransitive
<1>4. ASSUME NEW c, Exact(f, c) PROVE Exact(g, c) /\ Exact(UndoAll(g), c)
  BY <1>1, <1>3, <1>4, ExactSame
<1> QED BY <1>1, <1>2, <1>4 DEF AllUndoable

\* Taking the logs back.
LEMMA UndoAllIs ==
    ASSUME NEW f \in StepMatrices, AllUndoable(f)
    PROVE  /\ UndoAll(f) \in StepMatrices
           /\ \A s \in LinearSteps : Same(UndoAll(f)[s], Undone(f[s])[0])
<1>1. ASSUME NEW s \in LinearSteps
      PROVE  /\ Shaped(UndoAll(f)[s], RowCount(s), ColumnCount(s))
             /\ Same(UndoAll(f)[s], Undone(f[s])[0])
  <2>1. UndoAll(f)[s] = Undo(f[s])
    BY DEF UndoAll
  <2>2. Undoable(f[s], RowCount(s), ColumnCount(s))
    BY DEF AllUndoable
  <2> QED BY <2>1, <2>2, StepMatrixIs, UndoIs
<1>2. UndoAll(f) = [s \in LinearSteps |-> UndoAll(f)[s]]
  BY DEF UndoAll
<1> QED BY <1>1, <1>2, StepMatricesAre

\* The matrices of f go on to those of g, which say and lead back to the same.
Leads(f, g, c, log) ==
    /\ g \in StepMatrices
    /\ Exact(f, c) => Exact(g, c)
    /\ (log /\ AllUndoable(f)) =>
          AllUndoable(g) /\ \A s \in LinearSteps : Same(UndoAll(g)[s], UndoAll(f)[s])

\* One matrix goes on to one that follows it.
LEMMA OneFollows ==
    ASSUME NEW f \in StepMatrices, NEW e \in LinearSteps, NEW c, NEW log, NEW k,
           Follows(k, f[e], Allowed(e, c), log, RowCount(e), ColumnCount(e)),
           NEW g, g = [f EXCEPT ![e] = k]
    PROVE  Leads(f, g, c, log)
<1>1. /\ f = [s \in LinearSteps |-> f[s]]
      /\ \A s \in LinearSteps : g[s] = IF s = e THEN k ELSE f[s]
      /\ g = [s \in LinearSteps |-> g[s]]
  BY DEF StepMatrices
<1>2. /\ Shaped(k, RowCount(e), ColumnCount(e))
      /\ \A O \in Allowed(e, c) : SolvesRows(O, k) <=> SolvesRows(O, f[e])
      /\ (log /\ Undoable(f[e], RowCount(e), ColumnCount(e))) =>
                   Undoable(k, RowCount(e), ColumnCount(e)) /\ Same(Undone(k)[0], Undone(f[e])[0])
  BY DEF Follows
<1>3. g \in StepMatrices
  <2>1. \A s \in LinearSteps : Shaped(g[s], RowCount(s), ColumnCount(s))
    BY <1>1, <1>2, StepMatrixIs
  <2> QED BY <1>1, <2>1, StepMatricesAre
<1>4. ASSUME Exact(f, c) PROVE Exact(g, c)
  <2>1. \A s \in LinearSteps : \A O \in Allowed(s, c) :
           SolvesRows(O, g[s]) <=> SolvesRows(O, f[s])
    BY <1>1, <1>2
  <2> QED BY <1>4, <2>1, ExactLike
<1>5. ASSUME log, AllUndoable(f)
      PROVE  AllUndoable(g) /\ \A s \in LinearSteps : Same(UndoAll(g)[s], UndoAll(f)[s])
  <2>1. AllUndoable(g)
    BY <1>1, <1>2, <1>5 DEF AllUndoable
  <2>2. ASSUME NEW s \in LinearSteps PROVE Same(UndoAll(g)[s], UndoAll(f)[s])
    <3>1. Same(UndoAll(g)[s], Undone(g[s])[0]) /\ Same(UndoAll(f)[s], Undone(f[s])[0])
      BY <1>3, <1>5, <2>1, UndoAllIs
    <3>2. Same(Undone(g[s])[0], Undone(f[s])[0])
      <4>1. CASE s = e
        BY <1>1, <1>2, <1>5, <4>1 DEF AllUndoable
      <4>2. CASE s # e
        <5>1. g[s] = f[s]
          BY <1>1, <4>2
        <5> QED BY <5>1 DEF Same
      <4> QED BY <4>1, <4>2
    <3> QED BY <3>1, <3>2 DEF Same
  <2> QED BY <2>1, <2>2
<1> QED BY <1>3, <1>4, <1>5 DEF Leads

-----------------------------------------------------------------------------
(* Worklists and conditions *)

\* A worklist with an entry has a first one.
LEMMA FirstEntryIs ==
    ASSUME NEW S \in SUBSET Entries, S # {}
    PROVE  /\ FirstEntry(S) \in S
           /\ \A f \in S : LET e == FirstEntry(S)
                           IN  e[1] < f[1] \/ (e[1] = f[1] /\ e[2] <= f[2])
<1>1. \A e \in S : e[1] \in Nat /\ e[2] \in Nat
  <2>1. TAKE e \in S
  <2>2. PICK s \in DOMAIN StepList : e \in {s} \X Places(s)
    BY DEF Entries
  <2>3. DOMAIN StepList \in SUBSET Nat
    BY LinearAssumption
  <2>4. Places(s) \in SUBSET Nat
    <3>1. CASE s \in LinearSteps
      <4>1. Len(StepList[s].bits) \in Nat
        BY <3>1, StepFacts
      <4> QED BY <3>1, <4>1 DEF Places
    <3>2. CASE s \notin LinearSteps
      BY <3>2 DEF Places
    <3> QED BY <3>1, <3>2
  <2> QED BY <2>2, <2>3, <2>4
<1> DEFINE A == {e[1] : e \in S}
           a == Min(A)
<1>2. A \in SUBSET Nat /\ A # {}
  BY <1>1
<1>3. a \in A /\ \A x \in A : a <= x
  <2> HIDE DEF A
  <2> QED BY <1>2, MinIs
<1> HIDE DEF a
<1> DEFINE T == {e \in S : e[1] = a}
           B == {e[2] : e \in T}
           b == Min(B)
<1>4. B \in SUBSET Nat /\ B # {}
  BY <1>1, <1>3
<1>5. b \in B /\ \A y \in B : b <= y
  <2> HIDE DEF B
  <2> QED BY <1>4, MinIs
<1> HIDE DEF b
<1>6. PICK e \in S : e[1] = a /\ e[2] = b
  BY <1>5
<1>7. \A f \in S : e[1] < f[1] \/ (e[1] = f[1] /\ e[2] <= f[2])
  <2>1. TAKE f \in S
  <2>2. a <= f[1] /\ (f[1] = a => b <= f[2])
    BY <1>3, <1>5
  <2>3. a \in Nat /\ f[1] \in Nat
    BY <1>1, <1>6
  <2> QED BY <1>6, <2>2, <2>3
<1> QED BY <1>7 DEF FirstEntry

\* What is touched are entries.
LEMMA TouchedType ==
    ASSUME NEW old, NEW new
    PROVE  Touched(old, new) \in SUBSET Entries
BY DEF Touched, StepsToUpdate

\* A bitslice only takes values away.
LEMMA ComputedNarrows ==
    ASSUME NEW s \in DOMAIN StepList, NEW c \in [Bit -> Condition]
    PROVE  Computed(StepList[s], c) \in [Bit -> Condition] /\ Below(Computed(StepList[s], c), c)
<1> DEFINE d == Computed(StepList[s], c)
           st == StepList[s]
           A == {t \in st.relation : \A b \in st.bits : t[b] \in c[b]}
<1>1. d = [b \in Bit |-> IF b \in st.bits THEN {t[b] : t \in A} ELSE c[b]]
  BY DEF Computed
<1>2. ASSUME NEW b \in Bit PROVE d[b] \subseteq c[b] /\ d[b] \in Condition
  <2>1. \A t \in A : b \in st.bits => t[b] \in c[b]
    OBVIOUS
  <2> HIDE DEF d, A
  <2>2. d[b] \subseteq c[b]
    BY <1>1, <2>1
  <2> QED BY <2>2 DEF Condition
<1> HIDE DEF d, A
<1>3. d = [b \in Bit |-> d[b]]
  BY <1>1
<1> QED BY <1>2, <1>3 DEF Below, d

\* The rows that are looked at only take values away.
LEMMA ExtractedNarrows ==
    ASSUME NEW m, NEW st, NEW c \in [Bit -> Condition]
    PROVE  Extracted(m, st, c) \in [Bit -> Condition] /\ Below(Extracted(m, st, c), c)
<1> DEFINE d == Extracted(m, st, c)
<1>1. d = [b \in Bit |-> d[b]] /\ \A b \in Bit : d[b] \in SUBSET c[b]
  BY DEF Extracted
<1> HIDE DEF d
<1>2. \A b \in Bit : d[b] \in Condition
  BY <1>1 DEF Condition
<1> QED BY <1>1, <1>2 DEF Below, d

-----------------------------------------------------------------------------
(* The steps of an Update *)

\* Facts of the characteristic that is updated.
LEMMA WhoIs ==
    ASSUME PropInv
    PROVE  /\ who \in {"char", "tmp"} /\ who \in Owner /\ at[who] \in Cell
           /\ at["kept"] \in Cell /\ at[who] # at["kept"]
           /\ cond[who] \in [Bit -> Condition] /\ list[who] \in SUBSET Entries
           /\ heap[at[who]] \in StepMatrices /\ heap[at["kept"]] \in StepMatrices
           /\ Untouched \in {"char", "tmp"} /\ Untouched # who
<1>1. who \in {"char", "tmp"} /\ at["kept"] # at["char"] /\ at["kept"] # at["tmp"]
  BY DEF PropInv, Called
<1>2. who \in Owner /\ at \in [Owner -> Cell] /\ heap \in [Cell -> StepMatrices]
      /\ cond \in [Owner -> [Bit -> Condition]] /\ list \in [Owner -> SUBSET Entries]
      /\ "kept" \in Owner
  BY <1>1 DEF PropInv, Typed, Owner
<1>3. Untouched \in {"char", "tmp"} /\ Untouched # who
  BY <1>1 DEF Untouched
<1> HIDE DEF who
<1> QED BY <1>1, <1>2, <1>3

\* While one matrix goes on, and conditions only lose values, the invariant is kept.
LEMMA UpdateKeeps ==
    ASSUME PropInv, pc \notin {"ready", "lost"},
           pc' \in {"update", "equations", "gauss", "held", "refused"},
           at' = at, call' = call, guess' = guess, results' = results,
           NEW c \in [Bit -> Condition], Below(c, cond[who]), cond' = [cond EXCEPT ![who] = c],
           NEW l \in SUBSET Entries, list' = [list EXCEPT ![who] = l],
           NEW g, heap' = [heap EXCEPT ![at[who]] = g],
           Leads(heap[at[who]], g, cond[who], call.log),
           equations' \in Seq(SUBSET Nat), Len(equations') <= 2, EquationsHold'
    PROVE  PropInv'
<1>0. /\ g \in StepMatrices
      /\ Exact(heap[at[who]], cond[who]) => Exact(g, cond[who])
      /\ (call.log /\ AllUndoable(heap[at[who]])) =>
            /\ AllUndoable(g)
            /\ \A s \in LinearSteps : Same(UndoAll(g)[s], UndoAll(heap[at[who]])[s])
  BY DEF Leads
<1>1. /\ who \in {"char", "tmp"} /\ who \in Owner /\ at[who] \in Cell
      /\ at["kept"] \in Cell /\ at[who] # at["kept"]
      /\ cond[who] \in [Bit -> Condition]
      /\ Untouched \in {"char", "tmp"} /\ Untouched # who
  BY WhoIs
<1>2. /\ cond \in [Owner -> [Bit -> Condition]] /\ list \in [Owner -> SUBSET Entries]
      /\ at \in [Owner -> Cell] /\ heap \in [Cell -> StepMatrices]
  BY DEF PropInv, Typed
<1>3. who' = who /\ Untouched' = Untouched /\ (Trying' <=> Trying)
  BY DEF who, Untouched, Trying
<1>4. /\ cond'[who] = c /\ \A x \in Owner : x # who => cond'[x] = cond[x]
      /\ heap'[at[who]] = g /\ \A x \in Cell : x # at[who] => heap'[x] = heap[x]
      /\ "kept" \in Owner /\ "char" \in Owner /\ "tmp" \in Owner
  BY <1>1, <1>2 DEF Owner
<1>5. Typed'
  <2>1. /\ cond' \in [Owner -> [Bit -> Condition]] /\ list' \in [Owner -> SUBSET Entries]
        /\ heap' \in [Cell -> StepMatrices]
    BY <1>0, <1>2
  <2> QED BY <2>1 DEF PropInv, Typed
<1>6. Called'
  <2>1. pc' \in {"ready", "lost"} <=> pc \in {"ready", "lost"}
    OBVIOUS
  <2> QED BY <1>3, <2>1 DEF PropInv, Called
<1>7. Narrows'
  <2>1. call.name = "first" => who = "char"
    BY DEF PropInv, Called
  <2>2. call.name \in {"try one", "try two"} => who = "tmp"
    BY DEF PropInv, Called
  <2>3. /\ call.name = "first" => cond'["tmp"] = cond["tmp"]
        /\ call.name \in {"try one", "try two"} => cond'["char"] = cond["char"]
    BY <1>4, <2>1, <2>2
  <2> QED BY <2>3 DEF PropInv, Narrows
<1>8. MatricesHold'
  <2>1. Exact(heap[at["kept"]], cond["kept"]) /\ Exact(heap[at[who]], cond[who])
        /\ UndoFaithful
    BY DEF PropInv, MatricesHold
  <2>2. who # "kept"
    BY <1>1
  <2>3. Exact(heap'[at'["kept"]], cond'["kept"])
    BY <1>1, <1>4, <2>1, <2>2
  <2>4. Exact(g, c)
    BY <1>0, <1>1, <2>1, ExactBelow
  <2>5. Exact(heap'[at'[who']], cond'[who'])
    BY <1>3, <1>4, <2>4
  <2>6. UndoFaithful'
    <3>1. SUFFICES ASSUME Trying
                   PROVE  AllUndoable(g) /\ Exact(UndoAll(g), cond[Untouched])
      <4>1. heap'[at'[who']] = g /\ cond'[Untouched'] = cond[Untouched]
        BY <1>1, <1>3, <1>4
      <4> QED BY <1>3, <4>1 DEF UndoFaithful
    <3>2. call.log
      BY <3>1 DEF PropInv, Called
    <3>3. AllUndoable(heap[at[who]]) /\ Exact(UndoAll(heap[at[who]]), cond[Untouched])
      BY <2>1, <3>1 DEF UndoFaithful
    <3>4. /\ AllUndoable(g)
          /\ \A s \in LinearSteps : Same(UndoAll(g)[s], UndoAll(heap[at[who]])[s])
      BY <1>0, <3>2, <3>3
    <3> QED BY <3>3, <3>4, ExactSame
  <2> QED BY <2>3, <2>5, <2>6 DEF MatricesHold
<1> QED BY <1>5, <1>6, <1>7, <1>8 DEF PropInv

\* The first entry, when it is one of a linear step.
LEMMA EntryIs ==
    ASSUME PropInv, list[who] # {}
    PROVE  /\ Entry \in list[who] /\ Entry \in Entries /\ Entry[1] \in DOMAIN StepList
           /\ Entry[1] \in LinearSteps => Entry[2] \in 0..(Len(StepList[Entry[1]].bits) - 1)
<1>1. Entry \in list[who] /\ Entry \in Entries
  BY WhoIs, FirstEntryIs DEF Entry
<1> DEFINE e == Entry
<1>2. PICK s \in DOMAIN StepList : e \in {s} \X Places(s)
  BY <1>1 DEF Entries
<1>3. e[1] = s /\ e[2] \in Places(s)
  BY <1>2
<1>4. s \in LinearSteps => e[2] \in 0..(Len(StepList[s].bits) - 1)
  BY <1>3 DEF Places
<1> QED BY <1>1, <1>3, <1>4

\* A step that only changes one matrix, the worklist and the equations.
LEMMA MatrixStepKeeps ==
    ASSUME PropInv, pc \in {"equations", "gauss"},
           pc' \in {"update", "equations", "gauss", "refused"},
           cond' = cond, at' = at, call' = call, guess' = guess, results' = results,
           NEW l \in SUBSET Entries, list' = [list EXCEPT ![who] = l],
           NEW k, ChangeMatrix(k),
           Follows(k, Matrix, Allowed(Entry[1], cond[who]), call.log,
                   RowCount(Entry[1]), ColumnCount(Entry[1])),
           equations' \in Seq(SUBSET Nat), Len(equations') <= 2, EquationsHold'
    PROVE  PropInv'
<1> DEFINE e == Entry[1]
           f == heap[at[who]]
           g == [f EXCEPT ![e] = k]
           c == cond[who]
<1>1. e \in LinearSteps /\ f \in StepMatrices /\ c \in [Bit -> Condition]
      /\ who \in Owner /\ at[who] \in Cell /\ Matrix = f[e]
  BY WhoIs DEF PropInv, EquationsHold, Matrix
<1>2. heap' = [heap EXCEPT ![at[who]] = g]
  BY DEF ChangeMatrix
<1>3. cond' = [cond EXCEPT ![who] = c]
  BY <1>1 DEF PropInv, Typed
<1>4. Below(c, cond[who])
  BY DEF Below
<1>5. Follows(k, f[e], Allowed(e, c), call.log, RowCount(e), ColumnCount(e))
  BY <1>1
<1> HIDE DEF e, f
<1>6. Leads(f, g, c, call.log)
  <2> HIDE DEF c
  <2> QED BY <1>1, <1>5, OneFollows
<1> HIDE DEF g
<1>7. Leads(heap[at[who]], g, cond[who], call.log)
  BY <1>6 DEF f
<1> HIDE DEF c
<1>8. pc \notin {"ready", "lost"} /\ pc' \in {"update", "equations", "gauss", "held", "refused"}
  OBVIOUS
<1> QED BY <1>1, <1>2, <1>3, <1>4, <1>7, <1>8, UpdateKeeps

\* The worklist is empty.
LEMMA UpdateDoneKeeps == ASSUME PropInv, UpdateDone PROVE PropInv'
<1> DEFINE c == cond[who]
           l == list[who]
           g == heap[at[who]]
<1>1. c \in [Bit -> Condition] /\ l \in SUBSET Entries /\ g \in StepMatrices
      /\ who \in Owner /\ at[who] \in Cell
  BY WhoIs
<1>2. /\ cond' = [cond EXCEPT ![who] = c] /\ list' = [list EXCEPT ![who] = l]
      /\ heap' = [heap EXCEPT ![at[who]] = g]
  BY <1>1 DEF UpdateDone, PropInv, Typed
<1>3. Below(c, cond[who])
  BY DEF Below
<1>4. EquationsHold' /\ equations' \in Seq(SUBSET Nat) /\ Len(equations') <= 2
  BY DEF UpdateDone, PropInv, Typed, EquationsHold
<1>5. pc \notin {"ready", "lost"} /\ pc' \in {"update", "equations", "gauss", "held", "refused"}
      /\ at' = at /\ call' = call /\ guess' = guess /\ results' = results
  BY DEF UpdateDone
<1>6. Leads(heap[at[who]], g, cond[who], call.log)
  BY <1>1 DEF Leads, Same
<1> HIDE DEF c, l, g
<1> QED BY <1>1, <1>2, <1>3, <1>4, <1>5, <1>6, UpdateKeeps

\* A bitslice narrows conditions only; the matrices fit the fewer values, too.
LEMMA UpdateBitsliceKeeps == ASSUME PropInv, UpdateBitslice PROVE PropInv'
<1> DEFINE c == Computed(StepList[Entry[1]], cond[who])
           l == (list[who] \cup Touched(cond[who], c)) \ {Entry}
           g == heap[at[who]]
<1>1. cond[who] \in [Bit -> Condition] /\ list[who] \in SUBSET Entries /\ g \in StepMatrices
      /\ who \in Owner /\ at[who] \in Cell
      /\ cond \in [Owner -> [Bit -> Condition]] /\ heap \in [Cell -> StepMatrices]
  BY WhoIs DEF PropInv, Typed
<1>2. Entry[1] \in DOMAIN StepList
  BY EntryIs DEF UpdateBitslice
<1>3. c \in [Bit -> Condition] /\ Below(c, cond[who])
  BY <1>1, <1>2, ComputedNarrows
<1>4. cond' = [cond EXCEPT ![who] = c]
  BY DEF UpdateBitslice
<1>5. cond'[who] = c
  BY <1>1, <1>4
<1>6. list' = [list EXCEPT ![who] = l] /\ heap' = [heap EXCEPT ![at[who]] = g]
  BY <1>1, <1>5 DEF UpdateBitslice
<1>7. l \in SUBSET Entries
  BY <1>1, TouchedType
<1>8. EquationsHold' /\ equations' \in Seq(SUBSET Nat) /\ Len(equations') <= 2
  BY DEF UpdateBitslice, PropInv, Typed, EquationsHold
<1>9. pc \notin {"ready", "lost"} /\ pc' \in {"update", "equations", "gauss", "held", "refused"}
      /\ at' = at /\ call' = call /\ guess' = guess /\ results' = results
  BY DEF UpdateBitslice
<1>10. Leads(heap[at[who]], g, cond[who], call.log)
  BY <1>1 DEF Leads, Same
<1> HIDE DEF c, l, g
<1> QED BY <1>1, <1>3, <1>4, <1>6, <1>7, <1>8, <1>9, <1>10, UpdateKeeps

\* The equations that are to be added hold for the values of their condition.
LEMMA UpdateLinearKeeps == ASSUME PropInv, UpdateLinear PROVE PropInv'
<1> DEFINE e == Entry[1]
           p == Entry[2]
           st == StepList[e]
           N == Len(st.bits)
           b == st.bits[p + 1]
           bc == cond[who][b]
           q == LinearConditions(bc, p, 2 * N)
           c == cond[who]
           l == list[who]
           g == heap[at[who]]
<1>1. c \in [Bit -> Condition] /\ l \in SUBSET Entries /\ g \in StepMatrices
      /\ who \in Owner /\ at[who] \in Cell
  BY WhoIs
<1>2. e \in LinearSteps /\ p \in 0..(N - 1) /\ l # {}
  BY EntryIs DEF UpdateLinear
<1>3. N \in Nat /\ ColumnCount(e) = 2 * N /\ b \in Bit /\ p + 1 \in 1..N
  <2>1. N \in Nat /\ \A k \in 1..N : st.bits[k] \in Bit
    BY <1>2, StepFacts
  <2> HIDE DEF N, p, st
  <2>2. p + 1 \in 1..N
    BY <1>2, <2>1
  <2> QED BY <2>1, <2>2 DEF ColumnCount, N, st
<1>4. equations' = q
  <2>1. RHS(Matrix) = 2 * N
    <3>1. RHS(g[e]) = ColumnCount(e)
      BY <1>1, <1>2, StepMatrixIs
    <3> QED BY <1>3, <3>1 DEF Matrix
  <2>2. equations' = LinearConditions(bc, p, RHS(Matrix))
    BY DEF UpdateLinear
  <2> QED BY <2>1, <2>2
<1>5. bc \in Condition
  BY <1>1, <1>3
<1> HIDE DEF bc, N
<1>6. /\ q \in Seq(SUBSET (0..(2 * N))) /\ Len(q) <= 2
      /\ \A k \in 1..Len(q) :
            /\ OneBit(q[k], p, 2 * N)
            /\ \A t : (DOMAIN t = 1..N /\ t[p + 1] \in bc) => Solves(Ones(t), q[k], 2 * N)
  <2> HIDE DEF p
  <2> QED BY <1>2, <1>3, <1>5, LinearConditionsHold
<1> HIDE DEF q
<1>7. \A k \in 1..Len(q) : /\ q[k] \in (SUBSET (0..ColumnCount(e))) \ {{}}
                           /\ OneBit(q[k], p, ColumnCount(e))
                           /\ \A O \in Allowed(e, c) : Solves(O, q[k], ColumnCount(e))
  <2>1. TAKE k \in 1..Len(q)
  <2>2. q[k] \in SUBSET (0..(2 * N)) /\ q[k] # {}
    <3>1. q[k] # {}
      BY <1>6 DEF OneBit
    <3> QED BY <1>6, <3>1
  <2>3. ASSUME NEW O \in Allowed(e, c) PROVE Solves(O, q[k], 2 * N)
    <3>1. PICK t \in Assignment(StepList[e], Hulls(c)) : O = Ones(t)
      BY DEF Allowed
    <3>2. Hulls(c) \in [Bit -> Condition] /\ Hulls(c)[b] = Hull(bc)
      <4>1. bc = c[b]
        BY DEF bc
      <4> HIDE DEF b, c
      <4> QED BY <1>1, <1>3, <4>1, HullsType
    <3>3. /\ t \in [1..Len(StepList[e].bits) -> Pair]
          /\ \A j \in 1..Len(StepList[e].bits) : t[j] \in Hulls(c)[StepList[e].bits[j]]
      BY <1>2, <3>2, AssignmentIs
    <3>4. DOMAIN t = 1..N /\ t[p + 1] \in Hull(bc)
      BY <1>3, <3>2, <3>3 DEF N
    <3>5. bc = Hull(bc)
      <4>1. q # <<>>
        BY <1>6
      <4> QED BY <1>5, <4>1, HullIs DEF q
    <3> QED BY <1>6, <3>1, <3>4, <3>5
  <2> QED BY <1>3, <1>6, <2>2, <2>3
<1>8. EquationsHold'
  <2>1. list' = list /\ call' = call /\ pc' = "equations" /\ cond' = cond
    BY DEF UpdateLinear
  <2>2. who' = who /\ Entry' = Entry
    BY <2>1 DEF who, Entry
  <2>3. DOMAIN q = 1..Len(q)
    BY <1>6
  <2>4. \A k \in DOMAIN q : /\ q[k] \in (SUBSET (0..ColumnCount(e))) \ {{}}
                            /\ OneBit(q[k], p, ColumnCount(e))
                            /\ \A O \in Allowed(e, c) : Solves(O, q[k], ColumnCount(e))
    BY <1>7, <2>3
  <2> QED BY <1>2, <1>4, <2>1, <2>2, <2>4 DEF EquationsHold
<1>9. equations' \in Seq(SUBSET Nat) /\ Len(equations') <= 2
  <2>1. \A k \in 1..Len(q) : q[k] \in SUBSET Nat
    BY <1>6
  <2>2. q \in Seq(SUBSET Nat)
    <3>1. Len(q) \in Nat /\ q = [k \in 1..Len(q) |-> q[k]]
      BY <1>6
    <3> QED BY <2>1, <3>1
  <2> QED BY <1>4, <1>6, <2>2
<1>10. /\ cond' = [cond EXCEPT ![who] = c] /\ list' = [list EXCEPT ![who] = l]
       /\ heap' = [heap EXCEPT ![at[who]] = g]
  BY <1>1 DEF UpdateLinear, PropInv, Typed
<1>11. Below(c, cond[who])
  BY DEF Below
<1>12. pc \notin {"ready", "lost"} /\ pc' \in {"update", "equations", "gauss", "held", "refused"}
       /\ at' = at /\ call' = call /\ guess' = guess /\ results' = results
  BY DEF UpdateLinear
<1>13. Leads(heap[at[who]], g, cond[who], call.log)
  BY <1>1 DEF Leads, Same
<1> HIDE DEF c, l, g
<1> QED BY <1>1, <1>8, <1>9, <1>10, <1>11, <1>12, <1>13, UpdateKeeps

\* The matrix that equations are added to.
LEMMA MatrixIs ==
    ASSUME PropInv, pc \in {"equations", "gauss"}
    PROVE  /\ Entry[1] \in LinearSteps /\ Matrix = heap[at[who]][Entry[1]]
           /\ Shaped(Matrix, RowCount(Entry[1]), ColumnCount(Entry[1]))
           /\ RowCount(Entry[1]) \in Nat /\ ColumnCount(Entry[1]) \in Nat
           /\ list[who] \in SUBSET Entries /\ list = [list EXCEPT ![who] = list[who]]
<1>1. Entry[1] \in LinearSteps /\ heap[at[who]] \in StepMatrices /\ who \in Owner
      /\ list[who] \in SUBSET Entries
  BY WhoIs DEF PropInv, EquationsHold
<1>2. Matrix = heap[at[who]][Entry[1]]
  BY DEF Matrix
<1>3. list = [list EXCEPT ![who] = list[who]]
  BY <1>1 DEF PropInv, Typed
<1> QED BY <1>1, <1>2, <1>3, StepMatrixIs

\* A step of a matrix, which follows the one before it.
GoesOn(k) ==
    Follows(k, Matrix, Allowed(Entry[1], cond[who]), call.log,
            RowCount(Entry[1]), ColumnCount(Entry[1]))

\* The next equation holds for the values that the conditions allow.
LEMMA NextEquation ==
    ASSUME PropInv, AddNext
    PROVE  LET E == Head(equations)
               c == ColumnCount(Entry[1])
           IN  /\ E \in (SUBSET (0..c)) \ {{}} /\ OneBit(E, Entry[2], c)
               /\ \A O \in Allowed(Entry[1], cond[who]) : Solves(O, E, c)
               /\ GoesOn(AddEquation(Matrix, E, call.log))
<1> DEFINE e == Entry[1]
           m == Matrix
           n == RowCount(e)
           c == ColumnCount(e)
           T == Allowed(e, cond[who])
           E == Head(equations)
           log == call.log
           k == AddEquation(m, E, log)
<1>1. Shaped(m, n, c) /\ n \in Nat /\ c \in Nat
  BY MatrixIs DEF AddNext
<1>2. /\ equations # <<>> /\ equations \in Seq(SUBSET Nat)
      /\ \A j \in DOMAIN equations : /\ equations[j] \in (SUBSET (0..c)) \ {{}}
                                     /\ OneBit(equations[j], Entry[2], c)
                                     /\ \A O \in T : Solves(O, equations[j], c)
  BY DEF AddNext, PropInv, Typed, EquationsHold
<1>3. /\ E \in (SUBSET (0..c)) \ {{}} /\ OneBit(E, Entry[2], c)
      /\ \A O \in T : Solves(O, E, c)
  <2>1. 1 \in DOMAIN equations /\ E = equations[1]
    BY <1>2
  <2> HIDE DEF E, T, c
  <2> QED BY <1>2, <2>1
<1>4. Follows(k, m, T, log, n, c)
  <2> HIDE DEF e, m, n, c, T, E, log
  <2> QED BY <1>1, <1>3, AddEquationFollows
<1> QED BY <1>3, <1>4 DEF GoesOn

\* An equation is added.
LEMMA AddNextKeeps == ASSUME PropInv, AddNext PROVE PropInv'
<1> DEFINE k == AddEquation(Matrix, Head(equations), call.log)
           l == list[who]
<1>1. l \in SUBSET Entries /\ list = [list EXCEPT ![who] = l]
  BY MatrixIs DEF AddNext
<1>2. /\ equations # <<>> /\ equations \in Seq(SUBSET Nat) /\ Len(equations) <= 2
  BY DEF AddNext, PropInv, Typed
<1>4. Follows(k, Matrix, Allowed(Entry[1], cond[who]), call.log,
              RowCount(Entry[1]), ColumnCount(Entry[1]))
  BY NextEquation DEF GoesOn
<1>5. ChangeMatrix(k) /\ list' = [list EXCEPT ![who] = l] /\ equations' = Tail(equations)
      /\ pc \in {"equations", "gauss"} /\ pc' \in {"update", "equations", "gauss", "refused"}
      /\ pc' \in {"equations", "gauss"} /\ list' = list
      /\ cond' = cond /\ at' = at /\ call' = call /\ guess' = guess /\ results' = results
  BY <1>1 DEF AddNext
<1>6. /\ Tail(equations) \in Seq(SUBSET Nat) /\ Len(Tail(equations)) <= 2
      /\ \A j \in DOMAIN Tail(equations) :
            j + 1 \in DOMAIN equations /\ Tail(equations)[j] = equations[j + 1]
  BY <1>2
<1>7. EquationsHold'
  <2>1. who' = who /\ Entry' = Entry
    BY <1>5 DEF who, Entry
  <2>2. list[who] # {} /\ Entry[1] \in LinearSteps
    BY DEF AddNext, PropInv, EquationsHold
  <2>3. \A j \in DOMAIN Tail(equations) :
           /\ Tail(equations)[j] \in (SUBSET (0..ColumnCount(Entry[1]))) \ {{}}
           /\ OneBit(Tail(equations)[j], Entry[2], ColumnCount(Entry[1]))
           /\ \A O \in Allowed(Entry[1], cond[who]) :
                 Solves(O, Tail(equations)[j], ColumnCount(Entry[1]))
    BY <1>6 DEF AddNext, PropInv, EquationsHold
  <2> QED BY <1>5, <2>1, <2>2, <2>3 DEF EquationsHold
<1>8. equations' \in Seq(SUBSET Nat) /\ Len(equations') <= 2
  BY <1>5, <1>6
<1> HIDE DEF k, l
<1> QED BY <1>1, <1>4, <1>5, <1>7, <1>8, MatrixStepKeeps

\* Equations that wait go on waiting while the worklist and the conditions stay.
LEMMA EquationsWait ==
    ASSUME PropInv, pc \in {"equations", "gauss"}, pc' \in {"equations", "gauss"},
           UNCHANGED <<cond, list, call, equations>>
    PROVE  EquationsHold' /\ equations' \in Seq(SUBSET Nat) /\ Len(equations') <= 2
<1>1. who' = who /\ Entry' = Entry
  BY DEF who, Entry
<1> QED BY <1>1 DEF PropInv, Typed, EquationsHold

\* A turn of EpsilonGauss.
LEMMA ReduceKeeps == ASSUME PropInv, Reduce PROVE PropInv'
<1> DEFINE e == Entry[1]
           m == Matrix
           n == RowCount(e)
           c == ColumnCount(e)
           T == Allowed(e, cond[who])
           log == call.log
           k == EpsilonGauss(m, log)
           l == list[who]
<1>1. /\ Shaped(m, n, c) /\ n \in Nat /\ c \in Nat /\ m.updateRows # {}
      /\ l \in SUBSET Entries /\ list = [list EXCEPT ![who] = l]
  BY MatrixIs DEF Reduce
<1>2. Follows(k, m, T, log, n, c)
  <2> HIDE DEF e, m, n, c, T, log
  <2> QED BY <1>1, EpsilonGaussFollows
<1>3. ChangeMatrix(k) /\ list' = [list EXCEPT ![who] = l]
      /\ pc \in {"equations", "gauss"} /\ pc' \in {"update", "equations", "gauss", "refused"}
      /\ pc' \in {"equations", "gauss"} /\ list' = list /\ equations' = equations
      /\ cond' = cond /\ at' = at /\ call' = call /\ guess' = guess /\ results' = results
  BY <1>1 DEF Reduce
<1>4. EquationsHold' /\ equations' \in Seq(SUBSET Nat) /\ Len(equations') <= 2
  BY <1>3, EquationsWait
<1> HIDE DEF k, l
<1> QED BY <1>1, <1>2, <1>3, <1>4, MatrixStepKeeps

\* The rows are sorted.
LEMMA SortKeeps == ASSUME PropInv, Sort PROVE PropInv'
<1> DEFINE e == Entry[1]
           m == Matrix
           n == RowCount(e)
           c == ColumnCount(e)
           T == Allowed(e, cond[who])
           log == call.log
           k == SortByPivot(m, log)
           l == list[who]
<1>1. /\ Shaped(m, n, c) /\ n \in Nat /\ c \in Nat
      /\ l \in SUBSET Entries /\ list = [list EXCEPT ![who] = l]
  BY MatrixIs DEF Sort
<1>2. Follows(k, m, T, log, n, c)
  <2> HIDE DEF e, m, n, c, T, log
  <2> QED BY <1>1, SortFollows
<1>3. ChangeMatrix(k) /\ list' = [list EXCEPT ![who] = l]
      /\ pc \in {"equations", "gauss"} /\ pc' \in {"update", "equations", "gauss", "refused"}
      /\ pc' \in {"equations", "gauss"} /\ list' = list /\ equations' = equations
      /\ cond' = cond /\ at' = at /\ call' = call /\ guess' = guess /\ results' = results
  BY <1>1 DEF Sort
<1>4. EquationsHold' /\ equations' \in Seq(SUBSET Nat) /\ Len(equations') <= 2
  BY <1>3, EquationsWait
<1> HIDE DEF k, l
<1> QED BY <1>1, <1>2, <1>3, <1>4, MatrixStepKeeps

\* The turn that finds a contradiction.
LEMMA RefuseEquationKeeps == ASSUME PropInv, RefuseEquation PROVE PropInv'
<1> DEFINE e == Entry[1]
           m == Matrix
           n == RowCount(e)
           c == ColumnCount(e)
           T == Allowed(e, cond[who])
           log == call.log
           k == EpsilonGauss(m, log)
           l == list[who] \ {Entry}
<1>1. Shaped(m, n, c) /\ n \in Nat /\ c \in Nat /\ m.updateRows # {} /\ l \in SUBSET Entries
  BY MatrixIs DEF RefuseEquation
<1>2. Follows(k, m, T, log, n, c)
  <2> HIDE DEF e, m, n, c, T, log
  <2> QED BY <1>1, EpsilonGaussFollows
<1>3. ChangeMatrix(k) /\ list' = [list EXCEPT ![who] = l] /\ equations' = <<>>
      /\ pc \in {"equations", "gauss"} /\ pc' \in {"update", "equations", "gauss", "refused"}
      /\ pc' = "refused"
      /\ cond' = cond /\ at' = at /\ call' = call /\ guess' = guess /\ results' = results
  BY DEF RefuseEquation
<1>4. EquationsHold' /\ equations' \in Seq(SUBSET Nat) /\ Len(equations') <= 2
  BY <1>3 DEF EquationsHold
<1> HIDE DEF k, l
<1> QED BY <1>1, <1>2, <1>3, <1>4, MatrixStepKeeps

\* The entry is done; what the rows say of single bits narrows conditions only.
LEMMA LinearDoneKeeps == ASSUME PropInv, LinearDone PROVE PropInv'
<1> DEFINE e == Entry[1]
           m == Matrix
           f == heap[at[who]]
           rest == list[who] \ {Entry}
           more == rest # {} /\ FirstEntry(rest)[1] = Entry[1]
           c == IF more THEN cond[who] ELSE Extracted(Matrix, StepList[Entry[1]], cond[who])
           ok == /\ \A b \in Bit : c[b] # Contradiction
                 /\ more \/ \A i \in Matrix.extract : ~ IsContradiction(Matrix, Matrix.rowinv[i])
           k == IF more \/ ~ ok THEN Matrix ELSE [Matrix EXCEPT !.extract = {}]
           l == rest \cup Touched(cond[who], c)
           g == [f EXCEPT ![e] = k]
<1>1. /\ e \in LinearSteps /\ f \in StepMatrices /\ m = f[e]
      /\ Shaped(m, RowCount(e), ColumnCount(e))
      /\ RowCount(e) \in Nat /\ ColumnCount(e) \in Nat
      /\ cond[who] \in [Bit -> Condition] /\ list[who] \in SUBSET Entries
  BY MatrixIs, WhoIs DEF LinearDone
<1>2. /\ cond' = [cond EXCEPT ![who] = c] /\ list' = [list EXCEPT ![who] = l] /\ ChangeMatrix(k)
      /\ pc \notin {"ready", "lost"} /\ pc' \in {"update", "refused"}
      /\ pc' \in {"update", "equations", "gauss", "held", "refused"}
      /\ equations' = <<>>
      /\ at' = at /\ call' = call /\ guess' = guess /\ results' = results
  BY DEF LinearDone
<1>3. c \in [Bit -> Condition] /\ Below(c, cond[who])
  <2>1. Below(cond[who], cond[who])
    BY DEF Below
  <2> QED BY <1>1, <2>1, ExtractedNarrows
<1>4. l \in SUBSET Entries
  BY <1>1, TouchedType
<1>5. Follows(k, m, Allowed(e, cond[who]), call.log, RowCount(e), ColumnCount(e))
  <2>1. m \in MatrixSet(RowCount(e), ColumnCount(e))
    BY <1>1 DEF Shaped
  <2>2. k = m \/ k = [m EXCEPT !.extract = {}]
    OBVIOUS
  <2> HIDE DEF k, m
  <2>3. k \in MatrixSet(RowCount(e), ColumnCount(e)) /\ Same(k, m) /\ k.changes = m.changes
    BY <2>1, <2>2 DEF MatrixSet, Same
  <2> QED BY <1>1, <2>3, MarkedFollows
<1>6. heap' = [heap EXCEPT ![at[who]] = g]
  BY <1>2 DEF ChangeMatrix
<1>7. Leads(f, g, cond[who], call.log)
  <2> HIDE DEF e, f, k, m
  <2> QED BY <1>1, <1>5, OneFollows
<1>8. EquationsHold' /\ equations' \in Seq(SUBSET Nat) /\ Len(equations') <= 2
  BY <1>2 DEF EquationsHold
<1> HIDE DEF c, l, g
<1> QED BY <1>1, <1>2, <1>3, <1>4, <1>6, <1>7, <1>8, UpdateKeeps

-----------------------------------------------------------------------------
(* Calls and returns *)

\* Updates that try a guess on one of two characteristics with the same matrices.
Tries == {"first", "evaluate", "try one", "try two"}

Other(x) == IF x = "char" THEN "tmp" ELSE "char"

\* What the characteristics are to be when an Update is called for x.
Callable(name, x, log, conds, lists) ==
    /\ name \in Names \ {"none"} /\ log \in BOOLEAN
    /\ x = IF name \in {"second", "try one", "try two"} THEN "tmp" ELSE "char"
    /\ conds \in [Owner -> [Bit -> Condition]] /\ lists \in [Owner -> SUBSET Entries]
    /\ at' \in [Owner -> Cell] /\ at'["kept"] # at'["char"] /\ at'["kept"] # at'["tmp"]
    /\ heap' \in [Cell -> StepMatrices]
    /\ guess' \in [bit : Bit \cup {"none"}, choices : Condition \X Condition]
    /\ results' \in BOOLEAN
    /\ Exact(heap'[at'["kept"]], conds["kept"]) /\ Exact(heap'[at'[x]], conds[x])
    /\ name \in Tries =>
          /\ at'["char"] = at'["tmp"] /\ log /\ AllUndoable(heap'[at'[x]])
          /\ Exact(UndoAll(heap'[at'[x]]), conds[Other(x)])
    /\ name = "first" =>
          guess'.bit \in Bit /\ guess'.choices[2] \subseteq conds["tmp"][guess'.bit]
    /\ name \in {"try one", "try two"} =>
          guess'.bit \in Bit /\ \A i \in {1, 2} : guess'.choices[i] \subseteq conds["char"][guess'.bit]

\* A condition is narrowed, and Update is called.
LEMMA CallKeeps ==
    ASSUME PropInv, pc \notin {"equations", "gauss"}, equations' = equations,
           NEW name, NEW x, NEW log, NEW conds, NEW lists, NEW b \in Bit, NEW bc \in Condition,
           Callable(name, x, log, conds, lists), bc \subseteq conds[x][b],
           SetAndUpdate(name, x, log, conds, lists, b, bc)
    PROVE  PropInv'
<1>1. /\ cond' = [conds EXCEPT ![x][b] = bc]
      /\ list' = [lists EXCEPT ![x] = @ \cup Touched(conds[x], cond'[x])]
      /\ call' = [name |-> name, who |-> x, log |-> log, cond |-> cond'[x]]
      /\ pc' = "update"
  BY DEF SetAndUpdate
<1>2. x \in Owner /\ x \in {"char", "tmp"} /\ "kept" \in Owner /\ "char" \in Owner /\ "tmp" \in Owner
      /\ Other(x) \in {"char", "tmp"} /\ Other(x) # x
  BY DEF Callable, Owner, Other
<1>3. conds \in [Owner -> [Bit -> Condition]] /\ lists \in [Owner -> SUBSET Entries]
  BY DEF Callable
<1>4. /\ cond' \in [Owner -> [Bit -> Condition]] /\ cond'[x] \in [Bit -> Condition]
      /\ \A y \in Owner : y # x => cond'[y] = conds[y]
      /\ Below(cond'[x], conds[x])
  <2> DEFINE d == [conds[x] EXCEPT ![b] = bc]
  <2>1. d \in [Bit -> Condition] /\ Below(d, conds[x])
    BY <1>2, <1>3 DEF Below
  <2>2. cond' = [conds EXCEPT ![x] = d]
    BY <1>1
  <2> HIDE DEF d
  <2> QED BY <1>2, <1>3, <2>1, <2>2
<1>5. list' \in [Owner -> SUBSET Entries]
  <2> DEFINE l == lists[x] \cup Touched(conds[x], cond'[x])
  <2>1. l \in SUBSET Entries
    BY <1>2, <1>3, TouchedType
  <2>2. list' = [lists EXCEPT ![x] = l]
    BY <1>1
  <2> HIDE DEF l
  <2> QED BY <1>3, <2>1, <2>2
<1>6. equations = <<>> /\ equations \in Seq(SUBSET Nat) /\ Len(equations) <= 2
  BY DEF PropInv, Typed, EquationsHold
<1>7. who' = x /\ call'.name = name /\ call'.log = log
  BY <1>1 DEF who
<1>8. Typed'
  <2>1. call' \in [name : Names, who : Owner, log : BOOLEAN, cond : [Bit -> Condition]]
    BY <1>1, <1>2, <1>4 DEF Callable
  <2>2. pc' \in {"update", "equations", "gauss", "held", "refused", "ready", "lost"}
    BY <1>1
  <2> QED BY <1>4, <1>5, <1>6, <2>1, <2>2 DEF Typed, Callable
<1>9. Trying' <=> name \in Tries
  BY <1>1, <1>7 DEF Trying, Tries
<1>10. Called'
  <2>1. pc' \notin {"ready", "lost"} /\ name # "none"
    BY <1>1 DEF Callable
  <2> QED BY <1>7, <1>9, <2>1 DEF Called, Callable
<1>11. Narrows'
  <2>1. name = "first" => cond'["tmp"] = conds["tmp"]
    BY <1>2, <1>4 DEF Callable
  <2>2. name \in {"try one", "try two"} => cond'["char"] = conds["char"]
    BY <1>2, <1>4 DEF Callable
  <2> QED BY <1>7, <2>1, <2>2 DEF Narrows, Callable
<1>12. EquationsHold'
  BY <1>1, <1>6 DEF EquationsHold
<1>13. MatricesHold'
  <2>1. cond'["kept"] = conds["kept"]
    BY <1>2, <1>4
  <2>2. conds[x] \in [Bit -> Condition]
    BY <1>2, <1>3
  <2>3. Exact(heap'[at'[x]], conds[x])
    BY DEF Callable
  <2>4. Exact(heap'[at'[x]], cond'[x])
    BY <1>4, <2>2, <2>3, ExactBelow
  <2>5. UndoFaithful'
    <3>1. Untouched' = Other(x)
      BY <1>7 DEF Untouched, Other
    <3>2. cond'[Other(x)] = conds[Other(x)]
      BY <1>2, <1>4
    <3> QED BY <1>7, <1>9, <3>1, <3>2 DEF UndoFaithful, Callable
  <2> QED BY <1>7, <2>1, <2>4, <2>5 DEF MatricesHold, Callable
<1> QED BY <1>8, <1>10, <1>11, <1>12, <1>13 DEF PropInv

\* A caller returns.
LEMMA ReturnKeeps ==
    ASSUME PropInv, pc \notin {"equations", "gauss"}, equations' = equations,
           NEW place \in {"ready", "lost"}, Return(place),
           cond' \in [Owner -> [Bit -> Condition]], list' \in [Owner -> SUBSET Entries],
           at' \in [Owner -> Cell], at'["kept"] # at'["char"], at'["kept"] # at'["tmp"],
           heap' \in [Cell -> StepMatrices], Exact(heap'[at'["kept"]], cond'["kept"]),
           place = "ready" => Exact(heap'[at'["char"]], cond'["char"])
    PROVE  PropInv'
<1>1. /\ pc' = place /\ results' = FALSE
      /\ call' = [name |-> "none", who |-> "char", log |-> FALSE, cond |-> Start]
      /\ guess' = [bit |-> "none", choices |-> <<{}, {}>>]
  BY DEF Return, NoCall, NoGuess
<1>2. equations = <<>> /\ equations \in Seq(SUBSET Nat) /\ Len(equations) <= 2
  BY DEF PropInv, Typed, EquationsHold
<1>3. Typed'
  <2>1. call' \in [name : Names, who : Owner, log : BOOLEAN, cond : [Bit -> Condition]]
    BY <1>1, StartAssumption DEF Names, Owner
  <2>2. guess' \in [bit : Bit \cup {"none"}, choices : Condition \X Condition]
    BY <1>1 DEF Condition
  <2>3. pc' \in {"update", "equations", "gauss", "held", "refused", "ready", "lost"}
    BY <1>1
  <2> QED BY <1>1, <1>2, <2>1, <2>2, <2>3 DEF Typed
<1>4. who' = "char" /\ call'.name = "none" /\ ~ Trying'
  BY <1>1 DEF who, Trying
<1>5. Called' /\ Narrows' /\ EquationsHold'
  BY <1>1, <1>2, <1>4 DEF Called, Narrows, EquationsHold
<1>6. MatricesHold'
  BY <1>1, <1>4 DEF MatricesHold, UndoFaithful
<1> QED BY <1>3, <1>5, <1>6 DEF PropInv

\* What there is between two Updates.
LEMMA BetweenIs ==
    ASSUME PropInv
    PROVE  /\ cond \in [Owner -> [Bit -> Condition]] /\ list \in [Owner -> SUBSET Entries]
           /\ at \in [Owner -> Cell] /\ heap \in [Cell -> StepMatrices]
           /\ at["kept"] # at["char"] /\ at["kept"] # at["tmp"]
           /\ "char" \in Owner /\ "tmp" \in Owner /\ "kept" \in Owner
           /\ at["char"] \in Cell /\ at["tmp"] \in Cell /\ at["kept"] \in Cell
           /\ heap[at["char"]] \in StepMatrices /\ heap[at["tmp"]] \in StepMatrices
           /\ heap[at["kept"]] \in StepMatrices
           /\ cond["char"] \in [Bit -> Condition] /\ cond["tmp"] \in [Bit -> Condition]
           /\ cond["kept"] \in [Bit -> Condition]
           /\ Exact(heap[at["kept"]], cond["kept"])
           /\ pc # "lost" => Exact(heap[at[who]], cond[who])
           /\ who = IF call.name \in {"second", "try one", "try two"} THEN "tmp" ELSE "char"
           /\ pc \in {"ready", "lost"} <=> call.name = "none"
<1>1. "char" \in Owner /\ "tmp" \in Owner /\ "kept" \in Owner
  BY DEF Owner
<1> QED BY <1>1 DEF PropInv, Typed, Called, MatricesHold

-----------------------------------------------------------------------------
(* The callers *)

\* Freed only drops the matrices that neither char nor kept has.
LEMMA FreedIs ==
    ASSUME PropInv, NEW f \in StepMatrices, NEW h, h = [heap EXCEPT ![at["char"]] = f]
    PROVE  /\ Freed(h) \in [Cell -> StepMatrices]
           /\ Freed(h)[at["char"]] = f /\ Freed(h)[at["kept"]] = heap[at["kept"]]
<1>1. h \in [Cell -> StepMatrices] /\ h[at["char"]] = f /\ h[at["kept"]] = heap[at["kept"]]
  BY BetweenIs
<1>2. NewMatrices \in StepMatrices
  BY NewMatricesHold
<1> QED BY <1>1, <1>2, BetweenIs DEF Freed

\* A guess is tried on char, or on tmp, after they came to share the matrices of char.
LEMMA SharedTry ==
    ASSUME PropInv, pc = "ready", equations' = equations, results' = results,
           NEW b \in Bit, NEW name \in Tries, NEW x, x = IF name \in {"try one", "try two"} THEN "tmp" ELSE "char",
           NEW bc \in Condition, bc \subseteq cond["char"][b],
           NEW choices \in Condition \X Condition, guess' = [bit |-> b, choices |-> choices],
           \A i \in {1, 2} : choices[i] \subseteq cond["char"][b],
           heap' = Freed([heap EXCEPT ![at["char"]] = FixAll(heap[at["char"]])]),
           TryOn(name, x, b, bc)
    PROVE  PropInv'
<1> DEFINE f == heap[at["char"]]
           g == FixAll(f)
           conds == [cond EXCEPT !["tmp"] = cond["char"]]
           lists == [list EXCEPT !["tmp"] = list["char"]]
<1>1. /\ at' = [at EXCEPT !["tmp"] = at["char"]]
      /\ SetAndUpdate(name, x, TRUE, conds, lists, b, bc)
  BY DEF TryOn, Shared
<1>2. /\ cond \in [Owner -> [Bit -> Condition]] /\ list \in [Owner -> SUBSET Entries]
      /\ at \in [Owner -> Cell] /\ at["kept"] # at["char"]
      /\ "char" \in Owner /\ "tmp" \in Owner /\ "kept" \in Owner
      /\ f \in StepMatrices /\ cond["char"] \in [Bit -> Condition]
      /\ Exact(heap[at["kept"]], cond["kept"])
  BY BetweenIs
<1>3. Exact(f, cond["char"])
  <2>1. who = "char"
    BY BetweenIs
  <2> QED BY <2>1, BetweenIs
<1>4. g \in StepMatrices /\ AllUndoable(g) /\ Exact(g, cond["char"])
      /\ Exact(UndoAll(g), cond["char"])
  <2> HIDE DEF f
  <2> QED BY <1>2, <1>3, FixAllIs
<1> HIDE DEF f, g
<1>5. /\ heap' \in [Cell -> StepMatrices] /\ heap'[at["char"]] = g
      /\ heap'[at["kept"]] = heap[at["kept"]]
  BY <1>4, FreedIs DEF f, g
<1>6. at' \in [Owner -> Cell] /\ at'["kept"] = at["kept"] /\ at'["char"] = at["char"]
      /\ at'["tmp"] = at["char"]
  BY <1>1, <1>2
<1>7. /\ conds \in [Owner -> [Bit -> Condition]] /\ lists \in [Owner -> SUBSET Entries]
      /\ conds["kept"] = cond["kept"] /\ conds["char"] = cond["char"]
      /\ conds["tmp"] = cond["char"]
  BY <1>2
<1> HIDE DEF conds, lists
<1>8. x \in {"char", "tmp"} /\ Other(x) \in {"char", "tmp"}
      /\ name \in Names \ {"none"} /\ name # "second"
  BY DEF Other, Tries, Names
<1>9. at'[x] = at["char"] /\ conds[x] = cond["char"] /\ conds[Other(x)] = cond["char"]
  BY <1>6, <1>7, <1>8
<1>10. x = IF name \in {"second", "try one", "try two"} THEN "tmp" ELSE "char"
  BY <1>8
<1>11. guess' \in [bit : Bit \cup {"none"}, choices : Condition \X Condition]
       /\ guess'.bit = b /\ guess'.choices = choices /\ results' \in BOOLEAN
  BY DEF PropInv, Typed
<1>12. Callable(name, x, TRUE, conds, lists)
  BY <1>2, <1>4, <1>5, <1>6, <1>7, <1>8, <1>9, <1>10, <1>11 DEF Callable
<1>13. bc \subseteq conds[x][b]
  BY <1>9
<1> QED BY <1>1, <1>12, <1>13, CallKeeps

\* GuessBit and EvaluatePos try a choice on char; tmp keeps the conditions without it.
LEMMA GuessBitKeeps ==
    ASSUME PropInv, NEW name \in {"first", "evaluate"}, NEW b \in Bit, NEW i \in {1, 2},
           GuessBit(name, b, i)
    PROVE  PropInv'
<1> DEFINE bc == cond["char"][b]
           all == CHOICES(bc)
           choices == <<all[i], all[3 - i]>>
<1>1. bc \in Condition
  BY BetweenIs
<1>2. \A j \in {1, 2} : all[j] \subseteq bc /\ all[j] \in Condition
  <2> HIDE DEF bc
  <2> QED BY <1>1, ChoicesNarrow
<1>3. 3 - i \in {1, 2}
  OBVIOUS
<1>4. /\ pc = "ready" /\ equations' = equations /\ results' = results
      /\ guess' = [bit |-> b, choices |-> choices]
      /\ heap' = Freed([heap EXCEPT ![at["char"]] = FixAll(heap[at["char"]])])
      /\ TryOn(name, "char", b, all[i])
  BY DEF GuessBit, EachMatrix, FixChanges, FixAll
<1> HIDE DEF all
<1>5. choices \in Condition \X Condition /\ \A j \in {1, 2} : choices[j] \subseteq bc
  BY <1>2, <1>3
<1> HIDE DEF choices
<1>6. name \in Tries /\ name \notin {"try one", "try two"} /\ all[i] \in Condition /\ all[i] \subseteq bc
  BY <1>2 DEF Tries
<1> QED BY <1>4, <1>5, <1>6, SharedTry

\* Complete tries a choice on tmp; char keeps the conditions without it.
LEMMA CompleteBitKeeps ==
    ASSUME PropInv, NEW b \in Bit, CompleteBit(b)
    PROVE  PropInv'
<1> DEFINE bc == cond["char"][b]
           all == CHOICES(bc)
<1>1. bc \in Condition
  BY BetweenIs
<1>2. \A j \in {1, 2} : all[j] \subseteq bc /\ all[j] \in Condition
  <2> HIDE DEF bc
  <2> QED BY <1>1, ChoicesNarrow
<1>3. /\ pc = "ready" /\ equations' = equations /\ results' = results
      /\ guess' = [bit |-> b, choices |-> all]
      /\ heap' = Freed([heap EXCEPT ![at["char"]] = FixAll(heap[at["char"]])])
      /\ TryOn("try one", "tmp", b, all[1])
  BY DEF CompleteBit, EachMatrix, FixChanges, FixAll
<1>4. all = <<all[1], all[2]>>
  BY DEF CHOICES
<1> HIDE DEF all
<1>5. all \in Condition \X Condition
  BY <1>2, <1>4
<1>6. "try one" \in Tries /\ all[1] \in Condition /\ all[1] \subseteq bc
  BY <1>2 DEF Tries
<1> QED BY <1>2, <1>3, <1>5, <1>6, SharedTry

\* What Undo makes of the shared matrices of a guess.
LEMMA UndoneIsFaithful ==
    ASSUME PropInv, pc \in {"held", "refused"}, call.name \in Tries
    PROVE  /\ Trying /\ at["char"] = at["tmp"]
           /\ UndoAll(heap[at["char"]]) \in StepMatrices
           /\ Exact(UndoAll(heap[at["char"]]), cond[Untouched])
<1>1. Trying
  BY DEF Trying, Tries
<1>2. at["char"] = at["tmp"] /\ who \in {"char", "tmp"}
  BY <1>1 DEF PropInv, Called
<1>3. at[who] = at["char"]
  BY <1>2
<1>4. AllUndoable(heap[at["char"]]) /\ Exact(UndoAll(heap[at["char"]]), cond[Untouched])
  BY <1>1, <1>3 DEF PropInv, MatricesHold, UndoFaithful
<1>5. UndoAll(heap[at["char"]]) \in StepMatrices
  BY <1>4, BetweenIs, UndoAllIs
<1> QED BY <1>1, <1>2, <1>4, <1>5

\* The first choice held, or its log is taken back and tmp gets the other one.
LEMMA FirstTriedKeeps == ASSUME PropInv, FirstTried PROVE PropInv'
<1>1. pc \in {"held", "refused"} /\ call.name = "first" /\ at' = at /\ equations' = equations
  BY DEF FirstTried, Returned
<1>2. who = "char" /\ pc \notin {"equations", "gauss"}
  BY <1>1, BetweenIs
<1>3. CASE pc = "held" /\ Ready /\ UNCHANGED <<cond, list, heap>>
  <2>1. Return("ready") /\ cond' = cond /\ list' = list /\ heap' = heap
    BY <1>3 DEF Ready
  <2>2. Exact(heap[at["char"]], cond["char"])
    BY <1>1, <1>2, BetweenIs
  <2>3. /\ cond' \in [Owner -> [Bit -> Condition]] /\ list' \in [Owner -> SUBSET Entries]
        /\ at' \in [Owner -> Cell] /\ at'["kept"] # at'["char"] /\ at'["kept"] # at'["tmp"]
        /\ heap' \in [Cell -> StepMatrices] /\ Exact(heap'[at'["kept"]], cond'["kept"])
        /\ Exact(heap'[at'["char"]], cond'["char"])
    BY <1>1, <2>1, <2>2, BetweenIs
  <2> QED BY <1>1, <1>2, <2>1, <2>3, ReturnKeeps
<1>4. CASE /\ pc = "refused"
           /\ heap' = [heap EXCEPT ![at["char"]] = UndoAll(heap[at["char"]])]
           /\ SetAndUpdate("second", "tmp", TRUE, cond, list, guess.bit, guess.choices[2])
           /\ UNCHANGED <<guess, results>>
  <2> DEFINE g == UndoAll(heap[at["char"]])
             b == guess.bit
             bc == guess.choices[2]
  <2>1. at["char"] = at["tmp"] /\ g \in StepMatrices /\ Exact(g, cond["tmp"])
    BY <1>1, <1>2, UndoneIsFaithful DEF Tries, Untouched
  <2>2. b \in Bit /\ bc \in Condition /\ bc \subseteq cond["tmp"][b]
    BY <1>1 DEF PropInv, Typed, Narrows
  <2> HIDE DEF g, b, bc
  <2>3. heap' = [heap EXCEPT ![at["char"]] = g]
    BY <1>4 DEF g
  <2>4. heap' \in [Cell -> StepMatrices] /\ heap'[at["tmp"]] = g
        /\ heap'[at["kept"]] = heap[at["kept"]]
    BY <2>1, <2>3, BetweenIs
  <2>5. /\ "second" \in Names \ {"none"} /\ "second" \notin Tries
        /\ "second" # "first" /\ "second" \notin {"try one", "try two"}
    BY DEF Names, Tries
  <2>6. guess' \in [bit : Bit \cup {"none"}, choices : Condition \X Condition]
        /\ results' \in BOOLEAN
    BY <1>4 DEF PropInv, Typed
  <2>7. Callable("second", "tmp", TRUE, cond, list)
    BY <1>1, <2>1, <2>4, <2>5, <2>6, BetweenIs DEF Callable
  <2>8. SetAndUpdate("second", "tmp", TRUE, cond, list, b, bc)
    BY <1>4 DEF b, bc
  <2> QED BY <1>1, <1>2, <2>2, <2>7, <2>8, CallKeeps
<1> QED BY <1>3, <1>4 DEF FirstTried, EachMatrix, UndoAll

\* A characteristic that takes over the conditions and the matrices of another one.
LEMMA ShallowCopyKeeps ==
    ASSUME PropInv, pc \notin {"equations", "gauss"}, equations' = equations, Return("ready"),
           NEW f \in StepMatrices, Exact(f, cond["tmp"]),
           cond' = Shared(cond, "char", "tmp"), list' = Shared(list, "char", "tmp"),
           at' = Shared(at, "char", "tmp"), heap' = [heap EXCEPT ![at["tmp"]] = FixAll(f)]
    PROVE  PropInv'
<1> DEFINE g == FixAll(f)
<1>1. g \in StepMatrices /\ Exact(g, cond["tmp"])
  BY FixAllIs
<1> HIDE DEF g
<1>2. heap' = [heap EXCEPT ![at["tmp"]] = g]
  BY DEF g
<1>3. /\ cond' \in [Owner -> [Bit -> Condition]] /\ list' \in [Owner -> SUBSET Entries]
      /\ at' \in [Owner -> Cell] /\ cond'["kept"] = cond["kept"] /\ cond'["char"] = cond["tmp"]
      /\ at'["kept"] = at["kept"] /\ at'["char"] = at["tmp"] /\ at'["tmp"] = at["tmp"]
  BY BetweenIs DEF Shared
<1>4. heap' \in [Cell -> StepMatrices] /\ heap'[at["tmp"]] = g
      /\ heap'[at["kept"]] = heap[at["kept"]]
  BY <1>1, <1>2, BetweenIs
<1>5. at'["kept"] # at'["char"] /\ at'["kept"] # at'["tmp"]
      /\ Exact(heap'[at'["kept"]], cond'["kept"]) /\ Exact(heap'[at'["char"]], cond'["char"])
  BY <1>1, <1>3, <1>4, BetweenIs
<1> QED BY <1>3, <1>4, <1>5, ReturnKeeps

\* The second choice held, or the characteristic is lost.
LEMMA SecondTriedKeeps == ASSUME PropInv, SecondTried PROVE PropInv'
<1>1. pc \in {"held", "refused"} /\ call.name = "second" /\ equations' = equations
      /\ pc \notin {"equations", "gauss"}
  BY DEF SecondTried, Returned
<1>2. who = "tmp"
  BY <1>1, BetweenIs
<1>3. CASE pc = "held" /\ Ready /\ ShallowCopyBack(heap[at["tmp"]])
  <2> DEFINE f == heap[at["tmp"]]
  <2>1. f \in StepMatrices /\ Exact(f, cond["tmp"])
    BY <1>1, <1>2, BetweenIs
  <2>2. /\ cond' = Shared(cond, "char", "tmp") /\ list' = Shared(list, "char", "tmp")
        /\ at' = Shared(at, "char", "tmp") /\ heap' = [heap EXCEPT ![at["tmp"]] = FixAll(f)]
        /\ Return("ready")
    BY <1>3 DEF ShallowCopyBack, EachMatrix, FixChanges, FixAll, Ready
  <2> HIDE DEF f
  <2> QED BY <1>1, <2>1, <2>2, ShallowCopyKeeps
<1>4. CASE pc = "refused" /\ Return("lost") /\ UNCHANGED <<cond, list, at, heap>>
  <2>1. Return("lost") /\ "lost" \in {"ready", "lost"} /\ "lost" # "ready"
    BY <1>4
  <2>2. /\ cond' \in [Owner -> [Bit -> Condition]] /\ list' \in [Owner -> SUBSET Entries]
        /\ at' \in [Owner -> Cell] /\ at'["kept"] # at'["char"] /\ at'["kept"] # at'["tmp"]
        /\ heap' \in [Cell -> StepMatrices] /\ Exact(heap'[at'["kept"]], cond'["kept"])
    BY <1>4, BetweenIs
  <2> QED BY <1>1, <2>1, <2>2, ReturnKeeps
<1> QED BY <1>3, <1>4 DEF SecondTried

\* The log of the evaluation is taken back.
LEMMA EvaluatedKeeps == ASSUME PropInv, Evaluated PROVE PropInv'
<1>1. pc \in {"held", "refused"} /\ call.name = "evaluate" /\ equations' = equations
      /\ pc \notin {"equations", "gauss"}
  BY DEF Evaluated, Returned
<1> DEFINE f == UndoAll(heap[at["char"]])
<1>2. f \in StepMatrices /\ Exact(f, cond["tmp"])
  <2>1. who = "char"
    BY <1>1, BetweenIs
  <2> QED BY <1>1, <2>1, UndoneIsFaithful DEF Tries, Untouched
<1>3. /\ cond' = Shared(cond, "char", "tmp") /\ list' = Shared(list, "char", "tmp")
      /\ at' = Shared(at, "char", "tmp") /\ heap' = [heap EXCEPT ![at["tmp"]] = FixAll(f)]
      /\ Return("ready")
  BY DEF Evaluated, ShallowCopyBack, EachMatrix, FixChanges, FixAll, UndoAll, Ready
<1> HIDE DEF f
<1> QED BY <1>1, <1>2, <1>3, ShallowCopyKeeps

\* The log of the first choice is taken back, and the second one tried.
LEMMA OneTriedKeeps == ASSUME PropInv, OneTried PROVE PropInv'
<1> DEFINE f == UndoAll(heap[at["tmp"]])
           g == FixAll(f)
           b == guess.bit
           bc == guess.choices[2]
           conds == [cond EXCEPT !["tmp"] = cond["char"]]
           lists == [list EXCEPT !["tmp"] = list["char"]]
<1>1. pc \in {"held", "refused"} /\ call.name = "try one" /\ equations' = equations
      /\ pc \notin {"equations", "gauss"} /\ guess' = guess /\ results' \in BOOLEAN
  BY DEF OneTried, Returned
<1>2. /\ heap' = [heap EXCEPT ![at["tmp"]] = g]
      /\ at' = [at EXCEPT !["tmp"] = at["char"]]
      /\ SetAndUpdate("try two", "tmp", TRUE, conds, lists, b, bc)
  BY DEF OneTried, EachMatrix, UndoAll, FixAll, FixChanges, TryOn, Shared
<1>3. at["char"] = at["tmp"] /\ f \in StepMatrices /\ Exact(f, cond["char"])
  <2>1. who = "tmp"
    BY <1>1, BetweenIs
  <2> QED BY <1>1, <2>1, UndoneIsFaithful DEF Tries, Untouched
<1>4. b \in Bit /\ bc \in Condition /\ \A i \in {1, 2} : guess.choices[i] \subseteq cond["char"][b]
  BY <1>1 DEF PropInv, Typed, Narrows
<1> HIDE DEF f
<1>5. g \in StepMatrices /\ AllUndoable(g) /\ Exact(g, cond["char"])
      /\ Exact(UndoAll(g), cond["char"])
  BY <1>3, FixAllIs
<1> HIDE DEF g
<1>6. heap' \in [Cell -> StepMatrices] /\ heap'[at["tmp"]] = g
      /\ heap'[at["kept"]] = heap[at["kept"]]
  BY <1>2, <1>5, BetweenIs
<1>7. at' \in [Owner -> Cell] /\ at'["kept"] = at["kept"] /\ at'["char"] = at["char"]
      /\ at'["tmp"] = at["char"]
  BY <1>2, BetweenIs
<1>8. /\ conds \in [Owner -> [Bit -> Condition]] /\ lists \in [Owner -> SUBSET Entries]
      /\ conds["kept"] = cond["kept"] /\ conds["char"] = cond["char"]
      /\ conds["tmp"] = cond["char"]
  BY BetweenIs
<1> HIDE DEF conds, lists
<1>9. Other("tmp") = "char" /\ "try two" \in Names \ {"none"} /\ "try two" # "first"
      /\ "try two" \in {"second", "try one", "try two"}
  BY DEF Other, Names
<1>10. guess' \in [bit : Bit \cup {"none"}, choices : Condition \X Condition]
       /\ guess'.bit = b /\ guess'.choices = guess.choices
  BY <1>1 DEF PropInv, Typed
<1>11. \A i \in {1, 2} : guess'.choices[i] \subseteq conds["char"][guess'.bit]
  BY <1>4, <1>8, <1>10
<1>12. Exact(heap'[at'["kept"]], conds["kept"]) /\ Exact(heap'[at'["tmp"]], conds["tmp"])
       /\ AllUndoable(heap'[at'["tmp"]]) /\ Exact(UndoAll(heap'[at'["tmp"]]), conds["char"])
  BY <1>3, <1>5, <1>6, <1>7, <1>8, BetweenIs
<1>13. at'["kept"] # at'["char"] /\ at'["kept"] # at'["tmp"] /\ at'["char"] = at'["tmp"]
  BY <1>7, BetweenIs
<1>14. Callable("try two", "tmp", TRUE, conds, lists)
  BY <1>1, <1>4, <1>6, <1>7, <1>8, <1>9, <1>10, <1>11, <1>12, <1>13 DEF Callable
<1>15. bc \subseteq conds["tmp"][b]
  BY <1>4, <1>8
<1> QED BY <1>1, <1>2, <1>4, <1>14, <1>15, CallKeeps

\* The log of the second choice is taken back; char may keep one choice.
LEMMA TwoTriedKeeps == ASSUME PropInv, TwoTried PROVE PropInv'
<1> DEFINE g == UndoAll(heap[at["tmp"]])
<1>1. pc \in {"held", "refused"} /\ call.name = "try two" /\ equations' = equations
      /\ pc \notin {"equations", "gauss"} /\ at' = at
  BY DEF TwoTried, Returned
<1>2. heap' = [heap EXCEPT ![at["tmp"]] = g]
  BY DEF TwoTried, EachMatrix, UndoAll
<1>3. at["char"] = at["tmp"] /\ g \in StepMatrices /\ Exact(g, cond["char"])
  <2>1. who = "tmp"
    BY <1>1, BetweenIs
  <2> QED BY <1>1, <2>1, UndoneIsFaithful DEF Tries, Untouched
<1> HIDE DEF g
<1>4. heap' \in [Cell -> StepMatrices] /\ heap'[at["char"]] = g
      /\ heap'[at["kept"]] = heap[at["kept"]]
  BY <1>2, <1>3, BetweenIs
<1>5. CASE Return("ready") /\ UNCHANGED <<cond, list>>
  <2>1. /\ cond' \in [Owner -> [Bit -> Condition]] /\ list' \in [Owner -> SUBSET Entries]
        /\ at' \in [Owner -> Cell] /\ at'["kept"] # at'["char"] /\ at'["kept"] # at'["tmp"]
        /\ Exact(heap'[at'["kept"]], cond'["kept"]) /\ Exact(heap'[at'["char"]], cond'["char"])
    BY <1>1, <1>3, <1>4, <1>5, BetweenIs
  <2> QED BY <1>1, <1>4, <1>5, <2>1, ReturnKeeps
<1>6. CASE Return("lost") /\ UNCHANGED <<cond, list>>
  <2>1. /\ cond' \in [Owner -> [Bit -> Condition]] /\ list' \in [Owner -> SUBSET Entries]
        /\ at' \in [Owner -> Cell] /\ at'["kept"] # at'["char"] /\ at'["kept"] # at'["tmp"]
        /\ Exact(heap'[at'["kept"]], cond'["kept"]) /\ "lost" # "ready"
    BY <1>1, <1>3, <1>4, <1>6, BetweenIs
  <2> QED BY <1>1, <1>4, <1>6, <2>1, ReturnKeeps
<1>7. ASSUME NEW i \in {1, 2}, UNCHANGED <<guess, results>>,
             SetAndUpdate("keep", "char", FALSE, cond, list, guess.bit, guess.choices[i])
      PROVE  PropInv'
  <2> DEFINE b == guess.bit
             bc == guess.choices[i]
  <2>1. b \in Bit /\ bc \in Condition /\ bc \subseteq cond["char"][b]
    BY <1>1 DEF PropInv, Typed, Narrows
  <2>2. SetAndUpdate("keep", "char", FALSE, cond, list, b, bc)
    BY <1>7
  <2> HIDE DEF b, bc
  <2>3. /\ "keep" \in Names \ {"none"} /\ "keep" \notin Tries
        /\ "keep" # "first" /\ "keep" \notin {"second", "try one", "try two"}
    BY DEF Names, Tries
  <2>4. guess' \in [bit : Bit \cup {"none"}, choices : Condition \X Condition]
        /\ results' \in BOOLEAN
    BY <1>7 DEF PropInv, Typed
  <2>5. Callable("keep", "char", FALSE, cond, list)
    BY <1>1, <1>3, <1>4, <2>3, <2>4, BetweenIs DEF Callable
  <2> QED BY <1>1, <2>1, <2>2, <2>5, CallKeeps
<1>8. (IF results THEN 1 ELSE 2) \in {1, 2}
  OBVIOUS
<1> QED BY <1>5, <1>6, <1>7, <1>8 DEF TwoTried, Ready

\* Complete goes on.
LEMMA KeptKeeps == ASSUME PropInv, Kept PROVE PropInv'
<1>1. pc \in {"held", "refused"} /\ call.name = "keep" /\ equations' = equations
      /\ pc \notin {"equations", "gauss"} /\ pc # "lost"
      /\ Return("ready") /\ cond' = cond /\ list' = list /\ at' = at /\ heap' = heap
  BY DEF Kept, Returned, Ready
<1>2. who = "char"
  BY <1>1, BetweenIs
<1>3. /\ cond' \in [Owner -> [Bit -> Condition]] /\ list' \in [Owner -> SUBSET Entries]
      /\ at' \in [Owner -> Cell] /\ at'["kept"] # at'["char"] /\ at'["kept"] # at'["tmp"]
      /\ heap' \in [Cell -> StepMatrices]
      /\ Exact(heap'[at'["kept"]], cond'["kept"]) /\ Exact(heap'[at'["char"]], cond'["char"])
  BY <1>1, <1>2, BetweenIs
<1> QED BY <1>1, <1>3, ReturnKeeps

\* A guess from the stack was tried.
LEMMA BackTrackedKeeps == ASSUME PropInv, BackTracked PROVE PropInv'
<1> DEFINE place == IF pc = "held" THEN "ready" ELSE "lost"
<1>1. pc \in {"held", "refused"} /\ call.name = "back" /\ equations' = equations
      /\ pc \notin {"equations", "gauss"} /\ pc # "lost"
      /\ Return(place) /\ cond' = cond /\ list' = list /\ at' = at /\ heap' = heap
  BY DEF BackTracked, Returned
<1>2. who = "char"
  BY <1>1, BetweenIs
<1>3. /\ cond' \in [Owner -> [Bit -> Condition]] /\ list' \in [Owner -> SUBSET Entries]
      /\ at' \in [Owner -> Cell] /\ at'["kept"] # at'["char"] /\ at'["kept"] # at'["tmp"]
      /\ heap' \in [Cell -> StepMatrices]
      /\ Exact(heap'[at'["kept"]], cond'["kept"]) /\ Exact(heap'[at'["char"]], cond'["char"])
  BY <1>1, <1>2, BetweenIs
<1>4. place \in {"ready", "lost"}
  OBVIOUS
<1> HIDE DEF place
<1> QED BY <1>1, <1>3, <1>4, ReturnKeeps

-----------------------------------------------------------------------------
(* Copies *)

\* The stack keeps a copy.
LEMMA KeepKeeps == ASSUME PropInv, Keep PROVE PropInv'
<1> DEFINE g == FixAll(heap[at["char"]])
<1>1. /\ pc = "ready" /\ pc' = pc /\ call' = call /\ guess' = guess /\ results' = results
      /\ equations' = equations /\ at' = at
      /\ cond' = Shared(cond, "kept", "char") /\ list' = Shared(list, "kept", "char")
      /\ heap' = [heap EXCEPT ![at["kept"]] = g]
  BY DEF Keep, EachMatrix, CopyOf, FixAll
<1>2. who = "char" /\ call.name = "none" /\ who' = who
  BY <1>1, BetweenIs DEF who
<1>3. Exact(heap[at["char"]], cond["char"])
  BY <1>1, <1>2, BetweenIs
<1>4. g \in StepMatrices /\ Exact(g, cond["char"])
  <2> DEFINE f == heap[at["char"]]
  <2>1. f \in StepMatrices /\ Exact(f, cond["char"])
    BY <1>3, BetweenIs
  <2> HIDE DEF f
  <2>2. FixAll(f) \in StepMatrices /\ Exact(FixAll(f), cond["char"])
    BY <2>1, FixAllIs
  <2> QED BY <2>2 DEF f
<1> HIDE DEF g
<1>5. heap' \in [Cell -> StepMatrices] /\ heap'[at["kept"]] = g
      /\ heap'[at["char"]] = heap[at["char"]]
  BY <1>1, <1>4, BetweenIs
<1>6. /\ cond' \in [Owner -> [Bit -> Condition]] /\ list' \in [Owner -> SUBSET Entries]
      /\ cond'["kept"] = cond["char"] /\ cond'["char"] = cond["char"]
  BY <1>1, BetweenIs DEF Shared
<1>7. ~ Trying /\ ~ Trying'
  BY <1>1, <1>2 DEF Trying
<1>8. Typed'
  BY <1>1, <1>5, <1>6 DEF PropInv, Typed
<1>9. Called'
  BY <1>1, <1>2, <1>7 DEF PropInv, Called
<1>10. Narrows' /\ EquationsHold'
  BY <1>1, <1>2 DEF PropInv, Narrows, EquationsHold
<1>11. MatricesHold'
  BY <1>1, <1>2, <1>3, <1>4, <1>5, <1>6, <1>7 DEF MatricesHold, UndoFaithful
<1> QED BY <1>8, <1>9, <1>10, <1>11 DEF PropInv

\* The search goes back to the copy that is kept.
LEMMA RestartKeeps == ASSUME PropInv, Restart PROVE PropInv'
<1> DEFINE g == FixAll(heap[at["kept"]])
<1>1. /\ pc \notin {"equations", "gauss"} /\ Return("ready")
      /\ equations' = equations /\ at' = at
      /\ cond' = Shared(cond, "char", "kept") /\ list' = Shared(list, "char", "kept")
      /\ heap' = [heap EXCEPT ![at["char"]] = g]
  BY DEF Restart, Ready, EachMatrix, CopyOf, FixAll
<1>2. g \in StepMatrices /\ Exact(g, cond["kept"])
  BY BetweenIs, FixAllIs
<1> HIDE DEF g
<1>3. heap' \in [Cell -> StepMatrices] /\ heap'[at["char"]] = g
      /\ heap'[at["kept"]] = heap[at["kept"]]
  BY <1>1, <1>2, BetweenIs
<1>4. /\ cond' \in [Owner -> [Bit -> Condition]] /\ list' \in [Owner -> SUBSET Entries]
      /\ cond'["kept"] = cond["kept"] /\ cond'["char"] = cond["kept"]
  BY <1>1, BetweenIs DEF Shared
<1>5. /\ at' \in [Owner -> Cell] /\ at'["kept"] # at'["char"] /\ at'["kept"] # at'["tmp"]
      /\ Exact(heap'[at'["kept"]], cond'["kept"]) /\ Exact(heap'[at'["char"]], cond'["char"])
  BY <1>1, <1>2, <1>3, <1>4, BetweenIs
<1> QED BY <1>1, <1>3, <1>4, <1>5, ReturnKeeps

\* A choice is tried on a copy of what the stack keeps.
LEMMA BackTrackKeeps ==
    ASSUME PropInv, NEW b \in Bit, NEW i \in {1, 2}, BackTrack(b, i)
    PROVE  PropInv'
<1> DEFINE g == FixAll(heap[at["kept"]])
           c == FreeCell
           old == cond["kept"][b]
           bc == CHOICES(old)[i]
           conds == [cond EXCEPT !["char"] = cond["kept"]]
           lists == [list EXCEPT !["char"] = list["kept"]]
<1>1. /\ pc \notin {"equations", "gauss"} /\ equations' = equations
      /\ guess' = guess /\ results' = results
      /\ at' = [at EXCEPT !["char"] = c] /\ heap' = [heap EXCEPT ![c] = g]
      /\ SetAndUpdate("back", "char", TRUE, conds, lists, b, bc)
  BY DEF BackTrack, EachMatrix, CopyOf, FixAll, Shared
<1>2. c \in Cell /\ c # at["kept"]
  <2>1. \E x \in Cell : x \notin {at["kept"], at["tmp"]}
    <3>1. 1 \in Cell /\ 2 \in Cell /\ 3 \in Cell
      BY DEF Cell
    <3> QED BY <3>1
  <2> QED BY <2>1 DEF FreeCell
<1>3. g \in StepMatrices /\ Exact(g, cond["kept"])
  BY BetweenIs, FixAllIs
<1>4. bc \subseteq old /\ bc \in Condition
  <2>1. old \in Condition
    BY BetweenIs
  <2> HIDE DEF old
  <2> QED BY <2>1, ChoicesNarrow
<1> HIDE DEF g, c, bc
<1>5. heap' \in [Cell -> StepMatrices] /\ heap'[c] = g
      /\ heap'[at["kept"]] = heap[at["kept"]]
  BY <1>1, <1>2, <1>3, BetweenIs
<1>6. at' \in [Owner -> Cell] /\ at'["kept"] = at["kept"] /\ at'["char"] = c
      /\ at'["tmp"] = at["tmp"]
  BY <1>1, <1>2, BetweenIs
<1>7. /\ conds \in [Owner -> [Bit -> Condition]] /\ lists \in [Owner -> SUBSET Entries]
      /\ conds["kept"] = cond["kept"] /\ conds["char"] = cond["kept"]
  BY BetweenIs
<1> HIDE DEF conds, lists
<1>8. /\ "back" \in Names \ {"none"} /\ "back" \notin Tries
      /\ "back" # "first" /\ "back" \notin {"second", "try one", "try two"}
  BY DEF Names, Tries
<1>9. guess' \in [bit : Bit \cup {"none"}, choices : Condition \X Condition]
      /\ results' \in BOOLEAN
  BY <1>1 DEF PropInv, Typed
<1>10. Exact(heap'[at'["kept"]], conds["kept"]) /\ Exact(heap'[at'["char"]], conds["char"])
       /\ at'["kept"] # at'["char"] /\ at'["kept"] # at'["tmp"]
  BY <1>2, <1>3, <1>5, <1>6, <1>7, BetweenIs
<1>11. Callable("back", "char", TRUE, conds, lists)
  BY <1>5, <1>6, <1>7, <1>8, <1>9, <1>10 DEF Callable
<1>12. bc \subseteq conds["char"][b]
  BY <1>4, <1>7
<1> QED BY <1>1, <1>4, <1>11, <1>12, CallKeeps

\* The search starts with copies.
LEMMA SearchStartsKeeps == ASSUME PropInv, SearchStarts PROVE PropInv'
<1> DEFINE g == FixAll(heap[at["char"]])
<1>1. /\ pc = "held" /\ call.name = "all" /\ pc \notin {"equations", "gauss"} /\ Return("ready")
      /\ equations' = equations /\ at' = at
      /\ cond' = [x \in Owner |-> cond["char"]] /\ list' = [x \in Owner |-> list["char"]]
      /\ heap' = [x \in Cell |-> g]
  BY DEF SearchStarts, Returned, Ready, EachMatrix, CopyOf, FixAll
<1>2. who = "char"
  BY <1>1, BetweenIs
<1>3. g \in StepMatrices /\ Exact(g, cond["char"])
  BY <1>1, <1>2, BetweenIs, FixAllIs
<1> HIDE DEF g
<1>4. /\ cond' \in [Owner -> [Bit -> Condition]] /\ list' \in [Owner -> SUBSET Entries]
      /\ at' \in [Owner -> Cell] /\ at'["kept"] # at'["char"] /\ at'["kept"] # at'["tmp"]
      /\ heap' \in [Cell -> StepMatrices]
      /\ Exact(heap'[at'["kept"]], cond'["kept"]) /\ Exact(heap'[at'["char"]], cond'["char"])
  BY <1>1, <1>3, BetweenIs
<1> QED BY <1>1, <1>4, ReturnKeeps

\* The state the main program starts from.
LEMMA InitHolds == ASSUME Init PROVE PropInv
<1>1. Start \in [Bit -> Condition] /\ NewMatrices \in StepMatrices /\ Exact(NewMatrices, Start)
  BY StartAssumption, NewMatricesHold
<1>2. "char" \in Owner /\ "tmp" \in Owner /\ "kept" \in Owner
      /\ \A x \in Owner : x = "char" \/ x = "tmp" \/ x = "kept"
  BY DEF Owner
<1>3. at = [x \in Owner |-> CASE x = "char" -> 1 [] x = "tmp" -> 2 [] x = "kept" -> 3]
      /\ heap = [c \in Cell |-> NewMatrices] /\ cond = [x \in Owner |-> Start]
      /\ call = [name |-> "all", who |-> "char", log |-> FALSE, cond |-> Start]
      /\ guess = [bit |-> "none", choices |-> <<{}, {}>>]
      /\ results = FALSE /\ equations = <<>> /\ pc = "update"
      /\ list = [x \in Owner |-> UNION {StepsToUpdate(b) : b \in Bit}]
  BY DEF Init, NoGuess
<1>4. at["char"] = 1 /\ at["tmp"] = 2 /\ at["kept"] = 3
  BY <1>2, <1>3
<1>5. at \in [Owner -> Cell]
  <2>1. \A x \in Owner : at[x] \in Cell
    BY <1>2, <1>4 DEF Cell
  <2> DEFINE K(x) == CASE x = "char" -> 1 [] x = "tmp" -> 2 [] x = "kept" -> 3
  <2>2. at = [x \in Owner |-> K(x)]
    BY <1>3
  <2> HIDE DEF K
  <2> QED BY <2>1, <2>2
<1>6. list \in [Owner -> SUBSET Entries]
  <2>1. UNION {StepsToUpdate(b) : b \in Bit} \in SUBSET Entries
    BY DEF StepsToUpdate
  <2> QED BY <1>3, <2>1
<1>7. Typed
  <2>1. call \in [name : Names, who : Owner, log : BOOLEAN, cond : [Bit -> Condition]]
    BY <1>1, <1>2, <1>3 DEF Names
  <2>2. guess \in [bit : Bit \cup {"none"}, choices : Condition \X Condition]
    BY <1>3 DEF Condition
  <2>3. equations \in Seq(SUBSET Nat) /\ Len(equations) <= 2
    BY <1>3
  <2>4. cond \in [Owner -> [Bit -> Condition]] /\ heap \in [Cell -> StepMatrices]
    BY <1>1, <1>3
  <2> QED BY <1>3, <1>5, <1>6, <2>1, <2>2, <2>3, <2>4 DEF Typed
<1>8. who = "char" /\ call.name = "all" /\ ~ Trying
  BY <1>3 DEF who, Trying
<1>9. Called /\ Narrows /\ EquationsHold
  <2>1. pc = "update" /\ equations = <<>>
    BY <1>3
  <2>2. Called
    BY <1>4, <1>8, <2>1 DEF Called
  <2>3. Narrows
    BY <1>8 DEF Narrows
  <2>4. EquationsHold
    BY <2>1 DEF EquationsHold
  <2> QED BY <2>2, <2>3, <2>4
<1>10. MatricesHold
  <2>1. heap[at["kept"]] = NewMatrices /\ heap[at["char"]] = NewMatrices
        /\ cond["kept"] = Start /\ cond["char"] = Start
    BY <1>2, <1>3, <1>5
  <2> QED BY <1>1, <1>8, <2>1 DEF MatricesHold, UndoFaithful
<1> QED BY <1>7, <1>9, <1>10 DEF PropInv

-----------------------------------------------------------------------------
(* Every step *)

\* No step breaks the invariant.
LEMMA StepKeeps == ASSUME PropInv, [Next]_vars PROVE PropInv'
<1>1. CASE UpdateStep
  BY <1>1, UpdateDoneKeeps, UpdateBitsliceKeeps, UpdateLinearKeeps, AddNextKeeps, ReduceKeeps,
     RefuseEquationKeeps, SortKeeps, LinearDoneKeeps DEF UpdateStep
<1>2. CASE \E b \in Bit : \/ \E i \in {1, 2} : \/ GuessBit("first", b, i)
                                               \/ GuessBit("evaluate", b, i)
                                               \/ BackTrack(b, i)
                          \/ CompleteBit(b)
  BY <1>2, GuessBitKeeps, BackTrackKeeps, CompleteBitKeeps
<1>3. CASE FirstTried \/ SecondTried \/ Evaluated \/ OneTried \/ TwoTried \/ Kept
  BY <1>3, FirstTriedKeeps, SecondTriedKeeps, EvaluatedKeeps, OneTriedKeeps, TwoTriedKeeps,
     KeptKeeps
<1>4. CASE SearchStarts \/ Keep \/ Restart \/ BackTracked
  BY <1>4, SearchStartsKeeps, KeepKeeps, RestartKeeps, BackTrackedKeeps
<1>5. CASE UNCHANGED vars
  <2>1. /\ cond' = cond /\ list' = list /\ at' = at /\ heap' = heap /\ pc' = pc /\ call' = call
        /\ guess' = guess /\ results' = results /\ equations' = equations
    BY <1>5 DEF vars
  <2>2. who' = who
    BY <2>1 DEF who
  <2>3. Entry' = Entry
    BY <2>1, <2>2 DEF Entry
  <2>4. (Trying' <=> Trying) /\ Untouched' = Untouched
    BY <2>1, <2>2 DEF Trying, Untouched
  <2>5. Typed' /\ Called'
    BY <2>1, <2>2, <2>4 DEF PropInv, Typed, Called
  <2>6. Narrows' /\ EquationsHold'
    BY <2>1, <2>2, <2>3 DEF PropInv, Narrows, EquationsHold
  <2>7. MatricesHold'
    BY <2>1, <2>2, <2>4 DEF PropInv, MatricesHold, UndoFaithful
  <2> QED BY <2>5, <2>6, <2>7 DEF PropInv
<1> QED BY <1>1, <1>2, <1>3, <1>4, <1>5 DEF Next

(***************************************************************************)
(* The inductive invariant: whatever was shared, changed, taken back or    *)
(* copied, the matrices of a characteristic fit its conditions, and the    *)
(* log of a guess leads back to matrices that fit the other one's.         *)
(***************************************************************************)
THEOREM PropInvariant == Spec => []PropInv
<1>1. Init => PropInv
  BY InitHolds
<1>2. PropInv /\ [Next]_vars => PropInv'
  BY StepKeeps
<1> QED BY <1>1, <1>2, PTL DEF Spec

(***************************************************************************)
(* Every variable has its type: worklists hold entries of steps, and the   *)
(* matrices keep the shape of their steps whatever is done to them.        *)
(***************************************************************************)
THEOREM PropagationTypeOK == Spec => []TypeOK
<1>1. ASSUME PropInv PROVE TypeOK
  <2>1. Typed
    BY <1>1 DEF PropInv
  <2>2. ASSUME NEW c \in Cell, NEW s \in LinearSteps PROVE MatrixType(heap[c][s], s)
    <3> DEFINE m == heap[c][s]
               n == 2 * StepList[s].outputs
               d == 2 * Len(StepList[s].bits)
    <3>1. heap[c] \in StepMatrices
      BY <2>1 DEF Typed
    <3>2. m \in MatrixSet(n, d)
      BY <3>1, StepMatrixIs DEF RowCount, ColumnCount
    <3> HIDE DEF m, n, d
    <3>3. /\ m.columns = d
          /\ m.data \in [0..(n - 1) -> SUBSET (0..d)]
          /\ m.row \in [0..(n - 1) -> [index : 0..(n - 1), pivot : 0..(d + 1)]]
          /\ m.rowinv \in [0..(n - 1) -> 0..(n - 1)]
          /\ m.changes \in Seq(Change(n, d))
          /\ m.extract \subseteq 0..(n - 1)
          /\ m.updateRows \subseteq 0..(n - 1) /\ m.updatePivot \subseteq 0..(n - 1)
      BY <3>2 DEF MatrixSet, MatrixRow
    <3>4. \A k \in DOMAIN m.changes : m.changes[k].kind \in {"row", "row to row", "sort"}
      <4>1. \A k \in DOMAIN m.changes : m.changes[k] \in Change(n, d)
        BY <3>3
      <4>2. \A x \in Change(n, d) : x.kind \in {"row", "row to row", "sort"}
        BY DEF Change
      <4> QED BY <4>1, <4>2
    <3> QED BY <3>3, <3>4 DEF MatrixType, m, n, d
  <2>3. \A c \in Cell : DOMAIN heap[c] = LinearSteps
    BY <2>1 DEF Typed, StepMatrices
  <2>4. call.name \in Names /\ call.who \in Owner /\ call.log \in BOOLEAN
        /\ call.cond \in [Bit -> Condition]
        /\ guess.bit \in Bit \cup {"none"} /\ guess.choices \in Condition \X Condition
    BY <2>1 DEF Typed
  <2> QED BY <2>1, <2>2, <2>3, <2>4 DEF TypeOK, Typed
<1> QED BY <1>1, PropInvariant, PTL

(***************************************************************************)
(* At every step of an Update, and whenever the search goes on, the        *)
(* matrices of a characteristic together with its conditions say what the  *)
(* functions of the steps say, although char and tmp share them, guesses   *)
(* change them, Undo changes them back, and the stack keeps copies.        *)
(***************************************************************************)
THEOREM MatricesStayFaithful == Spec => []MatricesFaithful
<1>1. ASSUME PropInv PROVE MatricesFaithful
  <2>1. /\ Faithful(heap[at["kept"]], cond["kept"])
        /\ pc # "lost" => Faithful(heap[at[who]], cond[who])
    <3>1. /\ Exact(heap[at["kept"]], cond["kept"])
          /\ pc # "lost" => Exact(heap[at[who]], cond[who])
      BY <1>1 DEF PropInv, MatricesHold
    <3>2. cond["kept"] \in [Bit -> Condition] /\ cond[who] \in [Bit -> Condition]
      BY <1>1, WhoIs DEF PropInv, Typed, Owner
    <3>3. Below(cond["kept"], cond["kept"]) /\ Below(cond[who], cond[who])
      BY DEF Below
    <3> QED BY <3>1, <3>2, <3>3, ExactBelow
  <2>2. pc = "ready" => who = "char"
    BY <1>1 DEF PropInv, Called
  <2>3. Running => pc # "lost"
    BY DEF Running
  <2> QED BY <2>1, <2>2, <2>3 DEF MatricesFaithful
<1> QED BY <1>1, PropInvariant, PTL

(***************************************************************************)
(* Wherever the Update of a guess stops, the log can be taken back change  *)
(* by change, and Undo makes of the shared matrices some that fit the      *)
(* conditions of the characteristic that knows nothing of the guess.       *)
(***************************************************************************)
THEOREM UndoIsFaithful == Spec => []UndoFaithful
<1>1. PropInv => UndoFaithful
  BY DEF PropInv, MatricesHold
<1> QED BY <1>1, PropInvariant, PTL

-----------------------------------------------------------------------------
(* Reduced form *)

\* What the stored pivot of a row says of its equation.
LEMMA PivotOfRow ==
    ASSUME NEW n \in Nat, NEW c \in Nat, NEW m, Shaped(m, n, c), NEW r \in 0..(n - 1)
    PROVE  /\ Pivot(m, r) \in 0..(c + 1) /\ Content(m, r) \in SUBSET (0..c)
           /\ Pivot(m, r) = ComputePivot(m, Content(m, r))
           /\ IsZeroRow(m, r) <=> Content(m, r) = {}
           /\ IsZeroRow(m, r) <=> Pivot(m, r) = c + 1
           /\ IsContradiction(m, r) <=> Pivot(m, r) = c
           /\ ~ IsZeroRow(m, r) => Pivot(m, r) \in Content(m, r)
           /\ \A x \in Content(m, r) : Pivot(m, r) <= x
<1>1. m \in MatrixSet(n, c) /\ m.columns = c /\ Rows(m) = 0..(n - 1)
  BY MatrixFacts DEF Shaped, MatrixSet
<1>2. /\ Pivot(m, r) \in 0..(c + 1) /\ Content(m, r) \in SUBSET (0..c)
      /\ Pivot(m, r) = ComputePivot(m, Content(m, r))
  BY <1>1, MatrixFacts DEF Shaped
<1>3. /\ Content(m, r) = {} <=> Pivot(m, r) = c + 1
      /\ Content(m, r) # {} => Pivot(m, r) \in Content(m, r)
      /\ \A x \in Content(m, r) : Pivot(m, r) <= x
  BY <1>1, <1>2, PivotIs
<1>4. /\ IsZeroRow(m, r) <=> Pivot(m, r) = c + 1
      /\ IsContradiction(m, r) <=> Pivot(m, r) = c
  BY <1>1 DEF IsZeroRow, IsContradiction, NOPIVOT, RHS
<1> QED BY <1>2, <1>3, <1>4

\* After a sum with an equation that begins behind its pivot a row keeps the pivot.
LEMMA PivotStays ==
    ASSUME NEW n \in Nat, NEW c \in Nat, NEW m, Shaped(m, n, c), NEW k, Shaped(k, n, c),
           NEW r \in 0..(n - 1), NEW E \in SUBSET (0..c), \A x \in E : Pivot(m, r) < x,
           Content(k, r) = SymDiff(Content(m, r), E)
    PROVE  Pivot(k, r) = Pivot(m, r)
<1>1. m.columns = c /\ k.columns = c
  BY DEF Shaped, MatrixSet
<1>2. /\ Content(m, r) \in SUBSET (0..c) /\ Pivot(m, r) = ComputePivot(m, Content(m, r))
      /\ Pivot(m, r) \in 0..(c + 1)
  BY PivotOfRow
<1>3. Pivot(k, r) = ComputePivot(k, Content(k, r))
  BY PivotOfRow
<1>4. CASE E = {}
  <2>1. Content(k, r) = Content(m, r)
    BY <1>4 DEF SymDiff
  <2> QED BY <1>1, <1>2, <1>3, <2>1, PivotSame
<1>5. CASE E # {}
  <2>1. ComputePivot(m, E) \in E
    BY <1>1, <1>5, PivotIs
  <2>2. ComputePivot(m, Content(m, r)) < ComputePivot(m, E)
    BY <1>2, <2>1
  <2>3. ComputePivot(m, SymDiff(Content(m, r), E)) = ComputePivot(m, Content(m, r))
    BY <1>1, <1>2, <2>2, PivotOfSum
  <2> QED BY <1>1, <1>2, <1>3, <2>3, PivotSame
<1> QED BY <1>4, <1>5

\* Rows of different equations have different pivots.
LEMMA PivotsDiffer ==
    ASSUME NEW n \in Nat, NEW c \in Nat, NEW m, Shaped(m, n, c), NEW R, Eliminated(m, R),
           NEW r \in R, ~ IsZeroRow(m, r), NEW q \in 0..(n - 1), q # r, r \in 0..(n - 1)
    PROVE  Pivot(m, q) # Pivot(m, r) /\ Pivot(m, r) \notin Content(m, q)
<1>1. Rows(m) = 0..(n - 1)
  BY MatrixFacts DEF Shaped
<1>2. Pivot(m, r) \notin Content(m, q)
  BY <1>1 DEF Eliminated
<1>3. ~ IsZeroRow(m, q) => Pivot(m, q) \in Content(m, q)
  BY PivotOfRow
<1>4. IsZeroRow(m, q) => Pivot(m, q) # Pivot(m, r)
  <2>1. IsZeroRow(m, q) <=> Pivot(m, q) = c + 1
    BY PivotOfRow
  <2>2. IsZeroRow(m, r) <=> Pivot(m, r) = c + 1
    BY PivotOfRow
  <2> QED BY <2>1, <2>2
<1> QED BY <1>2, <1>3, <1>4

-----------------------------------------------------------------------------
(* The row of a pivot *)

\* If the rows with a pivot up to a column are those up to p, then p is the bound of the column.
LEMMA BoundIs ==
    ASSUME NEW n \in Nat, NEW c, NEW m \in MatrixSet(n, c), NEW column, NEW p \in 0..(n - 1),
           \A r \in 0..(n - 1) : Pivot(m, r) <= column <=> r <= p
    PROVE  RowOf(m, column) = p
<1> DEFINE S == {r \in 0..(n - 1) : Pivot(m, r) <= column}
<1>1. Rows(m) = 0..(n - 1)
  BY MatrixFacts
<1>2. RowOf(m, column) = Cardinality(S) - 1
  BY <1>1 DEF RowOf, GetPivotUpperBound
<1>3. S = 0..p
  <2>1. ASSUME NEW r \in S PROVE r \in 0..p
    <3>1. r \in 0..(n - 1) /\ r <= p
      OBVIOUS
    <3> QED BY <3>1
  <2>2. ASSUME NEW r \in 0..p PROVE r \in S
    <3>1. r \in 0..(n - 1) /\ r <= p
      OBVIOUS
    <3> QED BY <3>1
  <2> HIDE DEF S
  <2> QED BY <2>1, <2>2
<1> HIDE DEF S
<1>4. Cardinality(0..p) = p + 1
  <2>1. 0 \in Int /\ p \in Int /\ ~ (0 > p)
    OBVIOUS
  <2>2. Cardinality(0..p) = IF 0 > p THEN 0 ELSE p - 0 + 1
    BY <2>1, FS_Interval
  <2> QED BY <2>1, <2>2
<1> QED BY <1>2, <1>3, <1>4

\* In sorted rows the bound of a column is the last row with a pivot up to it.
LEMMA BoundOfSorted ==
    ASSUME NEW n \in Nat, NEW c \in Nat, NEW m, Shaped(m, n, c), SortedOn(m, Rows(m)),
           NEW column \in 0..c
    PROVE  /\ \A r \in 0..(n - 1) : Pivot(m, r) <= column <=> r <= RowOf(m, column)
           /\ ~ HasPivot(m, column) => \A r \in 0..(n - 1) : Pivot(m, r) # column
<1> DEFINE S == {r \in 0..(n - 1) : Pivot(m, r) <= column}
           k == Cardinality(S)
<1>1. Rows(m) = 0..(n - 1) /\ m \in MatrixSet(n, c)
  BY MatrixFacts DEF Shaped
<1>2. \A r \in 0..(n - 1) : Pivot(m, r) \in 0..(c + 1)
  BY PivotOfRow
<1>3. \A q, r \in 0..(n - 1) : q < r => Pivot(m, q) <= Pivot(m, r)
  BY <1>1 DEF SortedOn
<1>4. \A d \in S : \A e \in 0..(n - 1) : e <= d => e \in S
  <2>1. TAKE d \in S
  <2>2. TAKE e \in 0..(n - 1)
  <2>3. HAVE e <= d
  <2>4. CASE e = d
    BY <2>4
  <2>5. CASE e # d
    <3>1. d \in 0..(n - 1) /\ Pivot(m, d) <= column /\ e < d
      BY <2>3, <2>5
    <3>2. Pivot(m, e) <= Pivot(m, d)
      BY <1>3, <3>1
    <3>3. Pivot(m, e) \in Int /\ Pivot(m, d) \in Int
      BY <1>2, <3>1
    <3>4. Pivot(m, e) <= column
      BY <3>1, <3>2, <3>3
    <3> QED BY <3>4
  <2> QED BY <2>4, <2>5
<1>5. S \in SUBSET (0..(n - 1))
  OBVIOUS
<1>6. RowOf(m, column) = k - 1
  BY <1>1 DEF RowOf, GetPivotUpperBound
<1>7. \A r \in 0..(n - 1) : Pivot(m, r) <= column <=> r \in S
  OBVIOUS
<1> HIDE DEF S
<1>8. S = 0..(k - 1) /\ k \in 0..n
  BY <1>4, <1>5, FirstOnes
<1> HIDE DEF k
<1>9. \A r \in 0..(n - 1) : r \in S <=> r <= k - 1
  <2>1. TAKE r \in 0..(n - 1)
  <2>2. r \in 0..(k - 1) <=> r <= k - 1
    BY <1>8
  <2> QED BY <1>8, <2>2
<1>10. \A r \in 0..(n - 1) : Pivot(m, r) <= column <=> r <= RowOf(m, column)
  BY <1>6, <1>7, <1>9
<1>11. ASSUME ~ HasPivot(m, column), NEW r \in 0..(n - 1), Pivot(m, r) = column
       PROVE  FALSE
  <2> DEFINE l == RowOf(m, column)
  <2>1. l \in -1..(n - 1)
    BY <1>1, RowOfIs
  <2>2. Pivot(m, r) <= column
    BY <1>2, <1>11
  <2>3. r <= l
    BY <1>10, <2>2
  <2>4. l \in 0..(n - 1) /\ l >= 0
    BY <2>1, <2>3
  <2>5. Pivot(m, l) <= column
    BY <1>10, <2>4
  <2>6. Pivot(m, l) # column
    BY <1>11, <2>4 DEF HasPivot
  <2>7. r < l \/ r = l
    BY <2>3, <2>4
  <2>8. Pivot(m, r) <= Pivot(m, l)
    <3>1. CASE r < l
      BY <1>3, <2>4, <3>1
    <3>2. CASE r = l
      BY <1>2, <3>2
    <3> QED BY <2>7, <3>1, <3>2
  <2>9. Pivot(m, l) \in Int /\ Pivot(m, r) \in Int
    BY <1>2, <2>4
  <2> HIDE DEF l
  <2> QED BY <1>11, <2>5, <2>6, <2>8, <2>9
<1> QED BY <1>10, <1>11

-----------------------------------------------------------------------------
(* The same equation is added to several rows *)

\* Adds X to row r.
AddsTo(ch, m, r, X, rows, n, c) ==
    \/ X # {} /\ ch = XorRow(r, X)
    \/ \E b \in (0..(n - 1)) \ rows : ch = XorRowtoRow(r, b) /\ Content(m, b) = X

\* X has been added to those of rows before i.
AddedUpTo(a, m, rows, X, i, n, c) ==
    /\ Shaped(a, n, c) /\ a.updateRows = m.updateRows /\ a.updatePivot = m.updatePivot
    /\ \A q \in 0..(n - 1) : Content(a, q) = IF q \in rows /\ q < i THEN SymDiff(Content(m, q), X)
                                             ELSE Content(m, q)

\* One more.
LEMMA AddsOne ==
    ASSUME NEW n \in Nat, NEW c \in Nat, NEW m, Shaped(m, n, c), NEW rows \in SUBSET (0..(n - 1)),
           NEW X \in SUBSET (0..c), NEW i \in rows, NEW ch, AddsTo(ch, m, i, X, rows, n, c),
           NEW a, AddedUpTo(a, m, rows, X, i, n, c), NEW log
    PROVE  AddedUpTo(Changed(a, ch, log), m, rows, X, i + 1, n, c)
<1> DEFINE k == Changed(a, ch, log)
<1>1. /\ Shaped(a, n, c) /\ a.updateRows = m.updateRows /\ a.updatePivot = m.updatePivot
      /\ \A q \in 0..(n - 1) :
            Content(a, q) = IF q \in rows /\ q < i THEN SymDiff(Content(m, q), X)
                            ELSE Content(m, q)
  BY DEF AddedUpTo
<1>2. i \in 0..(n - 1) /\ i \in Int /\ \A q \in rows : q \in 0..(n - 1) /\ q \in Int
  OBVIOUS
<1>3. Content(a, i) = Content(m, i)
  BY <1>1, <1>2
<1>4. /\ Shaped(k, n, c) /\ k.updateRows = a.updateRows /\ k.updatePivot = a.updatePivot
      /\ \A q \in 0..(n - 1) :
            Content(k, q) = IF q = i THEN SymDiff(Content(m, i), X) ELSE Content(a, q)
  <2>1. CASE X # {} /\ ch = XorRow(i, X)
    <3>1. X \in (SUBSET (0..c)) \ {{}} /\ k = Changed(a, XorRow(i, X), log)
      BY <2>1
    <3> HIDE DEF k
    <3> QED BY <1>1, <1>2, <1>3, <3>1, RowAdds
  <2>2. CASE \E b \in (0..(n - 1)) \ rows : ch = XorRowtoRow(i, b) /\ Content(m, b) = X
    <3>1. PICK b \in (0..(n - 1)) \ rows : ch = XorRowtoRow(i, b) /\ Content(m, b) = X
      BY <2>2
    <3>2. b # i /\ b \in 0..(n - 1) /\ k = Changed(a, XorRowtoRow(i, b), log)
      BY <3>1
    <3>3. Content(a, b) = X
      BY <1>1, <3>1
    <3> HIDE DEF k
    <3> QED BY <1>1, <1>2, <1>3, <3>2, <3>3, RowToRowAdds
  <2> QED BY <2>1, <2>2 DEF AddsTo
<1> HIDE DEF k
<1>5. ASSUME NEW q \in 0..(n - 1)
      PROVE  Content(k, q) = IF q \in rows /\ q < i + 1 THEN SymDiff(Content(m, q), X)
                             ELSE Content(m, q)
  <2>1. q \in Int /\ (q < i + 1 <=> q < i \/ q = i)
    BY <1>2
  <2> QED BY <1>1, <1>4, <2>1
<1>6. AddedUpTo(k, m, rows, X, i + 1, n, c)
  BY <1>1, <1>4, <1>5 DEF AddedUpTo
<1> QED BY <1>6 DEF k

\* Every change adds X to its row.
AllAdd(change, m, rows, X, n, c) ==
    DOMAIN change = rows /\ \A r \in rows : AddsTo(change[r], m, r, X, rows, n, c)

\* k is m with X added to the rows.
SumsOf(k, m, rows, X, n, c) ==
    /\ Shaped(k, n, c) /\ k.updateRows = m.updateRows /\ k.updatePivot = m.updatePivot
    /\ \A q \in 0..(n - 1) : Content(k, q) = IF q \in rows THEN SymDiff(Content(m, q), X)
                                             ELSE Content(m, q)

\* All of them.
LEMMA AddsAll ==
    ASSUME NEW n \in Nat, NEW c \in Nat, n <= c, NEW m, Shaped(m, n, c),
           NEW rows \in SUBSET (0..(n - 1)), NEW X \in SUBSET (0..c), NEW change, NEW log,
           AllAdd(change, m, rows, X, n, c)
    PROVE  SumsOf(InOrder(m, change, log), m, rows, X, n, c)
<1> DEFINE k == InOrder(m, change, log)
<1>0. DOMAIN change = rows /\ \A r \in rows : AddsTo(change[r], m, r, X, rows, n, c)
  BY DEF AllAdd
<1>1. m.columns = c
  BY DEF Shaped, MatrixSet
<1>2. PICK f : /\ f[0] = m /\ f[m.columns + 1] = InOrder(m, change, log)
               /\ \A i \in 0..m.columns :
                     f[i + 1] = IF i \in DOMAIN change THEN Changed(f[i], change[i], log)
                                ELSE f[i]
  BY <1>1, InOrderIs
<1> DEFINE T == {i \in Nat : i <= c + 1 /\ ~ AddedUpTo(f[i], m, rows, X, i, n, c)}
<1>3. AddedUpTo(m, m, rows, X, 0, n, c)
  <2>1. \A q \in 0..(n - 1) : ~ (q < 0)
    OBVIOUS
  <2> QED BY <2>1 DEF AddedUpTo
<1>4. ASSUME NEW i \in 0..c, AddedUpTo(f[i], m, rows, X, i, n, c)
      PROVE  AddedUpTo(f[i + 1], m, rows, X, i + 1, n, c)
  <2>1. CASE i \in rows
    <3>1. f[i + 1] = Changed(f[i], change[i], log)
      BY <1>0, <1>1, <1>2, <2>1
    <3>2. AddsTo(change[i], m, i, X, rows, n, c)
      BY <1>0, <2>1
    <3>3. AddedUpTo(Changed(f[i], change[i], log), m, rows, X, i + 1, n, c)
      BY <1>4, <2>1, <3>2, AddsOne
    <3> QED BY <3>1, <3>3
  <2>2. CASE i \notin rows
    <3>1. f[i + 1] = f[i]
      BY <1>0, <1>1, <1>2, <2>2
    <3>2. \A q \in 0..(n - 1) : q \in rows /\ q < i <=> q \in rows /\ q < i + 1
      <4>1. TAKE q \in 0..(n - 1)
      <4>2. q \in rows => q # i
        BY <2>2
      <4>3. q \in Int /\ i \in Int
        OBVIOUS
      <4> QED BY <4>2, <4>3
    <3> QED BY <1>4, <3>1, <3>2 DEF AddedUpTo
  <2> QED BY <2>1, <2>2
<1>5. T = {}
  <2>1. SUFFICES ASSUME T # {} PROVE FALSE
    OBVIOUS
  <2>2. PICK i \in T : \A j \in T : i <= j
    <3>1. T \in SUBSET Nat
      OBVIOUS
    <3> HIDE DEF T
    <3> QED BY <2>1, <3>1, LeastIndex
  <2>3. i \in Nat /\ i <= c + 1 /\ ~ AddedUpTo(f[i], m, rows, X, i, n, c) /\ i # 0
    BY <1>2, <1>3
  <2>4. i - 1 \in 0..c /\ i - 1 \in Nat /\ i - 1 <= c + 1 /\ ~ (i <= i - 1) /\ (i - 1) + 1 = i
    BY <2>3
  <2>5. i - 1 \notin T
    BY <2>2, <2>4
  <2>6. AddedUpTo(f[i - 1], m, rows, X, i - 1, n, c)
    BY <2>4, <2>5
  <2>7. AddedUpTo(f[(i - 1) + 1], m, rows, X, (i - 1) + 1, n, c)
    BY <1>4, <2>4, <2>6
  <2> QED BY <2>3, <2>4, <2>7
<1>6. AddedUpTo(k, m, rows, X, c + 1, n, c)
  <2>1. c + 1 \in Nat /\ c + 1 <= c + 1
    OBVIOUS
  <2>2. AddedUpTo(f[c + 1], m, rows, X, c + 1, n, c)
    BY <1>5, <2>1
  <2> QED BY <1>1, <1>2, <2>2
<1>7. \A q \in 0..(n - 1) : q < c + 1
  OBVIOUS
<1> HIDE DEF k
<1>8. SumsOf(k, m, rows, X, n, c)
  BY <1>6, <1>7 DEF AddedUpTo, SumsOf
<1> QED BY <1>8 DEF k

\* The first row that waits is a row.
LEMMA FirstWaits ==
    ASSUME NEW n \in Nat, NEW c \in Nat, NEW m \in MatrixSet(n, c), m.updateRows # {}
    PROVE  Min(m.updateRows) \in m.updateRows /\ Min(m.updateRows) \in 0..(n - 1)
<1> DEFINE u == m.updateRows
<1>1. u \in (SUBSET (0..(n - 1))) \ {{}}
  BY DEF MatrixSet
<1>2. u \in SUBSET Nat /\ u # {} /\ u \in SUBSET (0..(n - 1))
  BY <1>1
<1> HIDE DEF u
<1>3. Min(u) \in u /\ Min(u) \in 0..(n - 1)
  BY <1>2, MinIs
<1> QED BY <1>3 DEF u

\* What a turn of EpsilonGauss that does not stop changes.
Turned(k, m, row, n, c) ==
    LET rows == {r \in (0..(n - 1)) \ {row} :
                    ~ IsZeroRow(m, row) /\ Pivot(m, row) \in Content(m, r)}
        pivots == {r \in rows : Pivot(m, row) <= Pivot(m, r)}
    IN  /\ Shaped(k, n, c)
        /\ k.updateRows = (m.updateRows \ {row}) \cup pivots
        /\ k.updatePivot = m.updatePivot \cup pivots
        /\ \A q \in 0..(n - 1) :
              Content(k, q) = IF q \in rows THEN SymDiff(Content(m, q), Content(m, row))
                              ELSE Content(m, q)

\* It changes all other rows that have the pivot of the row.
LEMMA EpsilonGaussTurns ==
    ASSUME NEW n \in Nat, NEW c \in Nat, n <= c, NEW m, Shaped(m, n, c), m.updateRows # {},
           ~ Contradicts(m), NEW log
    PROVE  Turned(EpsilonGauss(m, log), m, Min(m.updateRows), n, c)
<1> DEFINE row == Min(m.updateRows)
           rows == {r \in (0..(n - 1)) \ {row} :
                      ~ IsZeroRow(m, row) /\ Pivot(m, row) \in Content(m, r)}
           pivots == {r \in rows : Pivot(m, row) <= Pivot(m, r)}
           rest == m.updateRows \ {row}
           l == [m EXCEPT !.updateRows = rest]
           change == [r \in rows |-> XorRowtoRow(r, row)]
           k == InOrder(l, change, log)
<1>1. m \in MatrixSet(n, c) /\ Rows(m) = 0..(n - 1)
  BY MatrixFacts DEF Shaped
<1>2. row \in m.updateRows /\ row \in 0..(n - 1)
  BY <1>1, FirstWaits
<1>3. ~ IsContradiction(m, row) /\ Broken(m, row) = {}
  BY DEF Contradicts
<1> HIDE DEF row
<1>4. Eliminable(m, row) = rows
  BY <1>1, <1>3 DEF Eliminable
<1>5. {r \in Eliminable(m, row) : \A b \in Broken(m, row) : r <= b} = rows
  BY <1>3, <1>4
<1>6. EpsilonGauss(m, log) = Touch(k, pivots, TRUE)
  BY <1>5 DEF EpsilonGauss, row
<1>7. rows \in SUBSET (0..(n - 1)) /\ row \notin rows /\ pivots \in SUBSET (0..(n - 1))
  OBVIOUS
<1>8. rest \in SUBSET (0..(n - 1))
  BY <1>1 DEF MatrixSet
<1>9. DOMAIN change = rows /\ \A r \in rows : change[r] = XorRowtoRow(r, row)
  OBVIOUS
<1> HIDE DEF rest, rows, pivots, change
<1>10. l \in MatrixSet(n, c)
  BY <1>1, <1>8 DEF MatrixSet
<1>11. Same(l, m) /\ Same(m, l) /\ l.updateRows = rest /\ l.updatePivot = m.updatePivot
  BY <1>1 DEF MatrixSet, Same
<1> HIDE DEF l
<1>12. Shaped(l, n, c)
  BY <1>10, <1>11, SameShaped
<1>13. \A r : Content(l, r) = Content(m, r)
  BY <1>11, SameContent
<1>14. Content(m, row) \in SUBSET (0..c)
  BY <1>1, <1>2, MatrixFacts
<1> DEFINE X == Content(m, row)
<1>15. AllAdd(change, l, rows, X, n, c)
  <2>1. \A r \in rows : AddsTo(change[r], l, r, X, rows, n, c)
    BY <1>2, <1>7, <1>9, <1>13 DEF AddsTo
  <2> QED BY <1>9, <2>1 DEF AllAdd
<1>16. X \in SUBSET (0..c) /\ rows \in SUBSET (0..(n - 1))
  BY <1>7, <1>14
<1> HIDE DEF X
<1>17. SumsOf(k, l, rows, X, n, c)
  BY <1>12, <1>15, <1>16, AddsAll
<1> HIDE DEF k
<1> DEFINE t == Touch(k, pivots, TRUE)
           u == k.updateRows \cup pivots
           v == k.updatePivot \cup pivots
<1>18. /\ t = Marked(k, u, v)
       /\ u \in SUBSET (0..(n - 1)) /\ v \in SUBSET (0..(n - 1)) /\ Shaped(k, n, c)
  BY <1>7, <1>17 DEF Touch, Marked, SumsOf, Shaped, MatrixSet
<1> HIDE DEF t, u, v
<1>19. /\ Shaped(t, n, c) /\ \A r : Content(t, r) = Content(k, r)
       /\ t.updateRows = u /\ t.updatePivot = v
  BY <1>18, MarksAre
<1>20. \A q \in 0..(n - 1) : Content(t, q) = IF q \in rows THEN SymDiff(Content(m, q), X)
                                             ELSE Content(m, q)
  BY <1>13, <1>17, <1>19 DEF SumsOf
<1>21. t.updateRows = (m.updateRows \ {row}) \cup pivots
  BY <1>11, <1>17, <1>19 DEF rest, u, SumsOf
<1>22. t.updatePivot = m.updatePivot \cup pivots
  BY <1>11, <1>17, <1>19 DEF v, SumsOf
<1>23. Turned(t, m, row, n, c)
  BY <1>19, <1>20, <1>21, <1>22 DEF Turned, rows, pivots, X
<1> QED BY <1>6, <1>23 DEF t, row

\* After a turn the row it was for, and all rows that did not wait, are eliminated.
LEMMA TurnedPending ==
    ASSUME NEW n \in Nat, NEW c \in Nat, NEW m, Shaped(m, n, c), Pending(m),
           NEW row \in 0..(n - 1), row \in m.updateRows, ~ IsContradiction(m, row),
           NEW k, Turned(k, m, row, n, c)
    PROVE  Pending(k)
<1> DEFINE R == 0..(n - 1)
           rows == {r \in R \ {row} : ~ IsZeroRow(m, row) /\ Pivot(m, row) \in Content(m, r)}
           pivots == {r \in rows : Pivot(m, row) <= Pivot(m, r)}
<1>1. /\ Shaped(k, n, c)
      /\ k.updateRows = (m.updateRows \ {row}) \cup pivots
      /\ k.updatePivot = m.updatePivot \cup pivots
      /\ \A q \in R : Content(k, q) = IF q \in rows THEN SymDiff(Content(m, q), Content(m, row))
                                      ELSE Content(m, q)
  BY DEF Turned
<1>2. Rows(m) = R /\ Rows(k) = R
  BY <1>1, MatrixFacts DEF Shaped
<1>3. m.columns = c /\ k.columns = c
  BY <1>1 DEF Shaped, MatrixSet
<1>4. /\ Content(m, row) \in SUBSET (0..c) /\ \A x \in Content(m, row) : Pivot(m, row) <= x
      /\ ~ IsZeroRow(m, row) => Pivot(m, row) \in Content(m, row)
      /\ Pivot(m, row) \in 0..(c + 1)
  BY PivotOfRow
<1>5. \A q \in rows : q \in R /\ q # row /\ ~ IsZeroRow(m, row) /\ Pivot(m, row) \in Content(m, q)
  OBVIOUS
<1>6. ASSUME NEW q \in R, q \notin pivots
      PROVE  Pivot(k, q) = Pivot(m, q)
  <2>1. Pivot(m, q) \in 0..(c + 1) /\ Pivot(m, q) = ComputePivot(m, Content(m, q))
    BY PivotOfRow
  <2>2. Pivot(k, q) = ComputePivot(k, Content(k, q))
    BY <1>1, PivotOfRow
  <2>3. CASE q \notin rows
    <3>1. Content(k, q) = Content(m, q)
      BY <1>1, <2>3
    <3> QED BY <1>3, <2>1, <2>2, <3>1, PivotSame
  <2>4. CASE q \in rows
    <3>1. Pivot(m, q) < Pivot(m, row)
      BY <1>4, <1>6, <2>1, <2>4
    <3>2. \A x \in Content(m, row) : Pivot(m, q) < x
      <4>1. TAKE x \in Content(m, row)
      <4>2. Pivot(m, row) <= x /\ x \in Int /\ Pivot(m, row) \in Int /\ Pivot(m, q) \in Int
        BY <1>4, <2>1
      <4> QED BY <3>1, <4>2
    <3>3. Content(k, q) = SymDiff(Content(m, q), Content(m, row))
      BY <1>1, <2>4
    <3> QED BY <1>1, <1>4, <3>2, <3>3, PivotStays
  <2> QED BY <2>3, <2>4
<1>7. SortedOn(k, Rows(k) \ k.updatePivot)
  <2>1. SUFFICES ASSUME NEW q \in R \ k.updatePivot, NEW r \in R \ k.updatePivot, q < r
                 PROVE  Pivot(k, q) <= Pivot(k, r)
    BY <1>2 DEF SortedOn
  <2>2. /\ q \in R \ m.updatePivot /\ r \in R \ m.updatePivot
        /\ q \notin pivots /\ r \notin pivots
    BY <1>1
  <2>3. Pivot(m, q) <= Pivot(m, r)
    BY <1>2, <2>1, <2>2 DEF Pending, SortedOn
  <2> HIDE DEF pivots
  <2> QED BY <1>6, <2>2, <2>3
<1>8. ASSUME NEW p \in R \ k.updateRows, ~ IsZeroRow(k, p)
      PROVE  /\ ~ IsContradiction(k, p)
             /\ \A q \in R : q # p => Pivot(k, p) \notin Content(k, q)
  <2>1. p \in R /\ p \notin pivots /\ (p = row \/ p \notin m.updateRows)
    BY <1>1, <1>8
  <2>2. Pivot(k, p) = Pivot(m, p)
    BY <1>6, <2>1
  <2>3. /\ IsZeroRow(m, p) <=> IsZeroRow(k, p)
        /\ IsContradiction(m, p) <=> IsContradiction(k, p)
    BY <1>3, <2>2 DEF IsZeroRow, IsContradiction, NOPIVOT, RHS
  <2>4. CASE p = row
    <3>1. ~ IsContradiction(k, p)
      BY <2>3, <2>4
    <3>2. ASSUME NEW q \in R, q # p
          PROVE  Pivot(m, row) \notin Content(k, q)
      <4>1. Pivot(m, row) \in Content(m, row)
        BY <1>4, <1>8, <2>3, <2>4
      <4>2. q \in rows <=> Pivot(m, row) \in Content(m, q)
        BY <1>8, <2>3, <2>4, <3>2
      <4>3. q \in rows => Content(k, q) = SymDiff(Content(m, q), Content(m, row))
        BY <1>1
      <4>4. q \notin rows => Content(k, q) = Content(m, q)
        BY <1>1
      <4> HIDE DEF rows
      <4> QED BY <4>1, <4>2, <4>3, <4>4 DEF SymDiff
    <3> QED BY <2>2, <2>4, <3>1, <3>2
  <2>5. CASE p # row
    <3>1. /\ ~ IsContradiction(m, p)
          /\ \A q \in R : q # p => Pivot(m, p) \notin Content(m, q)
      BY <1>2, <1>8, <2>1, <2>3, <2>5 DEF Pending, Eliminated
    <3>2. Pivot(m, p) \notin Content(m, row)
      BY <2>5, <3>1
    <3>3. ASSUME NEW q \in R, q # p PROVE Pivot(m, p) \notin Content(k, q)
      <4>1. Pivot(m, p) \notin Content(m, q)
        BY <3>1, <3>3
      <4>2. Content(k, q) = SymDiff(Content(m, q), Content(m, row))
               \/ Content(k, q) = Content(m, q)
        BY <1>1
      <4> QED BY <3>2, <4>1, <4>2 DEF SymDiff
    <3> QED BY <2>2, <2>3, <3>1, <3>3
  <2> QED BY <2>4, <2>5
<1>9. Eliminated(k, Rows(k) \ k.updateRows)
  BY <1>2, <1>8 DEF Eliminated
<1> QED BY <1>7, <1>9 DEF Pending

\* A turn of EpsilonGauss that does not stop.
LEMMA EpsilonGaussPending ==
    ASSUME NEW n \in Nat, NEW c \in Nat, n <= c, NEW m, Shaped(m, n, c), Pending(m),
           m.updateRows # {}, ~ Contradicts(m), NEW log
    PROVE  Pending(EpsilonGauss(m, log))
<1> DEFINE row == Min(m.updateRows)
           k == EpsilonGauss(m, log)
<1>1. row \in m.updateRows /\ row \in 0..(n - 1)
  BY FirstWaits DEF Shaped
<1>2. ~ IsContradiction(m, row)
  BY DEF Contradicts
<1>3. Turned(k, m, row, n, c)
  BY EpsilonGaussTurns
<1> HIDE DEF row, k
<1>4. Pending(k)
  BY <1>1, <1>2, <1>3, TurnedPending
<1> QED BY <1>4 DEF k

\* Adding an equation whose first column is the pivot of no row: the pivots stay, and the
\* rows whose pivot is in the equation wait.
LEMMA SubstitutePending ==
    ASSUME NEW n \in Nat, NEW c \in Nat, n <= c, NEW m, Shaped(m, n, c), Settled(m),
           NEW E \in (SUBSET (0..c)) \ {{}}, ~ HasPivot(m, Min(E)), NEW log,
           NEW k, k = Substitute(m, RowOf(m, Min(E)), E, log)
    PROVE  Pending(k) /\ k.updatePivot = {}
<1> DEFINE R == 0..(n - 1)
           first == Min(E)
           bound == RowOf(m, first)
           rows == {r \in 0..bound : first \in Content(m, r)}
           change == [r \in rows |-> XorRow(r, E)]
           sums == InOrder(m, change, log)
           U == {RowOf(sums, x) : x \in {d \in E \ {first} : HasPivot(sums, d)}}
<1>1. /\ m \in MatrixSet(n, c) /\ Rows(m) = R /\ m.updateRows = {} /\ m.updatePivot = {}
      /\ SortedOn(m, Rows(m)) /\ Eliminated(m, Rows(m))
  BY MatrixFacts DEF Shaped, Settled, Pending
<1>2. first \in E /\ first \in 0..c /\ \A x \in E : first <= x
  BY MinIn
<1>3. k = Touch(sums, U, FALSE)
  BY DEF Substitute
<1> HIDE DEF first
<1>4. /\ \A r \in R : Pivot(m, r) <= first <=> r <= bound
      /\ \A r \in R : Pivot(m, r) # first
  BY <1>1, <1>2, BoundOfSorted DEF first
<1>5. bound \in -1..(n - 1)
  BY <1>1, RowOfIs
<1> HIDE DEF bound
<1>6. \A r \in R : /\ Pivot(m, r) \in 0..(c + 1)
                   /\ \A x \in Content(m, r) : Pivot(m, r) <= x
  BY PivotOfRow
<1>7. rows \in SUBSET R
  BY <1>5
<1>8. \A r \in R : r \in rows <=> first \in Content(m, r)
  <2>1. TAKE r \in R
  <2>2. first \in Content(m, r) => r <= bound
    BY <1>4, <1>6
  <2>3. r <= bound => r \in 0..bound
    BY <1>5
  <2> QED BY <2>2, <2>3
<1>9. AllAdd(change, m, rows, E, n, c)
  BY DEF AllAdd, AddsTo
<1> HIDE DEF rows, change
<1>10. SumsOf(sums, m, rows, E, n, c)
  BY <1>7, <1>9, AddsAll
<1> HIDE DEF sums
<1>11. /\ Shaped(sums, n, c) /\ sums \in MatrixSet(n, c)
       /\ sums.updateRows = {} /\ sums.updatePivot = {} /\ Rows(sums) = R
  BY <1>1, <1>10, MatrixFacts DEF SumsOf, Shaped
<1>12. ASSUME NEW q \in R PROVE Pivot(sums, q) = Pivot(m, q)
  <2>1. CASE q \in rows
    <3>1. Pivot(m, q) <= first /\ Pivot(m, q) # first /\ Pivot(m, q) \in Int
      BY <1>4, <1>6, <1>8, <2>1
    <3>2. \A x \in E : Pivot(m, q) < x
      <4>1. TAKE x \in E
      <4>2. first <= x /\ x \in Int /\ first \in Int
        BY <1>2
      <4> QED BY <3>1, <4>2
    <3>3. Content(sums, q) = SymDiff(Content(m, q), E)
      BY <1>10, <2>1 DEF SumsOf
    <3> QED BY <1>11, <3>2, <3>3, PivotStays
  <2>2. CASE q \notin rows
    <3>1. Content(sums, q) = Content(m, q)
      BY <1>10, <2>2 DEF SumsOf
    <3>2. sums.columns = m.columns
      BY <1>1, <1>11 DEF MatrixSet
    <3>3. /\ Pivot(sums, q) = ComputePivot(sums, Content(sums, q))
          /\ Pivot(m, q) = ComputePivot(m, Content(m, q))
      BY <1>11, PivotOfRow
    <3> QED BY <3>1, <3>2, <3>3, PivotSame
  <2> QED BY <2>1, <2>2
<1>13. SortedOn(sums, Rows(sums))
  BY <1>1, <1>11, <1>12 DEF SortedOn
<1>14. U \in SUBSET R
  BY <1>11, RowOfIs
<1>15. ASSUME NEW p \in R \ U, ~ IsZeroRow(m, p) PROVE Pivot(m, p) \notin E
  <2>1. SUFFICES ASSUME Pivot(m, p) \in E PROVE FALSE
    OBVIOUS
  <2> DEFINE x == Pivot(m, p)
             l == RowOf(sums, x)
  <2>2. x \in 0..c /\ x # first /\ Pivot(sums, p) = x
    BY <1>4, <1>12, <2>1
  <2> HIDE DEF x
  <2>3. HasPivot(sums, x)
    BY <1>11, <1>13, <2>2, BoundOfSorted
  <2>4. l \in R /\ Pivot(sums, l) = x
    <3>1. l \in -1..(n - 1)
      BY <1>11, RowOfIs
    <3>2. l >= 0 /\ Pivot(sums, l) = x
      BY <2>3 DEF HasPivot
    <3> HIDE DEF l
    <3> QED BY <3>1, <3>2
  <2>5. l \in U
    BY <2>1, <2>2, <2>3 DEF x
  <2> HIDE DEF l, U
  <2>6. Pivot(m, l) = Pivot(m, p)
    BY <1>12, <2>4 DEF x
  <2>7. l # p
    BY <1>15, <2>5
  <2> QED BY <1>1, <1>15, <2>4, <2>6, <2>7, PivotsDiffer
<1> HIDE DEF U
<1>16. k = Marked(sums, U, {}) /\ {} \in SUBSET R
  BY <1>3, <1>11 DEF Touch, Marked
<1>17. /\ Shaped(k, n, c) /\ Same(k, sums) /\ k.updateRows = U /\ k.updatePivot = {}
       /\ \A r : Content(k, r) = Content(sums, r) /\ Pivot(k, r) = Pivot(sums, r)
  <2> DEFINE v == {}
  <2>1. /\ k = Marked(sums, U, v)
        /\ U \in SUBSET (0..(n - 1)) /\ v \in SUBSET (0..(n - 1)) /\ Shaped(sums, n, c)
    BY <1>11, <1>14, <1>16
  <2> HIDE DEF v, U
  <2>2. /\ Shaped(k, n, c) /\ Same(k, sums) /\ k.updateRows = U /\ k.updatePivot = v
        /\ \A r : Content(k, r) = Content(sums, r) /\ Pivot(k, r) = Pivot(sums, r)
    BY <2>1, MarksAre
  <2> QED BY <2>2 DEF v
<1>18. Rows(k) = R /\ k.columns = m.columns
  <2>1. m \in MatrixSet(n, c) /\ k \in MatrixSet(n, c)
    BY <1>17 DEF Shaped
  <2>2. m.columns = c /\ k.columns = c
    BY <2>1 DEF MatrixSet
  <2> QED BY <2>1, <2>2, MatrixFacts
<1>19. SortedOn(k, Rows(k) \ k.updatePivot)
  BY <1>11, <1>13, <1>17, <1>18 DEF SortedOn
<1>20. ASSUME NEW p \in R \ U, ~ IsZeroRow(k, p)
       PROVE  /\ ~ IsContradiction(k, p)
              /\ \A q \in R : q # p => Pivot(k, p) \notin Content(k, q)
  <2>1. Pivot(k, p) = Pivot(m, p)
    BY <1>12, <1>17
  <2>2. /\ IsZeroRow(m, p) <=> IsZeroRow(k, p)
        /\ IsContradiction(m, p) <=> IsContradiction(k, p)
    BY <1>18, <2>1 DEF IsZeroRow, IsContradiction, NOPIVOT, RHS
  <2>3. /\ ~ IsContradiction(m, p)
        /\ \A q \in R : q # p => Pivot(m, p) \notin Content(m, q)
    BY <1>1, <1>20, <2>2 DEF Eliminated
  <2>4. Pivot(m, p) \notin E
    BY <1>15, <1>20, <2>2
  <2>5. \A q \in R : Content(k, q) = SymDiff(Content(m, q), E) \/ Content(k, q) = Content(m, q)
    BY <1>10, <1>17 DEF SumsOf
  <2>6. \A q \in R : q # p => Pivot(m, p) \notin Content(k, q)
    BY <2>3, <2>4, <2>5 DEF SymDiff
  <2> QED BY <2>1, <2>2, <2>3, <2>6
<1>21. Eliminated(k, Rows(k) \ k.updateRows)
  BY <1>17, <1>18, <1>20 DEF Eliminated
<1> QED BY <1>17, <1>19, <1>21 DEF Pending

\* One change at most.
LEMMA InOrderOne ==
    ASSUME NEW c \in Nat, NEW m, m.columns = c, NEW d \in 0..c, NEW change,
           DOMAIN change \in SUBSET {d}, NEW log
    PROVE  InOrder(m, change, log) = IF d \in DOMAIN change THEN Changed(m, change[d], log) ELSE m
<1> DEFINE k == IF d \in DOMAIN change THEN Changed(m, change[d], log) ELSE m
<1>1. PICK f : /\ f[0] = m /\ f[m.columns + 1] = InOrder(m, change, log)
               /\ \A i \in 0..m.columns :
                     f[i + 1] = IF i \in DOMAIN change THEN Changed(f[i], change[i], log)
                                ELSE f[i]
  BY InOrderIs
<1> DEFINE Right(i) == f[i] = IF i <= d THEN m ELSE k
           T == {i \in Nat : i <= c + 1 /\ ~ Right(i)}
<1>2. Right(0)
  BY <1>1
<1>3. ASSUME NEW i \in 0..c, Right(i) PROVE Right(i + 1)
  <2>1. f[i + 1] = IF i \in DOMAIN change THEN Changed(f[i], change[i], log) ELSE f[i]
    BY <1>1
  <2>2. CASE i = d
    <3>1. i <= d /\ ~ (i + 1 <= d)
      BY <2>2
    <3> QED BY <1>3, <2>1, <2>2, <3>1
  <2>3. CASE i # d
    <3>1. i \notin DOMAIN change
      BY <2>3
    <3>2. i <= d <=> i + 1 <= d
      BY <2>3
    <3>3. f[i + 1] = f[i]
      BY <2>1, <3>1
    <3> HIDE DEF k
    <3> QED BY <1>3, <3>2, <3>3
  <2> QED BY <2>2, <2>3
<1> HIDE DEF k
<1>4. T = {}
  <2>1. SUFFICES ASSUME T # {} PROVE FALSE
    OBVIOUS
  <2>2. PICK i \in T : \A j \in T : i <= j
    <3>1. T \in SUBSET Nat
      OBVIOUS
    <3> HIDE DEF T
    <3> QED BY <2>1, <3>1, LeastIndex
  <2>3. i \in Nat /\ i <= c + 1 /\ ~ Right(i) /\ i # 0
    BY <1>2
  <2>4. i - 1 \in 0..c /\ i - 1 \in Nat /\ i - 1 <= c + 1 /\ ~ (i <= i - 1) /\ (i - 1) + 1 = i
    BY <2>3
  <2>5. Right(i - 1)
    BY <2>2, <2>4
  <2>6. Right((i - 1) + 1)
    BY <1>3, <2>4, <2>5
  <2> QED BY <2>3, <2>4, <2>6
<1>5. Right(c + 1)
  <2>1. c + 1 \in Nat /\ c + 1 <= c + 1
    OBVIOUS
  <2> QED BY <1>4, <2>1
<1>6. ~ (c + 1 <= d)
  OBVIOUS
<1> QED BY <1>1, <1>5, <1>6 DEF k

\* In a settled matrix all rows are sorted and eliminated.
LEMMA SettledIs ==
    ASSUME NEW n, NEW c, NEW m, Shaped(m, n, c)
    PROVE  Settled(m) <=> /\ SortedOn(m, 0..(n - 1)) /\ Eliminated(m, 0..(n - 1))
                          /\ m.updateRows = {} /\ m.updatePivot = {}
<1>1. Rows(m) = 0..(n - 1)
  BY MatrixFacts DEF Shaped
<1>2. ASSUME m.updateRows = {}, m.updatePivot = {}
      PROVE  Rows(m) \ m.updateRows = 0..(n - 1) /\ Rows(m) \ m.updatePivot = 0..(n - 1)
  BY <1>1, <1>2
<1> QED BY <1>2 DEF Settled, Pending

\* The row that has been replaced waits, and every other row is as it was.
Replaced(k, m, row, n, c) ==
    /\ Shaped(k, n, c) /\ k.updateRows = {row} /\ k.updatePivot = {row}
    /\ \A q \in 0..(n - 1) : q # row => /\ Content(k, q) = Content(m, q)
                                        /\ Pivot(k, q) = Pivot(m, q)

\* If the replaced row has none of the other pivots, the other rows are eliminated.
LEMMA ReplacedPending ==
    ASSUME NEW n \in Nat, NEW c \in Nat, NEW m, Shaped(m, n, c), Settled(m),
           NEW row \in 0..(n - 1), NEW k, Replaced(k, m, row, n, c),
           \A p \in 0..(n - 1) : p # row /\ ~ IsZeroRow(m, p) =>
                                    Pivot(m, p) \notin Content(k, row)
    PROVE  Pending(k)
<1> DEFINE R == 0..(n - 1)
<1>1. /\ Rows(m) = R /\ Rows(k) = R /\ m.columns = c /\ k.columns = c
      /\ SortedOn(m, R) /\ Eliminated(m, R)
  <2>1. m \in MatrixSet(n, c) /\ k \in MatrixSet(n, c)
    BY DEF Replaced, Shaped
  <2>2. Rows(m) = R /\ Rows(k) = R
    BY <2>1, MatrixFacts
  <2>3. m.columns = c /\ k.columns = c
    BY <2>1 DEF MatrixSet
  <2> QED BY <2>2, <2>3, SettledIs
<1>2. /\ k.updateRows = {row} /\ k.updatePivot = {row}
      /\ \A q \in R : q # row => Content(k, q) = Content(m, q) /\ Pivot(k, q) = Pivot(m, q)
  BY DEF Replaced
<1>3. SortedOn(k, Rows(k) \ k.updatePivot)
  BY <1>1, <1>2 DEF SortedOn
<1>4. ASSUME NEW p \in R, p # row, ~ IsZeroRow(k, p)
      PROVE  /\ ~ IsContradiction(k, p)
             /\ \A q \in R : q # p => Pivot(k, p) \notin Content(k, q)
  <2>1. Pivot(k, p) = Pivot(m, p)
    BY <1>2, <1>4
  <2>2. /\ IsZeroRow(m, p) <=> IsZeroRow(k, p)
        /\ IsContradiction(m, p) <=> IsContradiction(k, p)
    BY <1>1, <2>1 DEF IsZeroRow, IsContradiction, NOPIVOT, RHS
  <2>3. /\ ~ IsContradiction(m, p)
        /\ \A q \in R : q # p => Pivot(m, p) \notin Content(m, q)
    BY <1>1, <1>4, <2>2 DEF Eliminated
  <2>4. \A q \in R : q # p => Pivot(m, p) \notin Content(k, q)
    BY <1>2, <1>4, <2>2, <2>3
  <2> QED BY <2>1, <2>2, <2>3, <2>4
<1>5. Eliminated(k, Rows(k) \ k.updateRows)
  BY <1>1, <1>2, <1>4 DEF Eliminated
<1> QED BY <1>3, <1>5 DEF Pending

\* Only the second column of a bit can be added back.
AddedBack(sum, row, E) ==
    {x \in E \ {Min(E)} : HasPivot(sum, x) /\ RowOf(sum, x) # row}

\* The row of the only column d that may be left, once the row has been replaced.
LEMMA RowOfOther ==
    ASSUME NEW n \in Nat, NEW c \in Nat, NEW m, Shaped(m, n, c), Settled(m),
           NEW row \in 0..(n - 1), ~ IsZeroRow(m, row), NEW sum, Shaped(sum, n, c),
           \A q \in 0..(n - 1) : q # row => Pivot(sum, q) = Pivot(m, q),
           NEW p \in 0..(n - 1), p # row, ~ IsZeroRow(m, p),
           Pivot(m, row) <= Pivot(m, p), Pivot(m, p) \in Content(sum, row)
    PROVE  RowOf(sum, Pivot(m, p)) = p /\ Pivot(sum, p) = Pivot(m, p)
<1> DEFINE R == 0..(n - 1)
           d == Pivot(m, p)
<1>1. SortedOn(m, R) /\ Eliminated(m, R)
  BY SettledIs
<1>2. \A r \in R : Pivot(m, r) \in Int /\ Pivot(sum, r) \in Int
  BY PivotOfRow
<1>3. \A r \in R : r # p => Pivot(m, r) # d
  BY <1>1, PivotsDiffer
<1>4. Pivot(sum, row) <= d
  BY PivotOfRow
<1>5. Pivot(sum, p) = d
  OBVIOUS
<1>6. \A q, r \in R : q < r => Pivot(m, q) <= Pivot(m, r)
  BY <1>1 DEF SortedOn
<1> HIDE DEF d
<1>7. ASSUME NEW r \in R
      PROVE  Pivot(m, r) <= d <=> r <= p
  <2>1. r < p \/ r = p \/ p < r
    OBVIOUS
  <2>2. CASE r < p
    BY <1>6, <2>2 DEF d
  <2>3. CASE r = p
    BY <1>2, <2>3 DEF d
  <2>4. CASE p < r
    <3>1. d <= Pivot(m, r) /\ Pivot(m, r) # d /\ d \in Int /\ Pivot(m, r) \in Int
      BY <1>2, <1>3, <1>6, <2>4 DEF d
    <3>2. ~ (r <= p)
      BY <2>4
    <3> QED BY <3>1, <3>2
  <2> QED BY <2>1, <2>2, <2>3, <2>4
<1>8. \A r \in R : Pivot(sum, r) <= d <=> r <= p
  <2>1. row <= p
    BY <1>7 DEF d
  <2> QED BY <1>4, <1>7, <2>1
<1>9. sum \in MatrixSet(n, c)
  BY DEF Shaped
<1>10. RowOf(sum, d) = p
  BY <1>8, <1>9, BoundIs
<1> QED BY <1>5, <1>10 DEF d

\* Adding an equation whose first column is the pivot of a row: that row waits.
LEMMA ReplaceRowPending ==
    ASSUME NEW n \in Nat, NEW c \in Nat, NEW m, Shaped(m, n, c), Settled(m),
           NEW E \in (SUBSET (0..c)) \ {{}}, HasPivot(m, Min(E)), Min(E) < c,
           NEW d \in 0..(c - 1), E \ {Min(E)} \in SUBSET {d, c}, NEW log,
           NEW row, row = RowOf(m, Min(E)), NEW k, k = ReplaceRow(m, row, E, log)
    PROVE  Pending(k) /\ k.updateRows # {}
<1> DEFINE R == 0..(n - 1)
           first == Min(E)
           sum == Changed(m, XorRow(row, E), log)
           again == AddedBack(sum, row, E)
           change == [x \in again |-> XorRowtoRow(row, RowOf(sum, x))]
           sums == InOrder(sum, change, log)
<1>1. m \in MatrixSet(n, c) /\ m.columns = c
  BY DEF Shaped, MatrixSet
<1>2. SortedOn(m, R) /\ Eliminated(m, R) /\ m.updateRows = {} /\ m.updatePivot = {}
  BY SettledIs
<1>3. row \in R /\ Pivot(m, row) = first
  BY <1>1, RowOfIs
<1>4. first \in E /\ first \in 0..c /\ \A x \in E : first <= x
  BY MinIn
<1>5. k = Touch(sums, {row}, TRUE)
  BY DEF ReplaceRow, AddedBack
<1>6. again \in SUBSET E /\ \A x \in again : HasPivot(sum, x) /\ RowOf(sum, x) # row /\ x # first
  BY DEF AddedBack
<1>7. DOMAIN change = again /\ \A x \in again : change[x] = XorRowtoRow(row, RowOf(sum, x))
  OBVIOUS
<1>8. \A x \in E : x # first /\ HasPivot(sum, x) /\ RowOf(sum, x) # row => x \in again
  BY DEF AddedBack
<1> HIDE DEF first
<1>9. /\ Shaped(sum, n, c) /\ sum.updateRows = {} /\ sum.updatePivot = {}
      /\ Content(sum, row) = SymDiff(Content(m, row), E)
      /\ \A q \in R : q # row => /\ Content(sum, q) = Content(m, q)
                                 /\ Pivot(sum, q) = Pivot(m, q)
  <2>1. /\ Shaped(sum, n, c) /\ sum.updateRows = m.updateRows /\ sum.updatePivot = m.updatePivot
        /\ \A q \in 0..(n - 1) :
              /\ Content(sum, q) = IF q = row THEN SymDiff(Content(m, row), E)
                                   ELSE Content(m, q)
              /\ q # row => Pivot(sum, q) = Pivot(m, q)
    BY <1>3, RowAdds
  <2> HIDE DEF sum
  <2> QED BY <1>2, <1>3, <2>1
<1> HIDE DEF sum, again, change
<1>10. sum \in MatrixSet(n, c) /\ sum.columns = c
  BY <1>9 DEF Shaped, MatrixSet
<1>11. \A x \in again : RowOf(sum, x) \in R /\ Pivot(sum, RowOf(sum, x)) = x
  BY <1>6, <1>10, RowOfIs
<1>12. \A r \in R : IsContradiction(m, r) <=> Pivot(m, r) = c
  BY PivotOfRow
<1>13. \A r \in R : IsZeroRow(m, r) <=> Pivot(m, r) = c + 1
  BY PivotOfRow
<1>14. \A x \in E : x # first => x = d \/ x = c
  BY DEF first
<1>15. again \in SUBSET {d}
  <2>1. SUFFICES ASSUME c \in again PROVE FALSE
    BY <1>6, <1>14
  <2> DEFINE l == RowOf(sum, c)
  <2>2. l \in R /\ l # row /\ Pivot(sum, l) = c
    BY <1>6, <1>11, <2>1
  <2> HIDE DEF l
  <2>3. Pivot(m, l) = c
    BY <1>9, <2>2
  <2>4. c # c + 1
    OBVIOUS
  <2>5. IsContradiction(m, l) /\ ~ IsZeroRow(m, l)
    BY <1>12, <1>13, <2>2, <2>3, <2>4
  <2>6. Rows(m) = R
    BY <1>1, MatrixFacts
  <2> QED BY <1>2, <2>2, <2>5, <2>6 DEF Eliminated
<1>16. sums = IF d \in again THEN Changed(sum, XorRowtoRow(row, RowOf(sum, d)), log) ELSE sum
  <2>1. d \in 0..c /\ DOMAIN change \in SUBSET {d}
    BY <1>7, <1>15
  <2>2. sums = IF d \in DOMAIN change THEN Changed(sum, change[d], log) ELSE sum
    BY <1>10, <2>1, InOrderOne
  <2> QED BY <1>7, <2>2
<1> HIDE DEF sums
<1>17. /\ Shaped(sums, n, c) /\ sums.updateRows = {} /\ sums.updatePivot = {}
       /\ Content(sums, row) = IF d \in again
                               THEN SymDiff(Content(sum, row), Content(sum, RowOf(sum, d)))
                               ELSE Content(sum, row)
       /\ \A q \in R : q # row => /\ Content(sums, q) = Content(m, q)
                                  /\ Pivot(sums, q) = Pivot(m, q)
  <2>1. CASE d \notin again
    BY <1>9, <1>16, <2>1
  <2>2. CASE d \in again
    <3> DEFINE l == RowOf(sum, d)
    <3>1. l \in R /\ l # row /\ sums = Changed(sum, XorRowtoRow(row, l), log)
      BY <1>6, <1>11, <1>16, <2>2
    <3> HIDE DEF l
    <3>2. /\ Shaped(sums, n, c)
          /\ sums.updateRows = sum.updateRows /\ sums.updatePivot = sum.updatePivot
          /\ \A q \in 0..(n - 1) :
                /\ Content(sums, q) = IF q = row THEN SymDiff(Content(sum, row), Content(sum, l))
                                      ELSE Content(sum, q)
                /\ q # row => Pivot(sums, q) = Pivot(sum, q)
      BY <1>3, <1>9, <3>1, RowToRowAdds
    <3>3. Content(sums, row) = SymDiff(Content(sum, row), Content(sum, l))
      BY <1>3, <3>2
    <3>4. \A q \in R : q # row => /\ Content(sums, q) = Content(m, q)
                                  /\ Pivot(sums, q) = Pivot(m, q)
      BY <1>9, <3>2
    <3> QED BY <1>9, <2>2, <3>2, <3>3, <3>4 DEF l
  <2> QED BY <2>1, <2>2
<1>18. Replaced(k, m, row, n, c) /\ Content(k, row) = Content(sums, row)
       /\ k.updateRows = {row}
  <2> DEFINE u == {row}
  <2>1. u \in SUBSET (0..(n - 1)) /\ Shaped(sums, n, c) /\ k = Marked(sums, u, u)
    BY <1>3, <1>5, <1>17 DEF Touch, Marked
  <2> HIDE DEF u
  <2>2. /\ Shaped(k, n, c) /\ k.updateRows = u /\ k.updatePivot = u
        /\ \A r : Content(k, r) = Content(sums, r) /\ Pivot(k, r) = Pivot(sums, r)
    BY <2>1, MarksAre
  <2> QED BY <1>17, <2>2 DEF Replaced, u
<1>19. ASSUME NEW p \in R, p # row, ~ IsZeroRow(m, p)
       PROVE  Pivot(m, p) \notin Content(k, row)
  <2> DEFINE x == Pivot(m, p)
  <2>1. /\ ~ IsContradiction(m, p)
        /\ \A q \in R : q # p => x \notin Content(m, q)
    <3>1. Rows(m) = R
      BY <1>1, MatrixFacts
    <3> QED BY <1>2, <1>19, <3>1 DEF Eliminated
  <2>2. x \notin Content(m, row) /\ x # c
    BY <1>3, <1>12, <1>19, <2>1
  <2>3. x # first
    BY <1>2, <1>3, <1>19, PivotsDiffer
  <2>4. CASE x \notin E
    <3>1. x \notin Content(sum, row)
      BY <1>9, <2>2, <2>4 DEF SymDiff
    <3>2. d \in again => x \notin Content(sum, RowOf(sum, d))
      <4>1. HAVE d \in again
      <4> DEFINE l == RowOf(sum, d)
      <4>2. l \in R /\ Pivot(sum, l) = d /\ l # row /\ d \in E
        BY <1>6, <1>11, <4>1
      <4> HIDE DEF l, x
      <4>3. Pivot(m, l) = d /\ Content(sum, l) = Content(m, l)
        BY <1>9, <4>2
      <4>4. l # p
        BY <2>4, <4>2, <4>3 DEF x
      <4>5. x \notin Content(sum, l)
        BY <2>1, <4>2, <4>3, <4>4
      <4> QED BY <4>5 DEF l
    <3> QED BY <1>17, <1>18, <3>1, <3>2 DEF SymDiff
  <2>5. CASE x \in E
    <3>1. x = d
      BY <1>14, <2>2, <2>3, <2>5
    <3>2. x \in Content(sum, row)
      BY <1>9, <2>2, <2>5 DEF SymDiff
    <3>3. Pivot(m, row) <= Pivot(m, p)
      BY <1>3, <1>4, <2>5
    <3>4. ~ IsZeroRow(m, row)
      BY <1>3, <1>4, <1>13
    <3>5. RowOf(sum, x) = p /\ Pivot(sum, p) = x
      BY <1>3, <1>9, <1>19, <3>2, <3>3, <3>4, RowOfOther
    <3>6. HasPivot(sum, x)
      <4>1. p >= 0
        OBVIOUS
      <4> QED BY <3>5, <4>1 DEF HasPivot
    <3>7. d \in again /\ RowOf(sum, d) = p
      BY <1>8, <1>19, <2>3, <2>5, <3>1, <3>5, <3>6
    <3>8. x \in Content(sum, p)
      BY <1>9, <1>19, PivotOfRow
    <3> QED BY <1>17, <1>18, <3>2, <3>7, <3>8 DEF SymDiff
  <2> QED BY <2>4, <2>5
<1>20. Pending(k)
  BY <1>3, <1>18, <1>19, ReplacedPending
<1> QED BY <1>18, <1>20

\* Adding an equation of one bit.
LEMMA AddEquationPending ==
    ASSUME NEW n \in Nat, NEW c \in Nat, n <= c, NEW m, Shaped(m, n, c), Settled(m),
           NEW pos \in Nat, 2 * pos + 1 < c,
           NEW E \in (SUBSET (0..c)) \ {{}}, OneBit(E, pos, c), NEW log,
           NEW k, k = AddEquation(m, E, log)
    PROVE  Pending(k) /\ (k.updateRows = {} => Settled(k))
<1> DEFINE first == Min(E)
<1>1. first \in E /\ first \in 0..c /\ \A x \in E : first <= x
  BY MinIn
<1>2. E \in SUBSET {2 * pos, 2 * pos + 1, c} /\ E \cap {2 * pos, 2 * pos + 1} # {}
  BY DEF OneBit
<1> HIDE DEF first
<1>3. first = 2 * pos \/ first = 2 * pos + 1
  <2>1. PICK x \in E : x = 2 * pos \/ x = 2 * pos + 1
    BY <1>2
  <2>2. first <= x /\ first # c
    BY <1>1, <2>1
  <2> QED BY <1>1, <1>2, <2>2
<1> DEFINE d == 2 * pos + 1
<1>4. d \in 0..(c - 1) /\ first < c
  BY <1>3
<1>5. E \ {first} \in SUBSET {d, c}
  <2>1. ASSUME NEW x \in E, x # first PROVE x = d \/ x = c
    <3>1. CASE first = 2 * pos
      BY <1>2, <2>1, <3>1
    <3>2. CASE first = 2 * pos + 1
      <4>1. first <= x /\ x \in Int
        BY <1>1
      <4> QED BY <1>2, <2>1, <3>2, <4>1
    <3> QED BY <1>3, <3>1, <3>2
  <2> QED BY <2>1
<1> HIDE DEF d
<1>6. CASE HasPivot(m, first)
  <2> DEFINE row == RowOf(m, first)
  <2>1. k = ReplaceRow(m, row, E, log)
    BY <1>6 DEF AddEquation, first
  <2>2. row = RowOf(m, Min(E)) /\ HasPivot(m, Min(E)) /\ Min(E) < c
        /\ E \ {Min(E)} \in SUBSET {d, c}
    BY <1>4, <1>5, <1>6 DEF first
  <2> HIDE DEF row
  <2>3. Pending(k) /\ k.updateRows # {}
    BY <1>4, <2>1, <2>2, ReplaceRowPending
  <2> QED BY <2>3
<1>7. CASE ~ HasPivot(m, first)
  <2>1. k = Substitute(m, RowOf(m, Min(E)), E, log) /\ ~ HasPivot(m, Min(E))
    BY <1>7 DEF AddEquation, first
  <2>2. Pending(k) /\ k.updatePivot = {}
    BY <2>1, SubstitutePending
  <2> QED BY <2>2 DEF Settled
<1> QED BY <1>6, <1>7

-----------------------------------------------------------------------------
(* Sorting makes the rows sorted *)

\* Positions of rows that move, and of the rows that do not.
Target(m) == {SortedPosition(m, r) : r \in m.updatePivot}

\* Below the new position of a row are as many free positions as free rows with a lower pivot.
LEMMA FreeBefore ==
    ASSUME NEW n \in Nat, NEW c \in Nat, NEW m, Shaped(m, n, c), NEW u \in m.updatePivot
    PROVE  /\ SortedPosition(m, u) \in 0..(n - 1) /\ Target(m) \in SUBSET (0..(n - 1))
           /\ Before((0..(n - 1)) \ Target(m), SortedPosition(m, u))
                 = Cardinality(FreeBelow(m, u))
<1> DEFINE R == 0..(n - 1)
           U == m.updatePivot
           D == Target(m)
           p == SortedPosition(m, u)
           L == LowerRows(m, u)
           P == 0..(p - 1)
           B == {x \in R \ D : x < p}
           C == {SortedPosition(m, v) : v \in L}
<1>1. m \in MatrixSet(n, c) /\ U \in SUBSET R /\ u \in U
  BY DEF Shaped, MatrixSet
<1>2. \A v \in U : SortedPosition(m, v) \in R
  BY <1>1, SortedPositionGrows
<1>3. p \in R /\ p = Cardinality(FreeBelow(m, u)) + Cardinality(L)
  BY <1>1, SortedPositionGrows
<1>4. D \in SUBSET R /\ \A v \in U : SortedPosition(m, v) \in D
  BY <1>2 DEF Target
<1>5. L \in SUBSET U
  BY DEF LowerRows
<1>6. \A v \in U : SortedPosition(m, v) < p <=> v \in L
  <2>1. TAKE v \in U
  <2>2. v \in R /\ u \in R
    BY <1>1
  <2>3. /\ Pivot(m, v) \in Int /\ Pivot(m, u) \in Int /\ v \in Int /\ u \in Int
    BY <1>1, <2>2, MatrixFacts
  <2>4. Lower(m, v, u) \/ Lower(m, u, v) \/ v = u
    BY <2>3 DEF Lower
  <2>5. Lower(m, v, u) => SortedPosition(m, v) < p
    BY <1>1, SortedPositionGrows
  <2>6. Lower(m, u, v) => p < SortedPosition(m, v)
    BY <1>1, SortedPositionGrows
  <2>7. SortedPosition(m, v) \in Int /\ p \in Int
    BY <1>2, <1>3
  <2>8. v \in L <=> Lower(m, v, u)
    BY DEF LowerRows
  <2> HIDE DEF p, L
  <2>9. v = u => p = SortedPosition(m, v)
    BY DEF p
  <2> QED BY <2>4, <2>5, <2>6, <2>7, <2>8, <2>9
<1>7. C \in SUBSET P /\ P \in SUBSET R /\ C \in SUBSET D
  <2>1. ASSUME NEW v \in L PROVE SortedPosition(m, v) \in P /\ SortedPosition(m, v) \in D
    <3>1. SortedPosition(m, v) \in R /\ SortedPosition(m, v) < p /\ SortedPosition(m, v) \in D
      BY <1>2, <1>4, <1>5, <1>6
    <3> QED BY <1>3, <3>1
  <2>2. P \in SUBSET R
    BY <1>3
  <2> QED BY <2>1, <2>2
<1>8. \A x \in D : x < p => x \in C
  <2>1. TAKE x \in D
  <2>2. PICK v \in U : x = SortedPosition(m, v)
    BY DEF Target
  <2> QED BY <1>6, <2>2
<1>9. B = P \ C
  <2>1. \A x \in R : x < p <=> x \in P
    BY <1>3
  <2> HIDE DEF P, C, R
  <2> QED BY <1>7, <1>8, <2>1
<1>10. IsFiniteSet(L) /\ IsFiniteSet(C) /\ Cardinality(C) = Cardinality(L)
  <2> DEFINE f == [v \in L |-> SortedPosition(m, v)]
  <2>1. f \in [L -> C]
    OBVIOUS
  <2>2. \A r, s \in L : f[r] = f[s] => r = s
    BY <1>1, <1>5, SortedPositionInjective
  <2>3. \A x \in C : \E r \in L : f[r] = x
    OBVIOUS
  <2> HIDE DEF f
  <2>4. f \in Bijection(L, C)
    BY <2>1, <2>2, <2>3 DEF Bijection, Injection, Surjection, IsInjective
  <2>5. IsFiniteSet(L)
    <3>1. L \in SUBSET (0..(n - 1))
      BY <1>1, <1>5
    <3> QED BY <3>1, PositionsFinite
  <2> QED BY <2>4, <2>5, FS_Bijection DEF ExistsBijection
<1>11. IsFiniteSet(P) /\ Cardinality(P) = p
  <2>1. 0 \in Int /\ p - 1 \in Int /\ (0 > p - 1 <=> p = 0) /\ (p - 1) - 0 + 1 = p
    BY <1>3
  <2>2. IsFiniteSet(0..(p - 1)) /\ Cardinality(0..(p - 1)) =
           (IF 0 > p - 1 THEN 0 ELSE (p - 1) - 0 + 1)
    BY <2>1, FS_Interval
  <2> QED BY <2>1, <2>2
<1>12. Cardinality(P \ C) = Cardinality(P) - Cardinality(P \cap C)
  <2> HIDE DEF P, C
  <2> QED BY <1>11, FS_Difference
<1>13. P \cap C = C
  BY <1>7
<1>14. Cardinality(FreeBelow(m, u)) \in Nat /\ Cardinality(L) \in Nat
  <2>1. FreeBelow(m, u) \in SUBSET (0..(n - 1))
    BY <1>1, MatrixFacts DEF FreeBelow
  <2> QED BY <1>10, <2>1, PositionsFinite, FS_CardinalityType
<1>15. Before(R \ D, p) = Cardinality(B)
  BY DEF Before
<1> HIDE DEF B, P, C, L, p
<1>16. Cardinality(B) = Cardinality(FreeBelow(m, u))
  BY <1>3, <1>9, <1>10, <1>11, <1>12, <1>13, <1>14
<1> QED BY <1>3, <1>4, <1>15, <1>16 DEF p

\* The rank of a row that stays says whether its pivot is lower than that of a row that moves.
LEMMA FreeRank ==
    ASSUME NEW n \in Nat, NEW c \in Nat, NEW m, Shaped(m, n, c), NEW u \in m.updatePivot,
           SortedOn(m, (0..(n - 1)) \ m.updatePivot), NEW s \in (0..(n - 1)) \ m.updatePivot
    PROVE  IF Pivot(m, s) < Pivot(m, u)
           THEN Before((0..(n - 1)) \ m.updatePivot, s) < Cardinality(FreeBelow(m, u))
           ELSE Cardinality(FreeBelow(m, u)) <= Before((0..(n - 1)) \ m.updatePivot, s)
<1> DEFINE R == 0..(n - 1)
           U == m.updatePivot
           F == FreeBelow(m, u)
           B == {t \in R \ U : t < s}
<1>1. m \in MatrixSet(n, c) /\ U \in SUBSET R /\ Rows(m) = R
  BY MatrixFacts DEF Shaped, MatrixSet
<1>2. \A r \in R : Pivot(m, r) \in Int /\ r \in Int
  BY <1>1, MatrixFacts
<1>3. \A q, r \in R \ U : q < r => Pivot(m, q) <= Pivot(m, r)
  BY DEF SortedOn
<1>4. u \in R /\ s \in R /\ s \notin U
  BY <1>1
<1>5. \A t : t \in F <=> t \in R \ U /\ Pivot(m, t) < Pivot(m, u)
  BY <1>1 DEF FreeBelow
<1>6. Before(R \ U, s) = Cardinality(B)
  BY DEF Before
<1>7. \A t : t \in B <=> t \in R \ U /\ t < s
  OBVIOUS
<1>8. B \in SUBSET R /\ F \in SUBSET R
  BY <1>5, <1>7
<1>9. IsFiniteSet(B) /\ IsFiniteSet(F) /\ Cardinality(B) \in Nat /\ Cardinality(F) \in Nat
  BY <1>8, PositionsFinite
<1> HIDE DEF B, F, U
<1>10. CASE Pivot(m, s) < Pivot(m, u)
  <2>1. B \cup {s} \in SUBSET F
    <3>1. s \in F
      BY <1>4, <1>5, <1>10
    <3>2. ASSUME NEW t \in B PROVE t \in F
      <4>1. t \in R \ U /\ Pivot(m, t) <= Pivot(m, s)
        BY <1>3, <1>4, <1>7
      <4>2. Pivot(m, t) \in Int /\ Pivot(m, s) \in Int /\ Pivot(m, u) \in Int
        BY <1>2, <1>4, <4>1
      <4>3. Pivot(m, t) < Pivot(m, u)
        BY <1>10, <4>1, <4>2
      <4> QED BY <1>5, <4>1, <4>3
    <3> QED BY <3>1, <3>2
  <2>2. s \notin B
    BY <1>2, <1>4, <1>7
  <2>3. IsFiniteSet(B \cup {s}) /\ Cardinality(B \cup {s}) = Cardinality(B) + 1
    BY <1>9, <2>2, FS_AddElement
  <2>4. Cardinality(B \cup {s}) <= Cardinality(F)
    BY <1>9, <2>1, FS_Subset
  <2>5. Cardinality(B) < Cardinality(F)
    BY <1>9, <2>3, <2>4
  <2> QED BY <1>6, <1>10, <2>5 DEF F, U
<1>11. CASE ~ (Pivot(m, s) < Pivot(m, u))
  <2>1. F \in SUBSET B
    <3>1. SUFFICES ASSUME NEW t \in F PROVE t \in B
      OBVIOUS
    <3>2. t \in R \ U /\ Pivot(m, t) < Pivot(m, u)
      BY <1>5
    <3>3. /\ Pivot(m, t) \in Int /\ Pivot(m, s) \in Int /\ Pivot(m, u) \in Int
          /\ t \in Int /\ s \in Int
      BY <1>2, <1>4, <3>2
    <3>4. t # s
      BY <1>11, <3>2
    <3>5. ~ (s < t)
      <4>1. s < t => Pivot(m, s) <= Pivot(m, t)
        BY <1>3, <1>4, <3>2
      <4> QED BY <1>11, <3>2, <3>3, <4>1
    <3>6. t < s
      BY <3>3, <3>4, <3>5
    <3> QED BY <1>7, <3>2, <3>6
  <2>2. Cardinality(F) <= Cardinality(B)
    BY <1>9, <2>1, FS_Subset
  <2> QED BY <1>6, <1>11, <2>2 DEF F, U
<1> QED BY <1>10, <1>11

\* The row at position r of the sorted matrix was the row s.
SortedFrom(m, n, r, s) ==
    IF r \in Target(m) THEN s \in m.updatePivot /\ r = SortedPosition(m, s)
    ELSE /\ s \in (0..(n - 1)) \ m.updatePivot
         /\ Before((0..(n - 1)) \ m.updatePivot, s) = Before((0..(n - 1)) \ Target(m), r)

\* Rows that are sorted by position are sorted by pivot.
LEMMA SortedInOrder ==
    ASSUME NEW n \in Nat, NEW c \in Nat, NEW m, Shaped(m, n, c),
           SortedOn(m, (0..(n - 1)) \ m.updatePivot), NEW q \in 0..(n - 1), NEW r \in 0..(n - 1),
           q < r, NEW s, SortedFrom(m, n, q, s), NEW t, SortedFrom(m, n, r, t)
    PROVE  Pivot(m, s) <= Pivot(m, t)
<1> DEFINE R == 0..(n - 1)
           U == m.updatePivot
           D == Target(m)
<1>1. m \in MatrixSet(n, c) /\ U \in SUBSET R
  BY DEF Shaped, MatrixSet
<1>2. \A x \in R : Pivot(m, x) \in Int /\ x \in Nat
  BY <1>1, MatrixFacts
<1>3. \A x \in U : /\ SortedPosition(m, x) \in R /\ SortedPosition(m, x) \in D
                   /\ Before(R \ D, SortedPosition(m, x)) = Cardinality(FreeBelow(m, x))
  BY FreeBefore DEF Target
<1>4. D \in SUBSET R
  BY <1>1, SortedPositionGrows DEF Target
<1>5. /\ IsFiniteSet(R \ D) /\ R \ D \subseteq Nat
      /\ IsFiniteSet(R \ U) /\ R \ U \subseteq Nat
  BY <1>1, <1>4, PositionsFinite
<1>6. q \in Nat /\ r \in Nat /\ Before(R \ D, q) <= Before(R \ D, r)
      /\ (q \in R \ D => Before(R \ D, q) < Before(R \ D, r))
  BY <1>2, <1>5, RankGrows
<1>7. CASE q \in D /\ r \in D
  <2>1. /\ s \in U /\ q = SortedPosition(m, s) /\ t \in U /\ r = SortedPosition(m, t)
        /\ s \in R /\ t \in R
    BY <1>1, <1>7 DEF SortedFrom
  <2>2. ~ Lower(m, t, s)
    <3>1. Lower(m, t, s) => SortedPosition(m, t) < SortedPosition(m, s)
      BY <1>1, <2>1, SortedPositionGrows
    <3> QED BY <1>6, <2>1, <3>1
  <2>3. Pivot(m, s) \in Int /\ Pivot(m, t) \in Int
    BY <1>2, <2>1
  <2> QED BY <2>2, <2>3 DEF Lower
<1>8. CASE q \in D /\ r \notin D
  <2>1. /\ s \in U /\ q = SortedPosition(m, s) /\ t \in R \ U /\ s \in R
        /\ Before(R \ U, t) = Before(R \ D, r)
    BY <1>1, <1>8 DEF SortedFrom
  <2>2. Cardinality(FreeBelow(m, s)) <= Before(R \ U, t)
    BY <1>3, <1>6, <2>1
  <2>3. IF Pivot(m, t) < Pivot(m, s)
        THEN Before(R \ U, t) < Cardinality(FreeBelow(m, s))
        ELSE Cardinality(FreeBelow(m, s)) <= Before(R \ U, t)
    BY <2>1, FreeRank
  <2>4. Before(R \ U, t) \in Int /\ Cardinality(FreeBelow(m, s)) \in Int
    <3>1. Before(R \ U, t) \in Nat
      BY <1>2, <1>5, <2>1, RankGrows
    <3>2. q \in R /\ Before(R \ D, q) \in Nat
      BY <1>5, <1>6, RankGrows
    <3> QED BY <1>3, <2>1, <3>1, <3>2
  <2>5. Pivot(m, s) \in Int /\ Pivot(m, t) \in Int
    BY <1>2, <2>1
  <2> QED BY <2>2, <2>3, <2>4, <2>5
<1>9. CASE q \notin D /\ r \in D
  <2>1. /\ s \in R \ U /\ t \in U /\ r = SortedPosition(m, t) /\ t \in R
        /\ Before(R \ U, s) = Before(R \ D, q)
    BY <1>1, <1>9 DEF SortedFrom
  <2>2. Before(R \ U, s) < Cardinality(FreeBelow(m, t))
    BY <1>3, <1>6, <1>9, <2>1
  <2>3. IF Pivot(m, s) < Pivot(m, t)
        THEN Before(R \ U, s) < Cardinality(FreeBelow(m, t))
        ELSE Cardinality(FreeBelow(m, t)) <= Before(R \ U, s)
    BY <2>1, FreeRank
  <2>4. Before(R \ U, s) \in Int /\ Cardinality(FreeBelow(m, t)) \in Int
    <3>1. Before(R \ U, s) \in Nat
      BY <1>2, <1>5, <2>1, RankGrows
    <3>2. Before(R \ D, r) \in Nat
      BY <1>5, <1>6, RankGrows
    <3> QED BY <1>3, <2>1, <3>1, <3>2
  <2>5. Pivot(m, s) \in Int /\ Pivot(m, t) \in Int
    BY <1>2, <2>1
  <2> QED BY <2>2, <2>3, <2>4, <2>5
<1>10. CASE q \notin D /\ r \notin D
  <2>1. /\ s \in R \ U /\ t \in R \ U
        /\ Before(R \ U, s) = Before(R \ D, q) /\ Before(R \ U, t) = Before(R \ D, r)
    BY <1>10 DEF SortedFrom
  <2>2. Before(R \ U, s) < Before(R \ U, t)
    BY <1>6, <1>10, <2>1
  <2>3. s \in Nat /\ t \in Nat
    BY <1>2, <2>1
  <2>4. ~ (t <= s)
    <3>1. t <= s => Before(R \ U, t) <= Before(R \ U, s)
      BY <1>5, <2>3, RankGrows
    <3>2. Before(R \ U, t) \in Nat /\ Before(R \ U, s) \in Nat
      BY <1>5, <2>3, RankGrows
    <3> QED BY <2>2, <3>1, <3>2
  <2>5. s < t
    BY <2>3, <2>4
  <2> QED BY <2>1, <2>5 DEF SortedOn
<1> QED BY <1>7, <1>8, <1>9, <1>10

\* Where the rows of a sorted matrix were.
LEMMA SortedRows ==
    ASSUME NEW n \in Nat, NEW c \in Nat, NEW m, Shaped(m, n, c), NEW a,
           Permuted(a, m, SortOut(m), SortIn(m), n, c), NEW r \in 0..(n - 1)
    PROVE  \E s \in 0..(n - 1) : SortedFrom(m, n, r, s) /\ a.row[r] = m.row[s]
<1> DEFINE U == m.updatePivot
<1>1. m \in MatrixSet(n, c) /\ U \in SUBSET (0..(n - 1))
  BY DEF Shaped, MatrixSet
<1>2. DOMAIN SortIn(m) = Target(m) /\ DOMAIN SortOut(m) = U
  BY DEF SortIn, SortOut, Target
<1>3. PICK s \in 0..(n - 1) : CameFrom(a, m, SortOut(m), SortIn(m), n, r, s)
  BY DEF Permuted
<1>4. CASE r \in Target(m)
  <2>1. a.row[r] = SortIn(m)[r]
    BY <1>2, <1>3, <1>4 DEF CameFrom
  <2>2. PICK u \in U : r = SortedPosition(m, u)
    BY <1>4 DEF Target
  <2>3. SortIn(m)[r] = m.row[u]
    BY <2>2, SortPermutes
  <2>4. SortedFrom(m, n, r, u) /\ u \in 0..(n - 1)
    BY <1>1, <1>4, <2>2 DEF SortedFrom
  <2> QED BY <2>1, <2>3, <2>4
<1>5. CASE r \notin Target(m)
  <2>1. SortedFrom(m, n, r, s) /\ a.row[r] = m.row[s]
    BY <1>2, <1>3, <1>5 DEF CameFrom, SortedFrom
  <2> QED BY <2>1
<1> QED BY <1>4, <1>5

\* When no row waits for elimination, sorting brings the matrix into reduced form.
LEMMA SortSettled ==
    ASSUME NEW n \in Nat, NEW c \in Nat, NEW m, Shaped(m, n, c), Pending(m), m.updateRows = {},
           NEW log, NEW k, k = SortByPivot(m, log)
    PROVE  Settled(k)
<1> DEFINE R == 0..(n - 1)
<1>1. m \in MatrixSet(n, c) /\ Rows(m) = R
  BY MatrixFacts DEF Shaped
<1>2. SortedOn(m, R \ m.updatePivot)
  BY <1>1 DEF Pending
<1>3. Eliminated(m, R)
  <2>1. R \ {} = R
    OBVIOUS
  <2> HIDE DEF R
  <2> QED BY <1>1, <2>1 DEF Pending
<1>4. /\ Follows(k, m, {}, log, n, c) /\ k.updateRows = {} /\ k.updatePivot = {}
      /\ \E a : Permuted(a, m, SortOut(m), SortIn(m), n, c) /\ Same(a, k)
  BY SortFollows
<1>5. PICK a : Permuted(a, m, SortOut(m), SortIn(m), n, c) /\ Same(a, k)
  BY <1>4
<1>6. Shaped(k, n, c) /\ Shaped(a, n, c) /\ k.data = m.data /\ k.columns = m.columns /\ k.row = a.row
  BY <1>4, <1>5 DEF Follows, Permuted, Same
<1>7. Rows(k) = R /\ Rows(a) = R
  BY <1>6, MatrixFacts DEF Shaped
<1>8. \A r \in R : \E s \in R : /\ SortedFrom(m, n, r, s) /\ k.row[r] = m.row[s]
                                /\ Pivot(k, r) = Pivot(m, s) /\ Content(k, r) = Content(m, s)
  <2>1. TAKE r \in R
  <2>2. PICK s \in R : SortedFrom(m, n, r, s) /\ a.row[r] = m.row[s]
    BY <1>5, SortedRows
  <2> QED BY <1>6, <2>2 DEF Pivot, Content
<1>9. SortedOn(k, R)
  <2>1. SUFFICES ASSUME NEW q \in R, NEW r \in R, q < r PROVE Pivot(k, q) <= Pivot(k, r)
    BY DEF SortedOn
  <2>2. PICK s \in R : SortedFrom(m, n, q, s) /\ Pivot(k, q) = Pivot(m, s)
    BY <1>8
  <2>3. PICK t \in R : SortedFrom(m, n, r, t) /\ Pivot(k, r) = Pivot(m, t)
    BY <1>8
  <2>4. Pivot(m, s) <= Pivot(m, t)
    BY <1>2, <2>1, <2>2, <2>3, SortedInOrder
  <2> QED BY <2>2, <2>3, <2>4
<1>10. Eliminated(k, R)
  <2>1. SUFFICES ASSUME NEW r \in R, ~ IsZeroRow(k, r)
                 PROVE  /\ ~ IsContradiction(k, r)
                        /\ \A q \in R : q # r => Pivot(k, r) \notin Content(k, q)
    BY <1>7 DEF Eliminated
  <2>2. PICK s \in R : /\ k.row[r] = m.row[s]
                       /\ Pivot(k, r) = Pivot(m, s) /\ Content(k, r) = Content(m, s)
    BY <1>8
  <2>3. /\ IsZeroRow(m, s) <=> IsZeroRow(k, r)
        /\ IsContradiction(m, s) <=> IsContradiction(k, r)
    BY <1>6, <2>2 DEF IsZeroRow, IsContradiction, NOPIVOT, RHS
  <2>4. /\ ~ IsContradiction(m, s)
        /\ \A q \in R : q # s => Pivot(m, s) \notin Content(m, q)
    BY <1>1, <1>3, <2>1, <2>3 DEF Eliminated
  <2>5. ASSUME NEW q \in R, q # r PROVE Pivot(k, r) \notin Content(k, q)
    <3>1. PICK t \in R : k.row[q] = m.row[t] /\ Content(k, q) = Content(m, t)
      BY <1>8
    <3>2. t # s
      <4>1. SUFFICES ASSUME t = s PROVE FALSE
        OBVIOUS
      <4>2. k.row[q].index = k.row[r].index
        BY <2>2, <3>1, <4>1
      <4> QED BY <1>6, <1>7, <2>5, <4>2 DEF Shaped
    <3> QED BY <2>2, <2>4, <3>1, <3>2
  <2> QED BY <2>3, <2>4, <2>5
<1> QED BY <1>4, <1>6, <1>9, <1>10, SettledIs

-----------------------------------------------------------------------------
(* Matrices in reduced form *)

\* The same equations in the same order are in the same form.
LEMMA SettledLike ==
    ASSUME NEW m, NEW k, Same(k, m), k.updateRows = {}, k.updatePivot = {}, Settled(m)
    PROVE  Settled(k)
<1>1. k.row = m.row /\ k.data = m.data /\ k.columns = m.columns
  BY DEF Same
<1>2. /\ Rows(k) = Rows(m) /\ \A r : Content(k, r) = Content(m, r) /\ Pivot(k, r) = Pivot(m, r)
      /\ \A r : (IsZeroRow(k, r) <=> IsZeroRow(m, r))
                /\ (IsContradiction(k, r) <=> IsContradiction(m, r))
  BY <1>1 DEF Rows, Content, Pivot, IsZeroRow, IsContradiction, NOPIVOT, RHS
<1>3. /\ m.updateRows = {} /\ m.updatePivot = {}
      /\ Eliminated(m, Rows(m) \ m.updateRows) /\ SortedOn(m, Rows(m) \ m.updatePivot)
  BY DEF Settled, Pending
<1>4. Eliminated(k, Rows(k) \ k.updateRows)
  BY <1>2, <1>3 DEF Eliminated
<1>5. SortedOn(k, Rows(k) \ k.updatePivot)
  BY <1>2, <1>3 DEF SortedOn
<1> QED BY <1>4, <1>5 DEF Settled, Pending

\* All matrices of a characteristic that have the same equations as others.
LEMMA AllSettledLike ==
    ASSUME NEW f, NEW g, AllSettled(f),
           \A s \in LinearSteps : Same(g[s], f[s]) /\ g[s].updateRows = {} /\ g[s].updatePivot = {}
    PROVE  AllSettled(g)
BY SettledLike DEF AllSettled

\* In a matrix without an equation every row has the column of an output to itself.
LEMMA InitialSettled ==
    ASSUME NEW s \in LinearSteps, NEW st, st = StepList[s],
           NEW m, m = InitialMatrix(st.inputs, st.outputs, st.depends)
    PROVE  Settled(m)
<1> DEFINE n == RowCount(s)
           c == ColumnCount(s)
           R == 0..(n - 1)
<1>1. /\ Shaped(m, n, c) /\ m.updateRows = {} /\ m.updatePivot = {}
      /\ InitialRows(m, st, n)
  BY InitialShaped
<1>2. n \in Nat /\ c \in Nat /\ st.outputs \in Nat /\ n = 2 * st.outputs
  BY StepFacts DEF RowCount
<1>3. \A r \in R : /\ r \in 0..(c - 1) /\ Content(m, r) = {r} \cup InputColumns(st, r \div 2, r % 2)
                   /\ \A x \in InputColumns(st, r \div 2, r % 2) : n <= x /\ r < x /\ x \in Int
  <2>1. TAKE r \in R
  <2>2. r \in 0..(2 * st.outputs - 1)
    BY <1>2
  <2>3. /\ r \in 0..(c - 1)
        /\ \A x \in InputColumns(st, r \div 2, r % 2) :
              x \in 0..(c - 1) /\ 2 * st.outputs <= x /\ r < x
    BY <2>2, RowIs
  <2>4. Content(m, r) = {r} \cup InputColumns(st, r \div 2, r % 2)
    BY <1>1 DEF InitialRows
  <2> HIDE DEF n, c
  <2> QED BY <1>2, <2>3, <2>4
<1> HIDE DEF n, c
<1>4. \A r \in R : Pivot(m, r) = r
  <2>1. TAKE r \in R
  <2> DEFINE I == InputColumns(st, r \div 2, r % 2)
  <2>2. r \in Content(m, r) /\ \A x \in Content(m, r) : r <= x /\ x \in Int
    <3>1. Content(m, r) = {r} \cup I /\ r \in Int /\ \A x \in I : r < x /\ x \in Int
      BY <1>2, <1>3
    <3> HIDE DEF I
    <3> QED BY <3>1
  <2>3. /\ Pivot(m, r) \in 0..(c + 1) /\ ~ IsZeroRow(m, r)
        /\ Pivot(m, r) \in Content(m, r) /\ \A x \in Content(m, r) : Pivot(m, r) <= x
    BY <1>1, <1>2, <2>2, PivotOfRow
  <2> QED BY <1>2, <2>2, <2>3
<1>5. SortedOn(m, R)
  BY <1>2, <1>4 DEF SortedOn
<1>6. Eliminated(m, R)
  <2>1. SUFFICES ASSUME NEW r \in R
                 PROVE  /\ ~ IsContradiction(m, r)
                        /\ \A q \in R : q # r => r \notin Content(m, q)
    <3>1. Rows(m) = R
      BY <1>1, MatrixFacts DEF Shaped
    <3> QED BY <1>4, <2>1, <3>1 DEF Eliminated
  <2>2. ~ IsContradiction(m, r)
    <3>1. IsContradiction(m, r) <=> Pivot(m, r) = c
      BY <1>1, <1>2, PivotOfRow
    <3>2. r # c
      BY <1>2, <1>3
    <3> QED BY <1>4, <3>1, <3>2
  <2>3. ASSUME NEW q \in R, q # r PROVE r \notin Content(m, q)
    <3> DEFINE I == InputColumns(st, q \div 2, q % 2)
    <3>1. Content(m, q) = {q} \cup I /\ \A x \in I : n <= x
      BY <1>3
    <3>2. r \in Int /\ n \in Int /\ r < n
      BY <1>2
    <3> HIDE DEF I
    <3> QED BY <2>3, <3>1, <3>2
  <2> QED BY <2>2, <2>3
<1> QED BY <1>1, <1>5, <1>6, SettledIs

\* The matrices before any equation are in reduced form.
LEMMA NewMatricesSettled == AllSettled(NewMatrices)
<1> DEFINE M(s) == InitialMatrix(StepList[s].inputs, StepList[s].outputs, StepList[s].depends)
<1>1. NewMatrices = [s \in LinearSteps |-> M(s)]
  BY DEF NewMatrices
<1>2. \A s \in LinearSteps : Settled(M(s))
  BY InitialSettled
<1> HIDE DEF M
<1> QED BY <1>1, <1>2 DEF AllSettled

\* Logs that start afresh, and that are taken back right away.
LEMMA FixAllSettled ==
    ASSUME NEW f \in StepMatrices, AllSettled(f), NEW g, g = FixAll(f)
    PROVE  AllSettled(g) /\ AllSettled(UndoAll(g))
<1>1. ASSUME NEW s \in LinearSteps
      PROVE  /\ Same(g[s], f[s]) /\ Same(UndoAll(g)[s], f[s])
             /\ g[s].updateRows = {} /\ g[s].updatePivot = {}
             /\ UndoAll(g)[s].updateRows = {} /\ UndoAll(g)[s].updatePivot = {}
  <2>1. g[s] = [f[s] EXCEPT !.changes = <<>>]
    BY DEF FixAll
  <2>2. /\ Shaped(g[s], RowCount(s), ColumnCount(s)) /\ Same(g[s], f[s])
        /\ Undoable(g[s], RowCount(s), ColumnCount(s)) /\ Same(Undone(g[s])[0], g[s])
        /\ g[s].updateRows = f[s].updateRows /\ g[s].updatePivot = f[s].updatePivot
    BY <2>1, StepMatrixIs, FixedIs
  <2>3. f[s].updateRows = {} /\ f[s].updatePivot = {}
    BY DEF AllSettled, Settled
  <2> DEFINE k == Undo(g[s])
  <2>4. Same(k, Undone(g[s])[0]) /\ k.updateRows = {} /\ k.updatePivot = {}
    BY <2>2, StepMatrixIs, UndoIs
  <2>5. UndoAll(g)[s] = k
    BY DEF UndoAll
  <2> HIDE DEF k
  <2> QED BY <2>2, <2>3, <2>4, <2>5, SameTransitive
<1>2. AllSettled(g)
  BY <1>1, AllSettledLike
<1>3. AllSettled(UndoAll(g))
  BY <1>1, AllSettledLike
<1> QED BY <1>2, <1>3

\* What is in reduced form is so whatever the characteristic does.
LEMMA SettledReduced ==
    ASSUME NEW n \in Nat, NEW c \in Nat, NEW m, Shaped(m, n, c), Settled(m)
    PROVE  /\ IsReducedRowEchelon(m)
           /\ \A r \in Rows(m) : Pivot(m, r) = ComputePivot(m, Content(m, r))
           /\ m.rowinv = Positions(m.row) /\ m.updateRows = {} /\ m.updatePivot = {}
<1> DEFINE R == 0..(n - 1)
<1>1. Rows(m) = R
  BY MatrixFacts DEF Shaped
<1>2. SortedOn(m, R) /\ Eliminated(m, R) /\ m.updateRows = {} /\ m.updatePivot = {}
  BY SettledIs
<1>3. IsRowEchelon(m)
  BY <1>1, <1>2 DEF IsRowEchelon, SortedOn
<1>4. ASSUME NEW r \in R, ~ IsZeroRow(m, r), NEW q \in R, q < r
      PROVE  Pivot(m, r) \notin Content(m, q)
  <2>1. q # r
    BY <1>4
  <2> QED BY <1>1, <1>2, <1>4, <2>1 DEF Eliminated
<1>5. IsReducedRowEchelon(m)
  BY <1>1, <1>3, <1>4 DEF IsReducedRowEchelon
<1> QED BY <1>2, <1>5 DEF Shaped

-----------------------------------------------------------------------------
(* Reduced form in the steps of an Update *)

\* While one matrix goes on to a settled one, or to one that waits, the form is kept.
LEMMA UpdateReduces ==
    ASSUME PropInv, ReducedInv, pc \notin {"ready", "lost"},
           pc' \in {"update", "equations", "gauss", "held", "refused"},
           at' = at, call' = call, NEW g, heap' = [heap EXCEPT ![at[who]] = g],
           Leads(heap[at[who]], g, cond[who], call.log),
           pc' # "refused" => Reducing(g, Eliminating')
    PROVE  ReducedInv'
<1> DEFINE f == heap[at[who]]
<1>1. /\ at[who] \in Cell /\ at["kept"] \in Cell /\ at[who] # at["kept"]
      /\ heap \in [Cell -> StepMatrices] /\ f \in StepMatrices
  BY WhoIs DEF PropInv, Typed
<1>2. who' = who /\ (Trying' <=> Trying)
  BY DEF who, Trying
<1>3. heap'[at'[who']] = g /\ heap'[at'["kept"]] = heap[at["kept"]]
  BY <1>1, <1>2
<1>4. ASSUME Trying PROVE AllSettled(UndoAll(g))
  <2>1. call.log /\ AllUndoable(f)
    BY <1>4 DEF PropInv, Called, MatricesHold, UndoFaithful
  <2>2. /\ g \in StepMatrices /\ AllUndoable(g)
        /\ \A s \in LinearSteps : Same(UndoAll(g)[s], UndoAll(f)[s])
    BY <2>1 DEF Leads
  <2>3. ASSUME NEW s \in LinearSteps
        PROVE  UndoAll(g)[s].updateRows = {} /\ UndoAll(g)[s].updatePivot = {}
    <3> DEFINE k == Undo(g[s])
    <3>1. UndoAll(g)[s] = k
      BY DEF UndoAll
    <3>2. Undoable(g[s], RowCount(s), ColumnCount(s))
      BY <2>2 DEF AllUndoable
    <3>3. k.updateRows = {} /\ k.updatePivot = {}
      BY <2>2, <3>2, StepMatrixIs, UndoIs
    <3> QED BY <3>1, <3>3
  <2>4. AllSettled(UndoAll(f))
    BY <1>4 DEF ReducedInv
  <2> HIDE DEF f
  <2> QED BY <2>2, <2>3, <2>4, AllSettledLike
<1>5. AllSettled(heap[at["kept"]])
  BY DEF ReducedInv
<1> QED BY <1>2, <1>3, <1>4, <1>5 DEF ReducedInv

\* A step that does not touch the matrices, between two equations.
LEMMA IdleReduces ==
    ASSUME PropInv, ReducedInv, pc = "update",
           pc' \in {"update", "equations", "held", "refused"},
           at' = at, call' = call, heap' = heap
    PROVE  ReducedInv'
<1> DEFINE g == heap[at[who]]
<1>1. /\ heap' = [heap EXCEPT ![at[who]] = g] /\ g \in StepMatrices
  BY WhoIs DEF PropInv, Typed
<1>2. Leads(heap[at[who]], g, cond[who], call.log)
  BY <1>1 DEF Leads, Same
<1>3. Reducing(g, Eliminating) /\ Eliminating = {} /\ Eliminating' = {}
  BY DEF ReducedInv, Eliminating
<1> HIDE DEF g
<1> QED BY <1>1, <1>2, <1>3, UpdateReduces

\* A step that only changes the matrix that equations are added to.
LEMMA MatrixStepReduces ==
    ASSUME PropInv, ReducedInv, pc \in {"equations", "gauss"},
           pc' \in {"update", "equations", "gauss", "refused"},
           at' = at, call' = call, NEW k, ChangeMatrix(k), GoesOn(k),
           pc' = "gauss" => Entry' = Entry /\ Pending(k),
           pc' \in {"update", "equations"} => Settled(k)
    PROVE  ReducedInv'
<1> DEFINE e == Entry[1]
           f == heap[at[who]]
           g == [f EXCEPT ![e] = k]
           c == cond[who]
<1>1. e \in LinearSteps /\ f \in StepMatrices /\ Matrix = f[e]
  BY WhoIs DEF PropInv, EquationsHold, Matrix
<1>2. heap' = [heap EXCEPT ![at[who]] = g]
  BY DEF ChangeMatrix
<1>3. Reducing(f, Eliminating) /\ Eliminating \in SUBSET {e}
  BY DEF ReducedInv, Eliminating
<1>4. pc' = "gauss" => Eliminating' = {e}
  BY DEF Eliminating
<1>5. pc' # "gauss" => Eliminating' = {}
  BY DEF Eliminating
<1>6. Follows(k, f[e], Allowed(e, c), call.log, RowCount(e), ColumnCount(e))
  BY <1>1 DEF GoesOn
<1> HIDE DEF e, f
<1>7. Leads(f, g, c, call.log)
  <2> HIDE DEF c
  <2> QED BY <1>1, <1>6, OneFollows
<1>8. \A s \in LinearSteps : g[s] = IF s = e THEN k ELSE f[s]
  BY <1>1 DEF StepMatrices
<1>9. \A s \in LinearSteps : s # e => Settled(f[s])
  BY <1>3 DEF Reducing
<1> HIDE DEF g
<1>10. pc' # "refused" => Reducing(g, Eliminating')
  BY <1>4, <1>5, <1>8, <1>9 DEF Reducing
<1>11. Leads(heap[at[who]], g, cond[who], call.log)
  BY <1>7 DEF f
<1>12. pc \notin {"ready", "lost"} /\ pc' \in {"update", "equations", "gauss", "held", "refused"}
  OBVIOUS
<1> HIDE DEF c
<1> QED BY <1>2, <1>10, <1>11, <1>12, UpdateReduces

\* The matrix that equations are added to, before an equation and while it is eliminated.
LEMMA MatrixReduces ==
    ASSUME PropInv, ReducedInv, pc \in {"equations", "gauss"}
    PROVE  /\ pc = "equations" => Settled(Matrix)
           /\ pc = "gauss" => Pending(Matrix)
           /\ RowCount(Entry[1]) <= ColumnCount(Entry[1])
           /\ Entry[2] \in Nat /\ 2 * Entry[2] + 1 < ColumnCount(Entry[1])
<1> DEFINE e == Entry[1]
           N == Len(StepList[e].bits)
<1>1. e \in LinearSteps /\ Matrix = heap[at[who]][e] /\ list[who] # {}
  BY MatrixIs DEF PropInv, EquationsHold
<1>2. Reducing(heap[at[who]], Eliminating)
  BY DEF ReducedInv
<1>3. N \in Nat /\ RowCount(e) <= ColumnCount(e) /\ Entry[2] \in 0..(N - 1)
  BY <1>1, StepFacts, EntryIs
<1>4. ColumnCount(e) = 2 * N
  BY DEF ColumnCount
<1>5. Entry[2] \in Nat /\ 2 * Entry[2] + 1 < 2 * N
  <2> HIDE DEF N
  <2> QED BY <1>3
<1>6. pc = "equations" => Eliminating = {}
  BY DEF Eliminating
<1>7. pc = "gauss" => Eliminating = {e}
  BY DEF Eliminating
<1> QED BY <1>1, <1>2, <1>3, <1>4, <1>5, <1>6, <1>7 DEF Reducing

\* An equation is added: what it touches waits, or nothing does.
LEMMA AddNextReduces == ASSUME PropInv, ReducedInv, AddNext PROVE ReducedInv'
<1> DEFINE e == Entry[1]
           n == RowCount(e)
           c == ColumnCount(e)
           E == Head(equations)
           k == AddEquation(Matrix, E, call.log)
<1>1. /\ pc = "equations" /\ ChangeMatrix(k) /\ at' = at /\ call' = call /\ list' = list
      /\ pc' = IF heap'[at[who]][e].updateRows = {} THEN "equations" ELSE "gauss"
  BY DEF AddNext
<1>2. /\ Shaped(Matrix, n, c) /\ n \in Nat /\ c \in Nat /\ n <= c /\ Settled(Matrix)
      /\ Entry[2] \in Nat /\ 2 * Entry[2] + 1 < c /\ e \in LinearSteps
  BY <1>1, MatrixIs, MatrixReduces
<1>3. E \in (SUBSET (0..c)) \ {{}} /\ OneBit(E, Entry[2], c) /\ GoesOn(k)
  BY NextEquation
<1>4. heap'[at[who]][e] = k
  BY <1>1, <1>2, WhoIs DEF ChangeMatrix, PropInv, Typed, StepMatrices
<1>5. who' = who /\ Entry' = Entry
  BY <1>1 DEF who, Entry
<1>6. Pending(k) /\ (k.updateRows = {} => Settled(k))
  <2> DEFINE m == Matrix
             log == call.log
             pos == Entry[2]
  <2> HIDE DEF n, c, E, m, log, pos
  <2>1. k = AddEquation(m, E, log)
    BY DEF m, log
  <2>2. Shaped(m, n, c) /\ Settled(m) /\ pos \in Nat /\ 2 * pos + 1 < c /\ OneBit(E, pos, c)
    BY <1>2, <1>3 DEF m, pos
  <2> HIDE DEF k
  <2> QED BY <1>2, <1>3, <2>1, <2>2, AddEquationPending
<1> HIDE DEF k
<1>7. pc' \in {"equations", "gauss"} /\ (pc' = "equations" => k.updateRows = {})
  BY <1>1, <1>4
<1> QED BY <1>1, <1>3, <1>5, <1>6, <1>7, MatrixStepReduces

\* A turn of EpsilonGauss: one row less waits to be eliminated.
LEMMA ReduceReduces == ASSUME PropInv, ReducedInv, Reduce PROVE ReducedInv'
<1> DEFINE e == Entry[1]
           m == Matrix
           n == RowCount(e)
           c == ColumnCount(e)
           T == Allowed(e, cond[who])
           log == call.log
           k == EpsilonGauss(m, log)
<1>1. /\ pc = "gauss" /\ ChangeMatrix(k) /\ at' = at /\ call' = call /\ list' = list /\ pc' = pc
      /\ m.updateRows # {} /\ ~ Contradicts(m)
  BY DEF Reduce
<1>2. Shaped(m, n, c) /\ n \in Nat /\ c \in Nat /\ n <= c /\ Pending(m)
  BY <1>1, MatrixIs, MatrixReduces
<1>3. who' = who /\ Entry' = Entry
  BY <1>1 DEF who, Entry
<1>4. Follows(k, m, T, log, n, c) /\ Pending(k)
  <2> HIDE DEF e, m, n, c, T, log
  <2> QED BY <1>1, <1>2, EpsilonGaussFollows, EpsilonGaussPending
<1>5. GoesOn(k)
  BY <1>4 DEF GoesOn
<1> HIDE DEF k
<1> QED BY <1>1, <1>3, <1>4, <1>5, MatrixStepReduces

\* No row waits any more: the rows are sorted, and the matrix is in reduced form.
LEMMA SortReduces == ASSUME PropInv, ReducedInv, Sort PROVE ReducedInv'
<1> DEFINE e == Entry[1]
           m == Matrix
           n == RowCount(e)
           c == ColumnCount(e)
           T == Allowed(e, cond[who])
           log == call.log
           k == SortByPivot(m, log)
<1>1. /\ pc = "gauss" /\ ChangeMatrix(k) /\ at' = at /\ call' = call /\ pc' = "equations"
      /\ m.updateRows = {}
  BY DEF Sort
<1>2. Shaped(m, n, c) /\ n \in Nat /\ c \in Nat /\ Pending(m)
  BY <1>1, MatrixIs, MatrixReduces
<1>3. Follows(k, m, T, log, n, c) /\ Settled(k)
  <2> HIDE DEF e, m, n, c, T, log
  <2> QED BY <1>1, <1>2, SortFollows, SortSettled
<1>4. GoesOn(k)
  BY <1>3 DEF GoesOn
<1> HIDE DEF k
<1> QED BY <1>1, <1>3, <1>4, MatrixStepReduces

\* A contradiction leaves rows that wait; they are taken back, or the matrices given up.
LEMMA RefuseEquationReduces == ASSUME PropInv, ReducedInv, RefuseEquation PROVE ReducedInv'
<1> DEFINE e == Entry[1]
           m == Matrix
           n == RowCount(e)
           c == ColumnCount(e)
           T == Allowed(e, cond[who])
           log == call.log
           k == EpsilonGauss(m, log)
<1>1. /\ pc = "gauss" /\ ChangeMatrix(k) /\ at' = at /\ call' = call /\ pc' = "refused"
      /\ m.updateRows # {}
  BY DEF RefuseEquation
<1>2. Shaped(m, n, c) /\ n \in Nat /\ c \in Nat
  BY <1>1, MatrixIs
<1>3. Follows(k, m, T, log, n, c)
  <2> HIDE DEF e, m, n, c, T, log
  <2> QED BY <1>1, <1>2, EpsilonGaussFollows
<1>4. GoesOn(k)
  BY <1>3 DEF GoesOn
<1> HIDE DEF k
<1> QED BY <1>1, <1>4, MatrixStepReduces

\* The rows that are looked at stay as they are.
LEMMA LinearDoneReduces == ASSUME PropInv, ReducedInv, LinearDone PROVE ReducedInv'
<1> DEFINE e == Entry[1]
           m == Matrix
           n == RowCount(e)
           d == ColumnCount(e)
<1>1. PICK k : /\ pc = "equations" /\ ChangeMatrix(k) /\ (k = m \/ k = [m EXCEPT !.extract = {}])
               /\ at' = at /\ call' = call /\ pc' \in {"update", "refused"}
  BY DEF LinearDone
<1>2. Shaped(m, n, d) /\ n \in Nat /\ d \in Nat /\ Settled(m)
  BY <1>1, MatrixIs, MatrixReduces
<1>3. m \in MatrixSet(n, d)
  BY <1>2 DEF Shaped
<1> HIDE DEF m, e
<1>4. /\ k \in MatrixSet(n, d) /\ Same(k, m) /\ k.changes = m.changes
      /\ k.updateRows = m.updateRows /\ k.updatePivot = m.updatePivot
  BY <1>1, <1>3 DEF MatrixSet, Same
<1>5. m.updateRows = {} /\ m.updatePivot = {}
  BY <1>2 DEF Settled
<1>6. Settled(k)
  BY <1>2, <1>4, <1>5, SettledLike
<1>7. Follows(k, m, Allowed(e, cond[who]), call.log, n, d)
  BY <1>2, <1>4, MarkedFollows
<1>8. GoesOn(k)
  BY <1>7 DEF GoesOn, m, e
<1> QED BY <1>1, <1>6, <1>8, MatrixStepReduces

\* Every step of an Update.
LEMMA UpdateStepReduces == ASSUME PropInv, ReducedInv, UpdateStep PROVE ReducedInv'
<1>1. CASE UpdateDone
  BY <1>1, IdleReduces DEF UpdateDone
<1>2. CASE UpdateBitslice
  BY <1>2, IdleReduces DEF UpdateBitslice
<1>3. CASE UpdateLinear
  BY <1>3, IdleReduces DEF UpdateLinear
<1> QED BY <1>1, <1>2, <1>3, AddNextReduces, ReduceReduces, RefuseEquationReduces, SortReduces,
           LinearDoneReduces DEF UpdateStep

-----------------------------------------------------------------------------
(* Reduced form in calls and returns *)

\* An Update is called on settled matrices.
LEMMA CallReduces ==
    ASSUME NEW name, NEW x, NEW log, NEW conds, NEW lists, NEW b, NEW bc,
           SetAndUpdate(name, x, log, conds, lists, b, bc),
           AllSettled(heap'[at'["kept"]]), AllSettled(heap'[at'[x]]),
           name \in Tries => AllSettled(UndoAll(heap'[at'[x]]))
    PROVE  ReducedInv'
<1>1. /\ call' = [name |-> name, who |-> x, log |-> log, cond |-> cond'[x]]
      /\ pc' = "update"
  BY DEF SetAndUpdate
<1>2. who' = x /\ (Trying' => name \in Tries) /\ Eliminating' = {}
  BY <1>1 DEF who, Trying, Tries, Eliminating
<1>3. Reducing(heap'[at'[who']], Eliminating')
  BY <1>2 DEF Reducing, AllSettled
<1> QED BY <1>2, <1>3 DEF ReducedInv

\* A caller returns with settled matrices, or it is lost.
LEMMA ReturnReduces ==
    ASSUME NEW place \in {"ready", "lost"}, Return(place), AllSettled(heap'[at'["kept"]]),
           place = "ready" => AllSettled(heap'[at'["char"]])
    PROVE  ReducedInv'
<1>1. /\ pc' = place
      /\ call' = [name |-> "none", who |-> "char", log |-> FALSE, cond |-> Start]
  BY DEF Return, NoCall
<1>2. who' = "char" /\ ~ Trying' /\ Eliminating' = {}
  BY <1>1 DEF who, Trying, Eliminating
<1>3. place = "ready" => Reducing(heap'[at'[who']], Eliminating')
  BY <1>2 DEF Reducing, AllSettled
<1> QED BY <1>1, <1>2, <1>3 DEF ReducedInv

\* Between two Updates, wherever the last one did not fail.
LEMMA BetweenSettled ==
    ASSUME PropInv, ReducedInv
    PROVE  /\ AllSettled(heap[at["kept"]])
           /\ pc \in {"ready", "held"} => AllSettled(heap[at[who]])
           /\ (pc \in {"held", "refused"} /\ call.name \in Tries) =>
                  AllSettled(UndoAll(heap[at["char"]]))
<1>1. ASSUME pc \in {"ready", "held"} PROVE AllSettled(heap[at[who]])
  <2>1. Eliminating = {} /\ Reducing(heap[at[who]], Eliminating)
    BY <1>1 DEF Eliminating, ReducedInv
  <2> QED BY <2>1 DEF Reducing, AllSettled
<1>2. ASSUME pc \in {"held", "refused"}, call.name \in Tries
      PROVE  AllSettled(UndoAll(heap[at["char"]]))
  <2>1. Trying /\ at["char"] = at["tmp"]
    BY <1>2, UndoneIsFaithful
  <2>2. at[who] = at["char"]
    BY <2>1, WhoIs
  <2> QED BY <2>1, <2>2 DEF ReducedInv
<1> QED BY <1>1, <1>2 DEF ReducedInv

\* A guess is tried on the matrices of char, with a log that starts afresh.
LEMMA SharedTryReduces ==
    ASSUME PropInv, ReducedInv, pc = "ready", NEW b, NEW name, NEW x \in {"char", "tmp"}, NEW bc,
           heap' = Freed([heap EXCEPT ![at["char"]] = FixAll(heap[at["char"]])]),
           TryOn(name, x, b, bc)
    PROVE  ReducedInv'
<1> DEFINE f == heap[at["char"]]
           g == FixAll(f)
           conds == [cond EXCEPT !["tmp"] = cond["char"]]
           lists == [list EXCEPT !["tmp"] = list["char"]]
<1>1. /\ at' = [at EXCEPT !["tmp"] = at["char"]]
      /\ SetAndUpdate(name, x, TRUE, conds, lists, b, bc)
  BY DEF TryOn, Shared
<1>2. f \in StepMatrices /\ AllSettled(f) /\ AllSettled(heap[at["kept"]])
  <2>1. who = "char"
    BY BetweenIs
  <2> QED BY <2>1, BetweenIs, BetweenSettled
<1>3. g \in StepMatrices /\ AllSettled(g) /\ AllSettled(UndoAll(g))
  <2> HIDE DEF f
  <2> QED BY <1>2, FixAllIs, FixAllSettled
<1> HIDE DEF f, g
<1>4. heap'[at["char"]] = g /\ heap'[at["kept"]] = heap[at["kept"]]
  BY <1>3, FreedIs DEF f, g
<1>5. at'["kept"] = at["kept"] /\ at'["char"] = at["char"] /\ at'["tmp"] = at["char"]
  BY <1>1, BetweenIs
<1>6. at'[x] = at["char"]
  BY <1>5
<1> HIDE DEF conds, lists
<1> QED BY <1>1, <1>2, <1>3, <1>4, <1>5, <1>6, CallReduces

\* Guesses of GuessBit, EvaluatePos and Complete.
LEMMA GuessReduces ==
    ASSUME PropInv, ReducedInv, NEW b \in Bit,
           CompleteBit(b) \/ \E name \in {"first", "evaluate"}, i \in {1, 2} : GuessBit(name, b, i)
    PROVE  ReducedInv'
<1>1. ASSUME NEW name \in {"first", "evaluate"}, NEW i \in {1, 2}, GuessBit(name, b, i)
      PROVE  ReducedInv'
  <2>1. PICK bc : TryOn(name, "char", b, bc)
    BY <1>1 DEF GuessBit
  <2>2. pc = "ready" /\ heap' = Freed([heap EXCEPT ![at["char"]] = FixAll(heap[at["char"]])])
    BY <1>1 DEF GuessBit, EachMatrix, FixChanges, FixAll
  <2> QED BY <2>1, <2>2, SharedTryReduces
<1>2. ASSUME CompleteBit(b) PROVE ReducedInv'
  <2>1. PICK bc : TryOn("try one", "tmp", b, bc)
    BY <1>2 DEF CompleteBit
  <2>2. pc = "ready" /\ heap' = Freed([heap EXCEPT ![at["char"]] = FixAll(heap[at["char"]])])
    BY <1>2 DEF CompleteBit, EachMatrix, FixChanges, FixAll
  <2> QED BY <2>1, <2>2, SharedTryReduces
<1> QED BY <1>1, <1>2

\* What Undo makes of the matrices of a guess is settled.
LEMMA FirstTriedReduces == ASSUME PropInv, ReducedInv, FirstTried PROVE ReducedInv'
<1>1. pc \in {"held", "refused"} /\ call.name = "first" /\ at' = at /\ call.name \in Tries
  BY DEF FirstTried, Returned, Tries
<1>2. who = "char"
  BY <1>1, BetweenIs
<1>3. CASE pc = "held" /\ Ready /\ heap' = heap
  <2>1. AllSettled(heap'[at'["kept"]]) /\ AllSettled(heap'[at'["char"]])
    BY <1>1, <1>2, <1>3, BetweenSettled
  <2> QED BY <1>3, <2>1, ReturnReduces DEF Ready
<1>4. CASE /\ heap' = [heap EXCEPT ![at["char"]] = UndoAll(heap[at["char"]])]
           /\ SetAndUpdate("second", "tmp", TRUE, cond, list, guess.bit, guess.choices[2])
  <2>1. AllSettled(UndoAll(heap[at["char"]])) /\ AllSettled(heap[at["kept"]])
    BY <1>1, BetweenSettled
  <2>2. at["char"] = at["tmp"]
    BY <1>1, UndoneIsFaithful
  <2>3. AllSettled(heap'[at'["kept"]]) /\ AllSettled(heap'[at'["tmp"]])
    BY <1>1, <1>4, <2>1, <2>2, BetweenIs
  <2>4. "second" \notin Tries
    BY DEF Tries
  <2> QED BY <1>4, <2>3, <2>4, CallReduces
<1> QED BY <1>3, <1>4 DEF FirstTried, EachMatrix, UndoAll

\* char takes the matrices of tmp, which are settled.
LEMMA ShallowCopyReduces ==
    ASSUME PropInv, ReducedInv, Return("ready"), NEW f \in StepMatrices, AllSettled(f),
           at' = Shared(at, "char", "tmp"), heap' = [heap EXCEPT ![at["tmp"]] = FixAll(f)]
    PROVE  ReducedInv'
<1> DEFINE g == FixAll(f)
<1>1. AllSettled(g)
  BY FixAllSettled
<1> HIDE DEF g
<1>2. heap' = [heap EXCEPT ![at["tmp"]] = g]
  BY DEF g
<1>3. at'["kept"] = at["kept"] /\ at'["char"] = at["tmp"]
  BY BetweenIs DEF Shared
<1>4. AllSettled(heap'[at'["kept"]]) /\ AllSettled(heap'[at'["char"]])
  BY <1>1, <1>2, <1>3, BetweenIs, BetweenSettled
<1> QED BY <1>4, ReturnReduces

\* The second choice held, or the characteristic is lost.
LEMMA SecondTriedReduces == ASSUME PropInv, ReducedInv, SecondTried PROVE ReducedInv'
<1>1. pc \in {"held", "refused"} /\ call.name = "second"
  BY DEF SecondTried, Returned
<1>2. who = "tmp"
  BY <1>1, BetweenIs
<1>3. CASE pc = "held" /\ Ready /\ ShallowCopyBack(heap[at["tmp"]])
  <2> DEFINE f == heap[at["tmp"]]
  <2>1. f \in StepMatrices /\ AllSettled(f)
    BY <1>2, <1>3, BetweenIs, BetweenSettled
  <2>2. /\ at' = Shared(at, "char", "tmp") /\ heap' = [heap EXCEPT ![at["tmp"]] = FixAll(f)]
        /\ Return("ready")
    BY <1>3 DEF ShallowCopyBack, EachMatrix, FixChanges, FixAll, Ready
  <2> HIDE DEF f
  <2> QED BY <2>1, <2>2, ShallowCopyReduces
<1>4. CASE Return("lost") /\ UNCHANGED <<cond, list, at, heap>>
  <2>1. AllSettled(heap'[at'["kept"]]) /\ "lost" \in {"ready", "lost"} /\ "lost" # "ready"
    BY <1>4, BetweenSettled
  <2> QED BY <1>4, <2>1, ReturnReduces
<1> QED BY <1>3, <1>4 DEF SecondTried

\* The log of the evaluation is taken back.
LEMMA EvaluatedReduces == ASSUME PropInv, ReducedInv, Evaluated PROVE ReducedInv'
<1> DEFINE f == UndoAll(heap[at["char"]])
<1>1. pc \in {"held", "refused"} /\ call.name = "evaluate" /\ call.name \in Tries
  BY DEF Evaluated, Returned, Tries
<1>2. f \in StepMatrices /\ AllSettled(f)
  BY <1>1, UndoneIsFaithful, BetweenSettled
<1>3. /\ at' = Shared(at, "char", "tmp") /\ heap' = [heap EXCEPT ![at["tmp"]] = FixAll(f)]
      /\ Return("ready")
  BY DEF Evaluated, ShallowCopyBack, EachMatrix, FixChanges, FixAll, UndoAll, Ready
<1> HIDE DEF f
<1> QED BY <1>2, <1>3, ShallowCopyReduces

\* The log of the first choice is taken back, and the second one tried.
LEMMA OneTriedReduces == ASSUME PropInv, ReducedInv, OneTried PROVE ReducedInv'
<1> DEFINE f == UndoAll(heap[at["tmp"]])
           g == FixAll(f)
           conds == [cond EXCEPT !["tmp"] = cond["char"]]
           lists == [list EXCEPT !["tmp"] = list["char"]]
<1>1. pc \in {"held", "refused"} /\ call.name = "try one" /\ call.name \in Tries
  BY DEF OneTried, Returned, Tries
<1>2. /\ heap' = [heap EXCEPT ![at["tmp"]] = g]
      /\ at' = [at EXCEPT !["tmp"] = at["char"]]
      /\ SetAndUpdate("try two", "tmp", TRUE, conds, lists, guess.bit, guess.choices[2])
  BY DEF OneTried, EachMatrix, UndoAll, FixAll, FixChanges, TryOn, Shared
<1>3. at["char"] = at["tmp"] /\ f \in StepMatrices /\ AllSettled(f)
  BY <1>1, UndoneIsFaithful, BetweenSettled
<1> HIDE DEF f
<1>4. AllSettled(g) /\ AllSettled(UndoAll(g))
  BY <1>3, FixAllSettled
<1> HIDE DEF g, conds, lists
<1>5. at'["kept"] = at["kept"] /\ at'["tmp"] = at["tmp"]
  BY <1>2, <1>3, BetweenIs
<1>6. heap'[at'["tmp"]] = g /\ AllSettled(heap'[at'["kept"]])
  BY <1>2, <1>5, BetweenIs, BetweenSettled
<1> QED BY <1>2, <1>4, <1>6, CallReduces

\* The log of the second choice is taken back, and char takes what is left.
LEMMA TwoTriedReduces == ASSUME PropInv, ReducedInv, TwoTried PROVE ReducedInv'
<1> DEFINE g == UndoAll(heap[at["tmp"]])
<1>1. pc \in {"held", "refused"} /\ call.name = "try two" /\ call.name \in Tries /\ at' = at
  BY DEF TwoTried, Returned, Tries
<1>2. heap' = [heap EXCEPT ![at["tmp"]] = g]
  BY DEF TwoTried, EachMatrix, UndoAll
<1>3. at["char"] = at["tmp"] /\ AllSettled(g)
  BY <1>1, UndoneIsFaithful, BetweenSettled
<1> HIDE DEF g
<1>4. AllSettled(heap'[at'["kept"]]) /\ AllSettled(heap'[at'["char"]])
  BY <1>1, <1>2, <1>3, BetweenIs, BetweenSettled
<1>5. \/ Return("ready") \/ Return("lost")
      \/ \E i \in {1, 2} :
            SetAndUpdate("keep", "char", FALSE, cond, list, guess.bit, guess.choices[i])
  <2>1. (IF results THEN 1 ELSE 2) \in {1, 2}
    OBVIOUS
  <2> QED BY <2>1 DEF TwoTried, Ready
<1>6. ASSUME NEW i \in {1, 2},
             SetAndUpdate("keep", "char", FALSE, cond, list, guess.bit, guess.choices[i])
      PROVE  ReducedInv'
  <2> DEFINE b == guess.bit
             bc == guess.choices[i]
  <2>1. SetAndUpdate("keep", "char", FALSE, cond, list, b, bc)
    BY <1>6
  <2> HIDE DEF b, bc
  <2>2. "keep" \notin Tries
    BY DEF Tries
  <2> QED BY <1>4, <2>1, <2>2, CallReduces
<1>7. ASSUME NEW place \in {"ready", "lost"}, Return(place) PROVE ReducedInv'
  BY <1>4, <1>7, ReturnReduces
<1> QED BY <1>5, <1>6, <1>7

\* Complete goes on; what it keeps held.
LEMMA KeptReduces == ASSUME PropInv, ReducedInv, KeepNeverFails, Kept PROVE ReducedInv'
<1>1. /\ pc \in {"held", "refused"} /\ call.name = "keep" /\ Return("ready")
      /\ at' = at /\ heap' = heap
  BY DEF Kept, Returned, Ready
<1>2. pc = "held" /\ who = "char"
  BY <1>1, BetweenIs DEF KeepNeverFails
<1>3. AllSettled(heap'[at'["kept"]]) /\ AllSettled(heap'[at'["char"]])
  BY <1>1, <1>2, BetweenSettled
<1> QED BY <1>1, <1>3, ReturnReduces

\* A guess from the stack was tried.
LEMMA BackTrackedReduces == ASSUME PropInv, ReducedInv, BackTracked PROVE ReducedInv'
<1> DEFINE place == IF pc = "held" THEN "ready" ELSE "lost"
<1>1. /\ pc \in {"held", "refused"} /\ call.name = "back" /\ Return(place)
      /\ at' = at /\ heap' = heap
  BY DEF BackTracked, Returned
<1>2. who = "char" /\ place \in {"ready", "lost"} /\ (place = "ready" => pc = "held")
  BY <1>1, BetweenIs
<1> HIDE DEF place
<1>3. AllSettled(heap'[at'["kept"]]) /\ (place = "ready" => AllSettled(heap'[at'["char"]]))
  BY <1>1, <1>2, BetweenSettled
<1> QED BY <1>1, <1>2, <1>3, ReturnReduces

\* The stack keeps a copy.
LEMMA KeepReduces == ASSUME PropInv, ReducedInv, Keep PROVE ReducedInv'
<1> DEFINE f == heap[at["char"]]
           g == FixAll(f)
<1>1. /\ pc = "ready" /\ pc' = pc /\ call' = call /\ at' = at
      /\ heap' = [heap EXCEPT ![at["kept"]] = g]
  BY DEF Keep, EachMatrix, CopyOf, FixAll
<1>2. who = "char" /\ who' = who /\ Eliminating' = {} /\ ~ Trying'
  BY <1>1, BetweenIs DEF who, Eliminating, Trying
<1>3. AllSettled(f) /\ f \in StepMatrices
  BY <1>1, <1>2, BetweenIs, BetweenSettled
<1> HIDE DEF f
<1>4. AllSettled(g)
  BY <1>3, FixAllSettled
<1> HIDE DEF g
<1>5. AllSettled(heap'[at'["kept"]]) /\ heap'[at'["char"]] = f
  BY <1>1, <1>4, BetweenIs DEF f
<1>6. Reducing(heap'[at'[who']], Eliminating')
  BY <1>2, <1>3, <1>5 DEF Reducing, AllSettled
<1> QED BY <1>2, <1>5, <1>6 DEF ReducedInv

\* The search goes back to the copy that is kept.
LEMMA RestartReduces == ASSUME PropInv, ReducedInv, Restart PROVE ReducedInv'
<1> DEFINE f == heap[at["kept"]]
           g == FixAll(f)
<1>1. Return("ready") /\ at' = at /\ heap' = [heap EXCEPT ![at["char"]] = g]
  BY DEF Restart, Ready, EachMatrix, CopyOf, FixAll
<1>2. AllSettled(f) /\ f \in StepMatrices
  BY BetweenIs, BetweenSettled
<1> HIDE DEF f
<1>3. AllSettled(g)
  BY <1>2, FixAllSettled
<1> HIDE DEF g
<1>4. AllSettled(heap'[at'["kept"]]) /\ AllSettled(heap'[at'["char"]])
  BY <1>1, <1>2, <1>3, BetweenIs DEF f
<1> QED BY <1>1, <1>4, ReturnReduces

\* A choice is tried on a copy of what the stack keeps.
LEMMA BackTrackReduces ==
    ASSUME PropInv, ReducedInv, NEW b \in Bit, NEW i \in {1, 2}, BackTrack(b, i)
    PROVE  ReducedInv'
<1> DEFINE f == heap[at["kept"]]
           g == FixAll(f)
           c == FreeCell
<1>1. PICK conds, lists, bc :
         /\ at' = [at EXCEPT !["char"] = c] /\ heap' = [heap EXCEPT ![c] = g]
         /\ SetAndUpdate("back", "char", TRUE, conds, lists, b, bc)
  BY DEF BackTrack, EachMatrix, CopyOf, FixAll
<1>2. c \in Cell /\ c # at["kept"]
  <2>1. \E x \in Cell : x \notin {at["kept"], at["tmp"]}
    <3>1. 1 \in Cell /\ 2 \in Cell /\ 3 \in Cell
      BY DEF Cell
    <3> QED BY <3>1
  <2> QED BY <2>1 DEF FreeCell
<1>3. AllSettled(f) /\ f \in StepMatrices
  BY BetweenIs, BetweenSettled
<1> HIDE DEF f
<1>4. AllSettled(g)
  BY <1>3, FixAllSettled
<1> HIDE DEF g, c
<1>5. at'["kept"] = at["kept"] /\ at'["char"] = c
  BY <1>1, <1>2, BetweenIs
<1>6. AllSettled(heap'[at'["kept"]]) /\ AllSettled(heap'[at'["char"]])
  BY <1>1, <1>2, <1>3, <1>4, <1>5, BetweenIs DEF f
<1>7. "back" \notin Tries
  BY DEF Tries
<1> QED BY <1>1, <1>6, <1>7, CallReduces

\* The search starts with copies.
LEMMA SearchStartsReduces == ASSUME PropInv, ReducedInv, SearchStarts PROVE ReducedInv'
<1> DEFINE f == heap[at["char"]]
           g == FixAll(f)
<1>1. /\ pc = "held" /\ call.name = "all" /\ Return("ready") /\ at' = at
      /\ heap' = [x \in Cell |-> g]
  BY DEF SearchStarts, Returned, Ready, EachMatrix, CopyOf, FixAll
<1>2. who = "char"
  BY <1>1, BetweenIs
<1>3. AllSettled(f) /\ f \in StepMatrices
  BY <1>1, <1>2, BetweenIs, BetweenSettled
<1> HIDE DEF f
<1>4. AllSettled(g)
  BY <1>3, FixAllSettled
<1> HIDE DEF g
<1>5. AllSettled(heap'[at'["kept"]]) /\ AllSettled(heap'[at'["char"]])
  BY <1>1, <1>4, BetweenIs
<1> QED BY <1>1, <1>5, ReturnReduces

\* The main program starts with matrices without an equation.
LEMMA InitReduced == ASSUME Init PROVE ReducedInv
<1>1. PropInv
  BY InitHolds
<1>2. heap = [c \in Cell |-> NewMatrices] /\ call.name = "all" /\ pc = "update"
  BY DEF Init
<1>3. heap[at["kept"]] = NewMatrices /\ heap[at[who]] = NewMatrices
  BY <1>1, <1>2, WhoIs
<1>4. Eliminating = {} /\ ~ Trying
  BY <1>2 DEF Eliminating, Trying
<1>5. Reducing(NewMatrices, {}) /\ AllSettled(NewMatrices)
  BY NewMatricesSettled DEF Reducing, AllSettled
<1> QED BY <1>3, <1>4, <1>5 DEF ReducedInv

\* No step breaks the reduced form, if what Complete keeps holds.
LEMMA StepReduces ==
    ASSUME PropInv, ReducedInv, KeepNeverFails, [Next]_vars
    PROVE  ReducedInv'
<1>1. CASE UpdateStep
  BY <1>1, UpdateStepReduces
<1>2. CASE \E b \in Bit : \/ \E i \in {1, 2} : \/ GuessBit("first", b, i)
                                               \/ GuessBit("evaluate", b, i)
                                               \/ BackTrack(b, i)
                          \/ CompleteBit(b)
  BY <1>2, GuessReduces, BackTrackReduces
<1>3. CASE FirstTried \/ SecondTried \/ Evaluated \/ OneTried \/ TwoTried \/ Kept
  BY <1>3, FirstTriedReduces, SecondTriedReduces, EvaluatedReduces, OneTriedReduces,
     TwoTriedReduces, KeptReduces
<1>4. CASE SearchStarts \/ Keep \/ Restart \/ BackTracked
  BY <1>4, SearchStartsReduces, KeepReduces, RestartReduces, BackTrackedReduces
<1>5. CASE UNCHANGED vars
  <2>1. list' = list /\ at' = at /\ heap' = heap /\ pc' = pc /\ call' = call
    BY <1>5 DEF vars
  <2>2. who' = who
    BY <2>1 DEF who
  <2>3. Eliminating' = Eliminating
    BY <2>1, <2>2 DEF Eliminating, Entry
  <2>4. Trying' <=> Trying
    BY <2>1, <2>2 DEF Trying
  <2> QED BY <2>1, <2>2, <2>3, <2>4 DEF ReducedInv
<1> QED BY <1>1, <1>2, <1>3, <1>4, <1>5 DEF Next

\* Settled matrices are reduced, and the data that speak of them are right.
LEMMA ReducedMatrices == ASSUME PropInv, ReducedInv PROVE MatrixIsReduced
<1>1. SUFFICES ASSUME pc \in {"equations", "ready"}, NEW s \in LinearSteps,
                      NEW m, m = heap[at[who]][s]
               PROVE  /\ IsReducedRowEchelon(m)
                      /\ \A r \in Rows(m) : Pivot(m, r) = ComputePivot(m, Content(m, r))
                      /\ m.rowinv = Positions(m.row)
                      /\ m.updateRows = {} /\ m.updatePivot = {}
  BY DEF MatrixIsReduced
<1>2. Reducing(heap[at[who]], Eliminating) /\ Eliminating = {}
  BY <1>1 DEF ReducedInv, Eliminating
<1>3. Settled(m)
  BY <1>1, <1>2 DEF Reducing
<1>4. Shaped(m, RowCount(s), ColumnCount(s)) /\ RowCount(s) \in Nat /\ ColumnCount(s) \in Nat
  BY <1>1, WhoIs, StepMatrixIs
<1> QED BY <1>3, <1>4, SettledReduced

\* What Undo makes of the shared matrices is reduced and fits the other characteristic.
LEMMA ReducedUndo == ASSUME PropInv, ReducedInv PROVE UndoRestores
<1> DEFINE undone == EachMatrix(heap[at[who]], Undo)
           f == UndoAll(heap[at[who]])
<1>1. SUFFICES ASSUME Trying
               PROVE  /\ Faithful(undone, cond[Untouched])
                      /\ \A s \in LinearSteps : IsReducedRowEchelon(undone[s])
  BY DEF UndoRestores
<1>2. undone = f
  BY DEF EachMatrix, UndoAll
<1>3. AllUndoable(heap[at[who]]) /\ Faithful(f, cond[Untouched])
  <2>1. AllUndoable(heap[at[who]]) /\ Exact(f, cond[Untouched])
    BY <1>1 DEF PropInv, MatricesHold, UndoFaithful
  <2>2. cond[Untouched] \in [Bit -> Condition]
    BY WhoIs DEF PropInv, Typed, Owner
  <2>3. Below(cond[Untouched], cond[Untouched])
    BY DEF Below
  <2> QED BY <2>1, <2>2, <2>3, ExactBelow
<1>4. f \in StepMatrices
  BY <1>3, WhoIs, UndoAllIs
<1>5. AllSettled(f)
  BY <1>1 DEF ReducedInv
<1> HIDE DEF undone, f
<1>6. \A s \in LinearSteps : IsReducedRowEchelon(f[s])
  <2>1. TAKE s \in LinearSteps
  <2>2. Settled(f[s])
    BY <1>5 DEF AllSettled
  <2>3. Shaped(f[s], RowCount(s), ColumnCount(s)) /\ RowCount(s) \in Nat /\ ColumnCount(s) \in Nat
    BY <1>4, StepMatrixIs
  <2> QED BY <2>2, <2>3, SettledReduced
<1> QED BY <1>2, <1>3, <1>6

=============================================================================
