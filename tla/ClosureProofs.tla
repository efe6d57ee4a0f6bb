---------------------------- MODULE ClosureProofs ----------------------------
(***************************************************************************)
(* Proofs about what Update reaches with linear steps: what a matrix in    *)
(* reduced form says of single bits is all that follows from it, what is   *)
(* not in the worklist has nothing more to say, and so no step narrows the *)
(* conditions at the end; for every list of steps and every start.         *)
(***************************************************************************)
EXTENDS PropagationProofs

-----------------------------------------------------------------------------
(* Solutions of equations *)

\* Setting one more variable to 1 turns an equation that has it, and no other.
LEMMA Toggle ==
    ASSUME NEW c \in Nat, NEW E \in SUBSET (0..c), NEW W, NEW f, f \notin W
    PROVE  Solves(W \cup {f}, E, c) <=> (Solves(W, E, c) <=> f \notin E)
<1>1. CASE f \notin E
  <2>1. E \cap (W \cup {f}) = E \cap W
    BY <1>1
  <2> QED BY <1>1, <2>1 DEF Solves
<1>2. CASE f \in E
  <2>1. E \cap (W \cup {f}) = SymDiff(E \cap W, {f})
    BY <1>2 DEF SymDiff
  <2>2. IsFiniteSet(E) /\ IsFiniteSet(E \cap W) /\ IsFiniteSet({f})
    <3>1. IsFiniteSet(0..c)
      BY FS_Interval
    <3>2. E \subseteq 0..c /\ E \cap W \subseteq 0..c
      OBVIOUS
    <3> QED BY <3>1, <3>2, FS_Subset, FS_Singleton
  <2>3. Odd({f} \cap {f}) <=> f \in {f}
    BY OddOne
  <2>4. {f} \cap {f} = {f}
    OBVIOUS
  <2>5. Odd({f})
    BY <2>3, <2>4
  <2>6. Odd(SymDiff(E \cap W, {f})) = (Odd(E \cap W) # Odd({f}))
    BY <2>2, OddSymDiff
  <2>7. Odd(E \cap W) \in BOOLEAN /\ (c \in E) \in BOOLEAN
    BY DEF Odd
  <2> QED BY <1>2, <2>1, <2>5, <2>6, <2>7 DEF Solves
<1> QED BY <1>1, <1>2

\* Variables that do not occur do not matter.
LEMMA SolvesAlike ==
    ASSUME NEW O, NEW W, NEW E, NEW c, E \cap O = E \cap W
    PROVE  Solves(O, E, c) <=> Solves(W, E, c)
BY DEF Solves

\* The empty equation holds.
LEMMA SolvesEmpty ==
    ASSUME NEW O, NEW c
    PROVE  Solves(O, {}, c)
<1>1. {} \cap O = {} /\ Cardinality({}) = 0
  BY FS_EmptySet
<1> QED BY <1>1 DEF Solves, Odd

\* The variables in W, and the pivots of the rows that they do not solve.
WithPivots(W, m, n, c) ==
    W \cup {Pivot(m, r) : r \in {q \in 0..(n - 1) : ~ Solves(W, Content(m, q), c)}}

(***************************************************************************)
(* Given the variables that are no pivots, the pivots follow: whatever is  *)
(* not solved yet is, once its pivot is set.                               *)
(***************************************************************************)
LEMMA PivotsFollow ==
    ASSUME NEW n \in Nat, NEW c \in Nat, NEW m, Shaped(m, n, c), Settled(m),
           NEW W \in SUBSET (0..(c - 1)),
           \A r \in 0..(n - 1) : Solves(W, Content(m, r), c) \/ Pivot(m, r) \notin W,
           NEW O, O = WithPivots(W, m, n, c)
    PROVE  SolvesRows(O, m) /\ O \in SUBSET (0..(c - 1))
<1>1. m \in MatrixSet(n, c) /\ Rows(m) = 0..(n - 1) /\ RHS(m) = c
  BY MatrixFacts DEF Shaped
<1>2. Eliminated(m, 0..(n - 1))
  BY SettledIs
<1>3. ASSUME NEW q \in 0..(n - 1), ~ Solves(W, Content(m, q), c)
      PROVE  /\ ~ IsZeroRow(m, q) /\ Pivot(m, q) \in 0..(c - 1) /\ Pivot(m, q) \notin W
             /\ Pivot(m, q) \in Content(m, q)
             /\ \A r \in 0..(n - 1) : r # q => Pivot(m, q) \notin Content(m, r)
  <2>1. Content(m, q) # {}
    BY <1>3, SolvesEmpty
  <2>2. /\ Pivot(m, q) \in 0..(c + 1)
        /\ IsZeroRow(m, q) <=> Content(m, q) = {}
        /\ IsZeroRow(m, q) <=> Pivot(m, q) = c + 1
        /\ IsContradiction(m, q) <=> Pivot(m, q) = c
        /\ ~ IsZeroRow(m, q) => Pivot(m, q) \in Content(m, q)
    BY PivotOfRow
  <2>3. ~ IsZeroRow(m, q) /\ ~ IsContradiction(m, q)
    BY <1>2, <2>1, <2>2 DEF Eliminated
  <2>4. \A r \in 0..(n - 1) : r # q => Pivot(m, q) \notin Content(m, r)
    BY <1>1, <1>2, <2>3 DEF Eliminated
  <2>5. Pivot(m, q) \in 0..(c - 1)
    BY <2>2, <2>3
  <2> QED BY <1>3, <2>2, <2>3, <2>4, <2>5
<1>4. ASSUME NEW r \in 0..(n - 1)
      PROVE  Solves(O, Content(m, r), c)
  <2> DEFINE A == Content(m, r)
  <2>1. A \in SUBSET (0..c)
    BY PivotOfRow
  <2>2. CASE Solves(W, A, c)
    <3>1. A \cap O = A \cap W
      BY <1>3, <2>2 DEF WithPivots
    <3> QED BY <2>2, <3>1, SolvesAlike
  <2>3. CASE ~ Solves(W, A, c)
    <3>1. Pivot(m, r) \notin W /\ Pivot(m, r) \in A
      BY <1>3, <2>3
    <3>2. A \cap O = A \cap (W \cup {Pivot(m, r)})
      <4>1. Pivot(m, r) \in O
        BY <2>3 DEF WithPivots
      <4>2. ASSUME NEW z \in A, z \in O PROVE z \in W \cup {Pivot(m, r)}
        BY <1>3, <4>2 DEF WithPivots
      <4> QED BY <4>1, <4>2 DEF WithPivots
    <3>3. Solves(W \cup {Pivot(m, r)}, A, c) <=> (Solves(W, A, c) <=> Pivot(m, r) \notin A)
      BY <2>1, <3>1, Toggle
    <3>4. Solves(W \cup {Pivot(m, r)}, A, c)
      BY <2>3, <3>1, <3>3
    <3> QED BY <3>2, <3>4, SolvesAlike
  <2> QED BY <2>2, <2>3
<1>5. O \in SUBSET (0..(c - 1))
  BY <1>3 DEF WithPivots
<1> QED BY <1>1, <1>4, <1>5 DEF SolvesRows

\* The columns of a row outside of two columns and the right-hand side.
Rest(m, r, x, y, c) == Content(m, r) \ {x, y, c}

\* Of the columns x and y the variables in V are 1: all that the rows say of only x and y holds.
Consistent(m, n, c, x, y, V) ==
    \A q, r \in 0..(n - 1) :
        /\ Content(m, r) \subseteq {x, y, c} => Solves(V, Content(m, r), c)
        /\ SymDiff(Content(m, q), Content(m, r)) \subseteq {x, y, c} =>
              Solves(V, SymDiff(Content(m, q), Content(m, r)), c)

\* What rows with a pivot in x or y have besides is no pivot.
LEMMA RestIsFree ==
    ASSUME NEW n \in Nat, NEW c \in Nat, NEW m, Shaped(m, n, c), Settled(m),
           NEW x \in 0..(c - 1), NEW y \in 0..(c - 1), NEW r \in 0..(n - 1),
           Pivot(m, r) \in {x, y}, NEW f \in Rest(m, r, x, y, c)
    PROVE  /\ f \in (0..(c - 1)) \ {x, y}
           /\ \A q \in 0..(n - 1) : ~ IsZeroRow(m, q) => Pivot(m, q) # f
<1>1. Content(m, r) \in SUBSET (0..c)
  BY PivotOfRow
<1>2. f \in (0..(c - 1)) \ {x, y}
  BY <1>1 DEF Rest
<1>3. Rows(m) = 0..(n - 1)
  BY MatrixFacts DEF Shaped
<1>4. Eliminated(m, 0..(n - 1))
  BY SettledIs
<1>5. ASSUME NEW q \in 0..(n - 1), ~ IsZeroRow(m, q), Pivot(m, q) = f PROVE FALSE
  <2>1. q # r
    BY <1>2, <1>5
  <2>2. Pivot(m, q) \notin Content(m, r)
    BY <1>3, <1>4, <1>5, <2>1 DEF Eliminated
  <2> QED BY <1>5, <2>2 DEF Rest
<1> QED BY <1>2, <1>5

\* At most two rows have their pivot in x or y.
LEMMA AtMostTwo ==
    ASSUME NEW n \in Nat, NEW c \in Nat, NEW m, Shaped(m, n, c), Settled(m),
           NEW x \in 0..(c - 1), NEW y \in 0..(c - 1), NEW r \in 0..(n - 1), NEW q \in 0..(n - 1),
           r # q, Pivot(m, r) \in {x, y}, Pivot(m, q) \in {x, y},
           NEW s \in 0..(n - 1), Pivot(m, s) \in {x, y}
    PROVE  s \in {r, q}
<1>1. Eliminated(m, 0..(n - 1))
  BY SettledIs
<1>2. ASSUME NEW u \in 0..(n - 1), NEW v \in 0..(n - 1), u # v, Pivot(m, u) \in {x, y}
      PROVE  Pivot(m, u) # Pivot(m, v)
  <2>1. ~ IsZeroRow(m, u)
    BY <1>2, PivotOfRow
  <2> QED BY <1>1, <1>2, <2>1, PivotsDiffer
<1> QED BY <1>2


\* F has neither pivots nor x nor y; with it the rows hold that have their pivot in x or y.
FreeFor(F, m, n, c, x, y, V) ==
    /\ F \in SUBSET ((0..(c - 1)) \ {x, y})
    /\ \A q \in 0..(n - 1) : ~ IsZeroRow(m, q) => Pivot(m, q) \notin F
    /\ \A r \in 0..(n - 1) : Pivot(m, r) \in {x, y} => Solves(V \cup F, Content(m, r), c)

(***************************************************************************)
(* Values for columns that are neither pivots nor x nor y, so that the     *)
(* rows with a pivot in x or y hold: what one of them has besides can be   *)
(* set as it needs it, and so for two, unless both have the same; then     *)
(* their sum is about x and y only.                                        *)
(***************************************************************************)
LEMMA FreeValues ==
    ASSUME NEW n \in Nat, NEW c \in Nat, NEW m, Shaped(m, n, c), Settled(m),
           NEW x \in 0..(c - 1), NEW y \in 0..(c - 1), NEW V \in SUBSET {x, y},
           Consistent(m, n, c, x, y, V)
    PROVE  \E F : FreeFor(F, m, n, c, x, y, V)
<1> DEFINE Sol(W, r) == Solves(W, Content(m, r), c)
           R(r) == Rest(m, r, x, y, c)
           Bad(r) == r \in 0..(n - 1) /\ Pivot(m, r) \in {x, y} /\ ~ Sol(V, r)
<1>1. ASSUME NEW W, NEW f, f \notin W, NEW r \in 0..(n - 1)
      PROVE  Sol(W \cup {f}, r) <=> (Sol(W, r) <=> f \notin Content(m, r))
  <2>1. Content(m, r) \in SUBSET (0..c)
    BY PivotOfRow
  <2> QED BY <1>1, <2>1, Toggle
<1>2. ASSUME NEW r \in 0..(n - 1), Pivot(m, r) \in {x, y}, NEW f \in R(r)
      PROVE  /\ f \in (0..(c - 1)) \ {x, y} /\ f \notin V
             /\ \A q \in 0..(n - 1) : ~ IsZeroRow(m, q) => Pivot(m, q) # f
             /\ \A q \in 0..(n - 1) : f \in R(q) <=> f \in Content(m, q)
  <2>1. /\ f \in (0..(c - 1)) \ {x, y}
        /\ \A q \in 0..(n - 1) : ~ IsZeroRow(m, q) => Pivot(m, q) # f
    BY <1>2, RestIsFree
  <2> QED BY <2>1 DEF Rest
<1>3. ASSUME NEW r, Bad(r) PROVE R(r) # {}
  BY <1>3 DEF Rest, Consistent
<1> DEFINE Good2(F) ==
              /\ F \in SUBSET ((0..(c - 1)) \ {x, y})
              /\ \A q \in 0..(n - 1) : ~ IsZeroRow(m, q) => Pivot(m, q) \notin F
              /\ \A r \in 0..(n - 1) : Pivot(m, r) \in {x, y} => Sol(V \cup F, r)
<1> HIDE DEF Sol, R
<1>4. ASSUME \A r \in 0..(n - 1) : Pivot(m, r) \in {x, y} => Sol(V, r)
      PROVE  \E F : Good2(F)
  <2>1. V \cup {} = V
    OBVIOUS
  <2>2. Good2({})
    BY <1>4, <2>1
  <2> QED BY <2>2
<1>5. ASSUME NEW r \in 0..(n - 1), Bad(r), NEW f \in R(r),
             \A s \in 0..(n - 1) :
                 (Pivot(m, s) \in {x, y} /\ s # r) => (Sol(V, s) <=> f \notin R(s))
      PROVE  Good2({f})
  <2>1. /\ f \in (0..(c - 1)) \ {x, y} /\ f \notin V
        /\ \A q \in 0..(n - 1) : ~ IsZeroRow(m, q) => Pivot(m, q) # f
        /\ \A q \in 0..(n - 1) : f \in R(q) <=> f \in Content(m, q)
    BY <1>2, <1>5
  <2>2. ASSUME NEW s \in 0..(n - 1), Pivot(m, s) \in {x, y} PROVE Sol(V \cup {f}, s)
    <3>1. Sol(V \cup {f}, s) <=> (Sol(V, s) <=> f \notin Content(m, s))
      BY <1>1, <2>1
    <3> QED BY <1>5, <2>1, <2>2, <3>1
  <2> QED BY <2>1, <2>2
<1>6. ASSUME NEW r \in 0..(n - 1), Bad(r), NEW q \in 0..(n - 1), Pivot(m, q) \in {x, y}, q # r,
             NEW f \in R(r), NEW g \in R(q), g \notin R(r), Sol(V, q) <=> f \in R(q)
      PROVE  Good2({f, g})
  <2>1. /\ f \in (0..(c - 1)) \ {x, y} /\ f \notin V
        /\ \A p \in 0..(n - 1) : ~ IsZeroRow(m, p) => Pivot(m, p) # f
        /\ \A p \in 0..(n - 1) : f \in R(p) <=> f \in Content(m, p)
    BY <1>2, <1>6
  <2>2. /\ g \in (0..(c - 1)) \ {x, y} /\ g \notin V
        /\ \A p \in 0..(n - 1) : ~ IsZeroRow(m, p) => Pivot(m, p) # g
        /\ \A p \in 0..(n - 1) : g \in R(p) <=> g \in Content(m, p)
    BY <1>2, <1>6
  <2>3. g # f /\ g \notin V \cup {f} /\ V \cup {f, g} = (V \cup {f}) \cup {g}
    BY <1>6, <2>1, <2>2
  <2>4. ASSUME NEW s \in 0..(n - 1)
        PROVE  Sol(V \cup {f, g}, s) <=> ((Sol(V, s) <=> f \notin R(s)) <=> g \notin R(s))
    <3>1. Sol(V \cup {f}, s) <=> (Sol(V, s) <=> f \notin Content(m, s))
      BY <1>1, <2>1
    <3>2. Sol((V \cup {f}) \cup {g}, s) <=> (Sol(V \cup {f}, s) <=> g \notin Content(m, s))
      BY <1>1, <2>3
    <3> QED BY <2>1, <2>2, <2>3, <3>1, <3>2
  <2>5. Sol(V \cup {f, g}, r) /\ Sol(V \cup {f, g}, q)
    BY <1>6, <2>4
  <2>6. ASSUME NEW s \in 0..(n - 1), Pivot(m, s) \in {x, y} PROVE Sol(V \cup {f, g}, s)
    <3>1. s \in {r, q}
      BY <1>6, <2>6, AtMostTwo
    <3> QED BY <2>5, <3>1
  <2> QED BY <2>1, <2>2, <2>6
<1>7. ASSUME NEW r, Bad(r) PROVE \E F : Good2(F)
  <2>1. r \in 0..(n - 1) /\ Pivot(m, r) \in {x, y} /\ ~ Sol(V, r)
    BY <1>7
  <2>2. CASE \A s \in 0..(n - 1) : Pivot(m, s) \in {x, y} => s = r
    <3>1. PICK f \in R(r) : TRUE
      BY <1>3, <1>7
    <3>2. Good2({f})
      BY <1>5, <1>7, <2>1, <2>2
    <3> QED BY <3>2
  <2>3. ASSUME NEW q \in 0..(n - 1), Pivot(m, q) \in {x, y}, q # r PROVE \E F : Good2(F)
    <3>1. \A s \in 0..(n - 1) : (Pivot(m, s) \in {x, y} /\ s # r) => s = q
      BY <2>1, <2>3, AtMostTwo
    <3>2. ASSUME NEW f \in R(r), Sol(V, q) <=> f \notin R(q) PROVE Good2({f})
      BY <1>5, <1>7, <2>1, <3>1, <3>2
    <3>3. ASSUME NEW f \in R(r), NEW g \in R(q), g \notin R(r), Sol(V, q) <=> f \in R(q)
          PROVE  Good2({f, g})
      BY <1>6, <1>7, <2>1, <2>3, <3>3
    <3>4. CASE \A f \in R(r) : Sol(V, q) <=> f \in R(q)
      <4>1. PICK f \in R(r) : TRUE
        BY <1>3, <1>7
      <4>2. CASE \E g \in R(q) : g \notin R(r)
        BY <3>3, <3>4, <4>1, <4>2
      <4>3. CASE R(q) \subseteq R(r) /\ ~ Sol(V, q)
        <5>1. Bad(q)
          BY <2>3, <4>3
        <5>2. R(q) # {}
          BY <1>3, <5>1
        <5> QED BY <3>4, <4>3, <5>2
      <4>4. CASE R(q) \subseteq R(r) /\ Sol(V, q)
        <5>1. R(r) = R(q)
          BY <3>4, <4>4
        <5> DEFINE A == Content(m, r)
                   B == Content(m, q)
        <5>2. A \in SUBSET (0..c) /\ B \in SUBSET (0..c)
          BY <2>1, PivotOfRow
        <5>3. SymDiff(A, B) = SymDiff(B, A) /\ SymDiff(A, B) \subseteq {x, y, c}
          BY <5>1 DEF R, Rest, SymDiff
        <5>4. Solves(V, SymDiff(A, B), c)
          BY <2>1, <5>3 DEF Consistent
        <5>5. Solves(V, SymDiff(A, B), c) <=> Solves(V, A, c)
          BY <4>4, <5>2, SumSolves DEF Sol
        <5> QED BY <2>1, <5>4, <5>5 DEF Sol
      <4> QED BY <4>2, <4>3, <4>4
    <3>5. CASE \E f \in R(r) : Sol(V, q) <=> f \notin R(q)
      BY <3>2, <3>5
    <3> QED BY <3>4, <3>5
  <2> QED BY <2>2, <2>3
<1> QED
  <2>1. \E F : Good2(F)
    <3>1. CASE \E r : Bad(r)
      BY <1>7, <3>1
    <3>2. CASE \A r : ~ Bad(r)
      BY <1>4, <3>2
    <3> QED BY <3>1, <3>2
  <2>2. PICK F : Good2(F)
    BY <2>1
  <2>3. FreeFor(F, m, n, c, x, y, V)
    BY <2>2 DEF Sol, FreeFor
  <2> QED BY <2>3

(***************************************************************************)
(* A settled matrix has a solution with any values of x and y that agree   *)
(* with what its rows say of these two alone.                              *)
(***************************************************************************)
LEMMA SolutionWith ==
    ASSUME NEW n \in Nat, NEW c \in Nat, NEW m, Shaped(m, n, c), Settled(m),
           NEW x \in 0..(c - 1), NEW y \in 0..(c - 1), NEW V \in SUBSET {x, y},
           Consistent(m, n, c, x, y, V)
    PROVE  \E O \in SUBSET (0..(c - 1)) :
              SolvesRows(O, m) /\ \A z \in {x, y} : z \in O <=> z \in V
<1>1. PICK F : FreeFor(F, m, n, c, x, y, V)
  BY FreeValues
<1> DEFINE W == V \cup F
           O == WithPivots(W, m, n, c)
<1>2. W \in SUBSET (0..(c - 1))
  BY <1>1 DEF FreeFor
<1>3. ASSUME NEW r \in 0..(n - 1), ~ Solves(W, Content(m, r), c)
      PROVE  Pivot(m, r) \notin W /\ Pivot(m, r) \notin {x, y}
  <2>1. Content(m, r) # {}
    BY <1>3, SolvesEmpty
  <2>2. ~ IsZeroRow(m, r)
    BY <2>1, PivotOfRow
  <2> QED BY <1>1, <1>3, <2>2 DEF FreeFor
<1> HIDE DEF W
<1>4. SolvesRows(O, m) /\ O \in SUBSET (0..(c - 1))
  BY <1>2, <1>3, PivotsFollow
<1>5. \A z \in {x, y} : z \in O <=> z \in V
  BY <1>1, <1>3 DEF WithPivots, W, FreeFor
<1> QED BY <1>4, <1>5

-----------------------------------------------------------------------------
(* Equations of one bit *)

\* A pair of values satisfies an equation in the columns of a bit if the variables do.
LEMMA SatisfiesIs ==
    ASSUME NEW N \in Nat, NEW p \in 0..(N - 1), NEW E, E \subseteq {2 * p, 2 * p + 1, 2 * N},
           NEW O, 2 * N \notin O, NEW v,
           2 * p \in O <=> ValueOne(v), 2 * p + 1 \in O <=> ValueTwo(v)
    PROVE  Satisfies(v, E, p, 2 * N) <=> Solves(O, E, 2 * N)
<1> DEFINE x == 2 * p
           y == 2 * p + 1
           C == 2 * N
<1>1. x # y /\ E \subseteq {x, y, C} /\ C \notin O
  OBVIOUS
<1>2. /\ x \in O <=> ValueOne(v)
      /\ y \in O <=> ValueTwo(v)
  OBVIOUS
<1>3. Satisfies(v, E, p, C) <=> (((x \in E /\ ValueOne(v)) # (y \in E /\ ValueTwo(v))) = (C \in E))
  BY DEF Satisfies
<1> HIDE DEF x, y, C
<1>4. {x, y} \cap (E \cap O) = E \cap O
  BY <1>1
<1>5. Odd({x, y} \cap (E \cap O)) <=> ((x \in E \cap O) # (y \in E \cap O))
  BY <1>1, OddTwo
<1>6. ValueOne(v) \in BOOLEAN /\ ValueTwo(v) \in BOOLEAN /\ Odd(E \cap O) \in BOOLEAN
  BY DEF ValueOne, ValueTwo, Odd
<1>7. Odd(E \cap O) <=> ((x \in E /\ ValueOne(v)) # (y \in E /\ ValueTwo(v)))
  BY <1>2, <1>4, <1>5
<1>8. Solves(O, E, C) <=> (((x \in E /\ ValueOne(v)) # (y \in E /\ ValueTwo(v))) = (C \in E))
  BY <1>6, <1>7 DEF Solves
<1> QED BY <1>3, <1>8 DEF C

(***************************************************************************)
(* The first columns of the equations of a condition are those of its bit; *)
(* an equation does not have the first column of an earlier one.           *)
(***************************************************************************)
FirstOf(q, x, y) ==
    /\ \A k \in 1..Len(q) : Min(q[k]) \in {x, y}
    /\ \A j, k \in 1..Len(q) : j < k => Min(q[j]) \notin q[k]

(***************************************************************************)
(* For any values of the columns that are not the first of an equation, a  *)
(* condition has a pair of values.                                         *)
(***************************************************************************)
HasValue(q, bc, x, y) ==
    \A O : \E v \in bc :
        /\ (x \in O <=> ValueOne(v)) \/ \E k \in 1..Len(q) : Min(q[k]) = x
        /\ (y \in O <=> ValueTwo(v)) \/ \E k \in 1..Len(q) : Min(q[k]) = y

LEMMA FirstColumns ==
    ASSUME NEW N \in Nat, NEW pos \in 0..(N - 1), NEW bc \in Condition,
           NEW q, q = LinearConditions(bc, pos, 2 * N)
    PROVE  /\ FirstOf(q, 2 * pos, 2 * pos + 1)
           /\ bc # {} /\ IsLinear(bc) => HasValue(q, bc, 2 * pos, 2 * pos + 1)
<1> DEFINE x == 2 * pos
           y == 2 * pos + 1
           C == 2 * N
           One(column, v) == {column} \cup (IF v THEN {C} ELSE {})
           Both(v) == {x, y} \cup (IF v THEN {C} ELSE {})
<1>1. x \in Nat /\ y \in Nat /\ C \in Nat /\ x < y /\ y < C
  OBVIOUS
<1>2. q = CASE bc = {"0"} -> <<One(x, FALSE), One(y, FALSE)>>
            [] bc = {"1"} -> <<One(x, TRUE), One(y, TRUE)>>
            [] bc = {"n"} -> <<One(x, FALSE), One(y, TRUE)>>
            [] bc = {"u"} -> <<One(x, TRUE), One(y, FALSE)>>
            [] bc = {"0", "1"} -> <<Both(FALSE)>>
            [] bc = {"u", "n"} -> <<Both(TRUE)>>
            [] bc = {"0", "u"} -> <<One(y, FALSE)>>
            [] bc = {"0", "n"} -> <<One(x, FALSE)>>
            [] bc = {"u", "1"} -> <<One(x, TRUE)>>
            [] bc = {"n", "1"} -> <<One(y, TRUE)>>
            [] OTHER -> <<>>
  BY DEF LinearConditions, NoDifference, Difference, One, Both, x, y, C
<1> HIDE DEF x, y, C
<1>3. \A v \in BOOLEAN : /\ Min(One(x, v)) = x /\ Min(One(y, v)) = y /\ Min(Both(v)) = x
                         /\ x \notin One(y, v)
  <2>1. SUFFICES ASSUME NEW v \in BOOLEAN
                 PROVE  /\ Min(One(x, v)) = x /\ Min(One(y, v)) = y /\ Min(Both(v)) = x
                        /\ x \notin One(y, v)
    OBVIOUS
  <2>2. /\ One(x, v) \in SUBSET Nat /\ x \in One(x, v) /\ \A k \in One(x, v) : x <= k
        /\ One(y, v) \in SUBSET Nat /\ y \in One(y, v) /\ \A k \in One(y, v) : y <= k
        /\ Both(v) \in SUBSET Nat /\ x \in Both(v) /\ \A k \in Both(v) : x <= k
        /\ x \notin One(y, v)
    BY <1>1
  <2> HIDE DEF One, Both
  <2>3. Min(One(x, v)) = x
    BY <2>2, MinUnique
  <2>4. Min(One(y, v)) = y
    BY <2>2, MinUnique
  <2>5. Min(Both(v)) = x
    BY <2>2, MinUnique
  <2> QED BY <2>2, <2>3, <2>4, <2>5
<1> HIDE DEF One, Both
\* Which equations a condition has.
<1>8. \/ bc = {"0"} /\ q = <<One(x, FALSE), One(y, FALSE)>>
      \/ bc = {"1"} /\ q = <<One(x, TRUE), One(y, TRUE)>>
      \/ bc = {"n"} /\ q = <<One(x, FALSE), One(y, TRUE)>>
      \/ bc = {"u"} /\ q = <<One(x, TRUE), One(y, FALSE)>>
      \/ bc = {"0", "1"} /\ q = <<Both(FALSE)>>
      \/ bc = {"u", "n"} /\ q = <<Both(TRUE)>>
      \/ bc = {"0", "u"} /\ q = <<One(y, FALSE)>>
      \/ bc = {"0", "n"} /\ q = <<One(x, FALSE)>>
      \/ bc = {"u", "1"} /\ q = <<One(x, TRUE)>>
      \/ bc = {"n", "1"} /\ q = <<One(y, TRUE)>>
      \/ /\ bc \notin {{"0"}, {"1"}, {"n"}, {"u"}, {"0", "1"}, {"u", "n"}, {"0", "u"}, {"0", "n"},
                       {"u", "1"}, {"n", "1"}}
         /\ q = <<>>
  \* Conditions and equations by name: the cases need nothing of what they are.
  <2> DEFINE c1 == {"0"}
             q1 == <<One(x, FALSE), One(y, FALSE)>>
             c2 == {"1"}
             q2 == <<One(x, TRUE), One(y, TRUE)>>
             c3 == {"n"}
             q3 == <<One(x, FALSE), One(y, TRUE)>>
             c4 == {"u"}
             q4 == <<One(x, TRUE), One(y, FALSE)>>
             c5 == {"0", "1"}
             q5 == <<Both(FALSE)>>
             c6 == {"u", "n"}
             q6 == <<Both(TRUE)>>
             c7 == {"0", "u"}
             q7 == <<One(y, FALSE)>>
             c8 == {"0", "n"}
             q8 == <<One(x, FALSE)>>
             c9 == {"u", "1"}
             q9 == <<One(x, TRUE)>>
             c10 == {"n", "1"}
             q10 == <<One(y, TRUE)>>
             q11 == <<>>
  <2>1. q = CASE bc = c1 -> q1
              [] bc = c2 -> q2
              [] bc = c3 -> q3
              [] bc = c4 -> q4
              [] bc = c5 -> q5
              [] bc = c6 -> q6
              [] bc = c7 -> q7
              [] bc = c8 -> q8
              [] bc = c9 -> q9
              [] bc = c10 -> q10
              [] OTHER -> q11
    BY <1>2, Zenon
  <2> HIDE DEF c1, c2, c3, c4, c5, c6, c7, c8, c9, c10, q1, q2, q3, q4, q5, q6, q7, q8, q9, q10, q11
  <2>2. \/ bc = c1 /\ q = q1
        \/ bc = c2 /\ q = q2
        \/ bc = c3 /\ q = q3
        \/ bc = c4 /\ q = q4
        \/ bc = c5 /\ q = q5
        \/ bc = c6 /\ q = q6
        \/ bc = c7 /\ q = q7
        \/ bc = c8 /\ q = q8
        \/ bc = c9 /\ q = q9
        \/ bc = c10 /\ q = q10
        \/ /\ bc # c1 /\ bc # c2 /\ bc # c3 /\ bc # c4 /\ bc # c5
           /\ bc # c6 /\ bc # c7 /\ bc # c8 /\ bc # c9 /\ bc # c10
           /\ q = q11
    BY <2>1
  <2>3. \/ bc = c1 /\ q = q1
        \/ bc = c2 /\ q = q2
        \/ bc = c3 /\ q = q3
        \/ bc = c4 /\ q = q4
        \/ bc = c5 /\ q = q5
        \/ bc = c6 /\ q = q6
        \/ bc = c7 /\ q = q7
        \/ bc = c8 /\ q = q8
        \/ bc = c9 /\ q = q9
        \/ bc = c10 /\ q = q10
        \/ bc \notin {c1, c2, c3, c4, c5, c6, c7, c8, c9, c10} /\ q = q11
    BY <2>2
  <2> QED BY <2>3, Zenon DEF c1, c2, c3, c4, c5, c6, c7, c8, c9, c10, q1, q2, q3, q4, q5, q6, q7, q8, q9, q10, q11
<1> DEFINE Fine == FirstOf(q, x, y) /\ (bc # {} /\ IsLinear(bc) => HasValue(q, bc, x, y))
\* A condition with one pair of values.
<1>4. ASSUME NEW a \in BOOLEAN, NEW b \in BOOLEAN, q = <<One(x, a), One(y, b)>>
      PROVE  Fine
  <2>1. Len(q) = 2 /\ q[1] = One(x, a) /\ q[2] = One(y, b)
    BY <1>4
  <2>2. Min(q[1]) = x /\ Min(q[2]) = y /\ x \notin q[2]
    BY <1>3, <2>1
  <2>3. FirstOf(q, x, y)
    <3>1. 1..Len(q) = {1, 2}
      <4>1. Len(q) = 2
        BY <2>1
      <4>2. 1..2 = {1, 2}
        OBVIOUS
      <4> QED BY <4>1, <4>2, Zenon
    <3> QED BY <2>2, <3>1 DEF FirstOf
  <2>4. bc # {} => HasValue(q, bc, x, y)
    <3>1. 1 \in 1..Len(q) /\ 2 \in 1..Len(q)
      BY <2>1
    <3> QED BY <2>2, <3>1 DEF HasValue
  <2> QED BY <2>3, <2>4
\* A condition with two pairs: one equation.
<1>5. ASSUME NEW E, Min(E) \in {x, y}, q = <<E>>,
             bc # {} => \A O : \E v \in bc : /\ (x \in O <=> ValueOne(v)) \/ Min(E) = x
                                             /\ (y \in O <=> ValueTwo(v)) \/ Min(E) = y
      PROVE  Fine
  <2>1. Len(q) = 1 /\ q[1] = E
    BY <1>5
  <2>2. 1..Len(q) = {1}
    <3>1. Len(q) = 1
      BY <2>1
    <3> QED BY <3>1
  <2>3. FirstOf(q, x, y)
    BY <1>5, <2>1, <2>2 DEF FirstOf
  <2>4. bc # {} => HasValue(q, bc, x, y)
    BY <1>5, <2>1, <2>2 DEF HasValue
  <2> QED BY <2>3, <2>4
<1>6. ASSUME NEW a \in BOOLEAN, NEW b \in BOOLEAN, q = <<One(x, a), One(y, b)>> PROVE Fine
  BY <1>4, <1>6
<1>7. ASSUME NEW a \in BOOLEAN, NEW E, q = <<E>>,
             \/ bc \in {{"0", "1"}, {"u", "n"}} /\ E = Both(a)
             \/ bc \in {{"0", "n"}, {"u", "1"}} /\ E = One(x, a)
             \/ bc \in {{"0", "u"}, {"n", "1"}} /\ E = One(y, a)
      PROVE  Fine
  <2>1. Min(E) \in {x, y}
    BY <1>3, <1>7
  <2>2. \A O : \E v \in bc : /\ (x \in O <=> ValueOne(v)) \/ Min(E) = x
                             /\ (y \in O <=> ValueTwo(v)) \/ Min(E) = y
    <3>1. ASSUME NEW O, bc \in {{"0", "1"}, {"u", "n"}, {"0", "n"}, {"u", "1"}}
          PROVE  \E v \in bc : y \in O <=> ValueTwo(v)
      <4>1. CASE y \in O
        BY <3>1, <4>1 DEF ValueTwo
      <4>2. CASE y \notin O
        BY <3>1, <4>2 DEF ValueTwo
      <4> QED BY <4>1, <4>2
    <3>2. ASSUME NEW O, bc \in {{"0", "u"}, {"n", "1"}}
          PROVE  \E v \in bc : x \in O <=> ValueOne(v)
      <4>1. CASE x \in O
        BY <3>2, <4>1 DEF ValueOne
      <4>2. CASE x \notin O
        BY <3>2, <4>2 DEF ValueOne
      <4> QED BY <4>1, <4>2
    <3>3. CASE bc \in {{"0", "1"}, {"u", "n"}, {"0", "n"}, {"u", "1"}} /\ Min(E) = x
      BY <3>1, <3>3
    <3>4. CASE bc \in {{"0", "u"}, {"n", "1"}} /\ Min(E) = y
      BY <3>2, <3>4
    <3> QED BY <1>3, <1>7, <3>3, <3>4
  <2> QED BY <1>5, <1>7, <2>1, <2>2
\* A condition without equations.
<1>9. ASSUME bc \notin {{"0"}, {"1"}, {"n"}, {"u"}, {"0", "1"}, {"u", "n"}, {"0", "u"}, {"0", "n"},
                       {"u", "1"}, {"n", "1"}},
             q = <<>>
      PROVE  Fine
  <2>1. q = <<>>
    BY <1>9
  <2>2. Len(q) = 0 /\ 1..Len(q) = {}
    BY <2>1
  <2>3. FirstOf(q, x, y)
    BY <2>2 DEF FirstOf
  <2>4. ASSUME bc # {}, IsLinear(bc) PROVE HasValue(q, bc, x, y)
    <3>1. bc = Pair
      <4>1. bc \subseteq {"0", "u", "n", "1"}
        BY DEF Condition, Pair
      <4>2. /\ bc # {"u", "n", "1"} /\ bc # {"0", "n", "1"}
            /\ bc # {"0", "u", "1"} /\ bc # {"0", "u", "n"}
        <5>1. /\ Pair \ {"0"} = {"u", "n", "1"} /\ Pair \ {"u"} = {"0", "n", "1"}
              /\ Pair \ {"n"} = {"0", "u", "1"} /\ Pair \ {"1"} = {"0", "u", "n"}
          BY DEF Pair
        <5> QED BY <2>4, <5>1 DEF IsLinear, Pair
      <4>3. "0" \in bc /\ "u" \in bc /\ "n" \in bc /\ "1" \in bc
        <5>1. ASSUME NEW S \in SUBSET {"0", "u", "n", "1"}, bc # S
              PROVE  \E v \in {"0", "u", "n", "1"} : ~ (v \in bc <=> v \in S)
          <6>1. SUFFICES ASSUME \A v \in {"0", "u", "n", "1"} : v \in bc <=> v \in S
                         PROVE  FALSE
            OBVIOUS
          <6>2. \A v : v \in bc <=> v \in S
            BY <4>1, <5>1, <6>1
          <6>3. bc = S
            BY <6>2, Zenon
          <6> QED BY <5>1, <6>3
        <5>2. /\ bc # {} /\ bc # {"0"} /\ bc # {"1"} /\ bc # {"n"} /\ bc # {"u"}
              /\ bc # {"0", "1"} /\ bc # {"u", "n"} /\ bc # {"0", "u"} /\ bc # {"0", "n"}
              /\ bc # {"u", "1"} /\ bc # {"n", "1"}
          BY <1>9, <2>4
        <5>3. \E v \in {"0", "u", "n", "1"} : v \in bc
          BY <2>4, <4>1
        <5>4. \E v \in {"0", "u", "n", "1"} : ~ (v \in bc <=> v \in {"0"})
          BY <5>1, <5>2
        <5>5. \E v \in {"0", "u", "n", "1"} : ~ (v \in bc <=> v \in {"1"})
          BY <5>1, <5>2
        <5>6. \E v \in {"0", "u", "n", "1"} : ~ (v \in bc <=> v \in {"n"})
          BY <5>1, <5>2
        <5>7. \E v \in {"0", "u", "n", "1"} : ~ (v \in bc <=> v \in {"u"})
          BY <5>1, <5>2
        <5>8. \E v \in {"0", "u", "n", "1"} : ~ (v \in bc <=> v \in {"0", "1"})
          BY <5>1, <5>2
        <5>9. \E v \in {"0", "u", "n", "1"} : ~ (v \in bc <=> v \in {"u", "n"})
          BY <5>1, <5>2
        <5>10. \E v \in {"0", "u", "n", "1"} : ~ (v \in bc <=> v \in {"0", "u"})
          BY <5>1, <5>2
        <5>11. \E v \in {"0", "u", "n", "1"} : ~ (v \in bc <=> v \in {"0", "n"})
          BY <5>1, <5>2
        <5>12. \E v \in {"0", "u", "n", "1"} : ~ (v \in bc <=> v \in {"u", "1"})
          BY <5>1, <5>2
        <5>13. \E v \in {"0", "u", "n", "1"} : ~ (v \in bc <=> v \in {"n", "1"})
          BY <5>1, <5>2
        <5>14. \E v \in {"0", "u", "n", "1"} : ~ (v \in bc <=> v \in {"u", "n", "1"})
          BY <5>1, <4>2
        <5>15. \E v \in {"0", "u", "n", "1"} : ~ (v \in bc <=> v \in {"0", "n", "1"})
          BY <5>1, <4>2
        <5>16. \E v \in {"0", "u", "n", "1"} : ~ (v \in bc <=> v \in {"0", "u", "1"})
          BY <5>1, <4>2
        <5>17. \E v \in {"0", "u", "n", "1"} : ~ (v \in bc <=> v \in {"0", "u", "n"})
          BY <5>1, <4>2
        <5> QED BY <5>3, <5>4, <5>5, <5>6, <5>7, <5>8, <5>9, <5>10, <5>11, <5>12, <5>13, <5>14,
               <5>15, <5>16, <5>17
      <4> QED BY <4>1, <4>3 DEF Pair
    <3>2. ASSUME NEW O PROVE \E v \in bc : (x \in O <=> ValueOne(v)) /\ (y \in O <=> ValueTwo(v))
      BY <3>1 DEF Pair, ValueOne, ValueTwo
    <3> QED BY <3>2 DEF HasValue
  <2> QED BY <2>3, <2>4 DEF x, y
<1>10. Fine
  <2>1. TRUE \in BOOLEAN /\ FALSE \in BOOLEAN
    OBVIOUS
  <2> HIDE DEF Fine
  <2> QED BY <1>8, <1>6, <1>7, <1>9, <2>1
<1> QED BY <1>10 DEF x, y

\* A condition that lacks just one pair has no equations, and its hull every value.
LEMMA HullHasValue ==
    ASSUME NEW N \in Nat, NEW pos \in 0..(N - 1), NEW bc \in Condition, bc # {},
           NEW q, q = LinearConditions(bc, pos, 2 * N)
    PROVE  HasValue(q, Hull(bc), 2 * pos, 2 * pos + 1)
<1>1. CASE IsLinear(bc)
  <2>1. Hull(bc) = bc
    BY <1>1 DEF Hull, IsLinear
  <2>2. HasValue(q, bc, 2 * pos, 2 * pos + 1)
    BY <1>1, FirstColumns
  <2> QED BY <2>1, <2>2
<1>2. CASE ~ IsLinear(bc)
  <2>1. Hull(bc) = Pair
    BY <1>2 DEF Hull, IsLinear
  <2> DEFINE x == 2 * pos
             y == 2 * pos + 1
  <2>2. ASSUME NEW O PROVE \E v \in Pair : (x \in O <=> ValueOne(v)) /\ (y \in O <=> ValueTwo(v))
    BY DEF Pair, ValueOne, ValueTwo
  <2> HIDE DEF x, y
  <2>3. HasValue(q, Hull(bc), x, y)
    BY <2>1, <2>2 DEF HasValue
  <2> QED BY <2>3 DEF x, y
<1> QED BY <1>1, <1>2

-----------------------------------------------------------------------------
(* Which rows are marked, which columns are left *)

(***************************************************************************)
(* k is made from m: what is not marked is as it was and was not marked    *)
(* before, and only columns of X occur.                                    *)
(***************************************************************************)
Rewritten(k, m, X, n, c) ==
    /\ Shaped(k, n, c)
    /\ \A i \in 0..(n - 1) : i \notin k.extract => i \notin m.extract /\ k.data[i] = m.data[i]
    /\ Columns(k) \subseteq X

\* A column occurs in a row at some position.
LEMMA ColumnsAre ==
    ASSUME NEW n \in Nat, NEW c \in Nat, NEW m, Shaped(m, n, c)
    PROVE  /\ DOMAIN m.data = 0..(n - 1)
           /\ \A x : x \in Columns(m) <=> \E r \in 0..(n - 1) : x \in Content(m, r)
           /\ \A r \in 0..(n - 1) : Content(m, r) \subseteq Columns(m)
           /\ \A i \in 0..(n - 1) : m.data[i] \subseteq Columns(m) /\ m.data[i] \in SUBSET (0..c)
           /\ Columns(m) \in SUBSET (0..c)
<1>1. m \in MatrixSet(n, c)
  BY DEF Shaped
<1>2. m.data \in [0..(n - 1) -> SUBSET (0..c)]
  BY <1>1 DEF MatrixSet
<1>3. Rows(m) = 0..(n - 1)
  BY <1>1, MatrixFacts
<1>4. \A r \in 0..(n - 1) : m.row[r].index \in 0..(n - 1) /\ Content(m, r) = m.data[m.row[r].index]
  BY <1>1, MatrixFacts
<1>5. \A i \in 0..(n - 1) : \E r \in 0..(n - 1) : m.row[r].index = i
  BY <1>2, <1>3 DEF Shaped
<1>6. \A i \in 0..(n - 1) : \E r \in 0..(n - 1) : Content(m, r) = m.data[i]
  BY <1>4, <1>5
<1>7. \A x : x \in Columns(m) <=> \E i \in 0..(n - 1) : x \in m.data[i]
  BY <1>2 DEF Columns
<1>8. \A x : x \in Columns(m) <=> \E r \in 0..(n - 1) : x \in Content(m, r)
  BY <1>4, <1>6, <1>7
<1> QED BY <1>2, <1>7, <1>8

\* The same rows have the same columns.
LEMMA SameColumns ==
    ASSUME NEW k, NEW m, Same(k, m)
    PROVE  Columns(k) = Columns(m)
BY DEF Same, Columns

\* What is made from what was made.
LEMMA RewrittenTransitive ==
    ASSUME NEW n, NEW c, NEW a, NEW b, NEW k, NEW X, NEW Y,
           Rewritten(b, a, Y, n, c), Rewritten(k, b, X, n, c)
    PROVE  Rewritten(k, a, X, n, c)
BY DEF Rewritten

\* Marks for the elimination are not marks to look at.
LEMMA OtherMarks ==
    ASSUME NEW n, NEW c, NEW m, NEW k, Shaped(k, n, c), k.data = m.data, k.extract = m.extract,
           NEW X, Columns(m) \subseteq X
    PROVE  Rewritten(k, m, X, n, c)
BY DEF Rewritten, Columns

\* One row is changed, and marked.
LEMMA OneRewritten ==
    ASSUME NEW n \in Nat, NEW c \in Nat, NEW m, Shaped(m, n, c), NEW r \in 0..(n - 1), NEW E,
           NEW k, Shaped(k, n, c), NEW X, Columns(m) \subseteq X, E \subseteq X,
           k.data = [m.data EXCEPT ![m.row[r].index] = SymDiff(Content(m, r), E)],
           k.extract = m.extract \cup {m.row[r].index}
    PROVE  Rewritten(k, m, X, n, c)
<1>1. /\ DOMAIN m.data = 0..(n - 1) /\ Content(m, r) \subseteq Columns(m)
      /\ \A i \in 0..(n - 1) : m.data[i] \subseteq Columns(m)
  BY ColumnsAre
<1>2. DOMAIN k.data = 0..(n - 1)
  BY ColumnsAre
<1>3. \A i \in 0..(n - 1) : k.data[i] = IF i = m.row[r].index THEN SymDiff(Content(m, r), E)
                                        ELSE m.data[i]
  BY <1>1
<1>4. SymDiff(Content(m, r), E) \subseteq X
  BY <1>1 DEF SymDiff
<1>5. Columns(k) \subseteq X
  BY <1>1, <1>2, <1>3, <1>4 DEF Columns
<1> QED BY <1>3, <1>5 DEF Rewritten

\* A change to one row, by columns in X or by another row.
RowChange(ch, X, n, c) ==
    \/ \E r \in 0..(n - 1), E \in (SUBSET (0..c)) \ {{}} : ch = XorRow(r, E) /\ E \subseteq X
    \/ \E a, b \in 0..(n - 1) : a # b /\ ch = XorRowtoRow(a, b)

\* So it is with one change.
LEMMA ChangeRewrites ==
    ASSUME NEW n \in Nat, NEW c \in Nat, NEW m, Shaped(m, n, c), NEW X, Columns(m) \subseteq X,
           NEW ch, RowChange(ch, X, n, c), NEW log, NEW k, k = Changed(m, ch, log)
    PROVE  Rewritten(k, m, X, n, c)
<1>1. ASSUME NEW r \in 0..(n - 1), NEW E, NEW first, Apply(m, ch) = XorInto(m, r, E, first)
      PROVE  /\ k.data = [m.data EXCEPT ![m.row[r].index] = SymDiff(Content(m, r), E)]
             /\ k.extract = m.extract \cup {m.row[r].index}
  <2> DEFINE a == Apply(m, ch)
  <2>1. m \in MatrixSet(n, c)
    BY DEF Shaped
  <2>2. /\ a.data = [m.data EXCEPT ![m.row[r].index] = SymDiff(Content(m, r), E)]
        /\ a.extract = m.extract \cup {m.row[r].index}
    BY <1>1, <2>1 DEF XorInto, MatrixSet
  <2>3. k.data = a.data /\ k.extract = a.extract
    BY <1>1, <2>1 DEF Changed, XorInto, MatrixSet
  <2> QED BY <2>2, <2>3
<1>2. CASE \E r \in 0..(n - 1), E \in (SUBSET (0..c)) \ {{}} : ch = XorRow(r, E) /\ E \subseteq X
  <2>1. PICK r \in 0..(n - 1), E \in (SUBSET (0..c)) \ {{}} : ch = XorRow(r, E) /\ E \subseteq X
    BY <1>2
  <2>2. Apply(m, ch) = XorInto(m, r, E, Min(E))
    BY <2>1 DEF Apply, XorRow
  <2>3. Shaped(k, n, c)
    BY <2>1, RowAdds
  <2>4. /\ k.data = [m.data EXCEPT ![m.row[r].index] = SymDiff(Content(m, r), E)]
        /\ k.extract = m.extract \cup {m.row[r].index}
    BY <1>1, <2>2
  <2>5. E \subseteq X
    BY <2>1
  <2> QED BY <2>3, <2>4, <2>5, OneRewritten
<1>3. CASE \E a, b \in 0..(n - 1) : a # b /\ ch = XorRowtoRow(a, b)
  <2>1. PICK a, b \in 0..(n - 1) : a # b /\ ch = XorRowtoRow(a, b)
    BY <1>3
  <2>2. Apply(m, ch) = XorInto(m, a, Content(m, b), Pivot(m, b))
    BY <2>1 DEF Apply, XorRowtoRow
  <2>3. Shaped(k, n, c)
    BY <2>1, RowToRowAdds
  <2>4. Content(m, b) \subseteq X
    BY ColumnsAre
  <2>5. /\ k.data = [m.data EXCEPT ![m.row[a].index] = SymDiff(Content(m, a), Content(m, b))]
        /\ k.extract = m.extract \cup {m.row[a].index}
    BY <1>1, <2>2
  <2> QED BY <2>3, <2>4, <2>5, OneRewritten
<1> QED BY <1>2, <1>3 DEF RowChange

\* What is made from m by changes of rows.
Rewritings(m, X, n, c) == {a \in MatrixSet(n, c) : Rewritten(a, m, X, n, c)}

\* And so it is with several changes.
LEMMA InOrderRewrites ==
    ASSUME NEW n \in Nat, NEW c \in Nat, NEW m, Shaped(m, n, c), NEW X, Columns(m) \subseteq X,
           NEW change, \A k \in DOMAIN change : RowChange(change[k], X, n, c), NEW log
    PROVE  Rewritten(InOrder(m, change, log), m, X, n, c)
<1> DEFINE S == Rewritings(m, X, n, c)
<1>1. m \in MatrixSet(n, c) /\ m.columns \in Nat
  BY DEF Shaped, MatrixSet
<1>2. m \in S
  BY <1>1 DEF Rewritten, Rewritings
<1>3. ASSUME NEW k \in 0..m.columns, NEW a \in S, k \in DOMAIN change
      PROVE  Changed(a, change[k], log) \in S
  <2>1. Rewritten(a, m, X, n, c)
    BY DEF Rewritings
  <2>2. Shaped(a, n, c) /\ Columns(a) \subseteq X
    BY <2>1 DEF Rewritten
  <2>3. Rewritten(Changed(a, change[k], log), a, X, n, c)
    BY <1>3, <2>2, ChangeRewrites
  <2>4. Rewritten(Changed(a, change[k], log), m, X, n, c)
    BY <2>1, <2>3, RewrittenTransitive
  <2>5. Changed(a, change[k], log) \in MatrixSet(n, c)
    BY <2>3 DEF Rewritten, Shaped
  <2> QED BY <2>4, <2>5 DEF Rewritings
<1>4. InOrder(m, change, log) \in S
  <2> HIDE DEF S
  <2> QED BY <1>1, <1>2, <1>3, InOrderKeeps
<1> QED BY <1>4 DEF Rewritings


\* Sorting changes no row.
LEMMA SortRewrites ==
    ASSUME NEW n \in Nat, NEW c \in Nat, NEW m, Shaped(m, n, c), NEW log
    PROVE  Rewritten(SortByPivot(m, log), m, Columns(m), n, c)
<1> DEFINE k == SortByPivot(m, log)
           ch == SortChange(SortOut(m), SortIn(m))
           a == Apply(m, ch)
<1>1. m \in MatrixSet(n, c)
  BY DEF Shaped
<1>2. a = ApplyPermutation(m, SortOut(m), SortIn(m))
  BY DEF Apply, SortChange
<1>3. a.data = m.data /\ a.extract = m.extract
  BY <1>1, <1>2 DEF ApplyPermutation, MatrixSet
<1>4. k = [Changed(m, ch, log) EXCEPT !.updatePivot = {}]
  BY DEF SortByPivot, SortOut, SortIn
<1>5. k.data = m.data /\ k.extract = m.extract
  <2>1. Changed(m, ch, log) = IF log THEN [a EXCEPT !.changes = Append(@, ch)] ELSE a
    BY DEF Changed
  <2>2. Changed(m, ch, log).data = a.data /\ Changed(m, ch, log).extract = a.extract
    <3>1. a = [m EXCEPT !.row = a.row, !.rowinv = a.rowinv]
      BY <1>1, <1>2 DEF ApplyPermutation, MatrixSet
    <3> HIDE DEF a, ch
    <3> QED BY <1>1, <2>1, <3>1 DEF MatrixSet
  <2> HIDE DEF a, ch, k
  <2>3. k.data = Changed(m, ch, log).data /\ k.extract = Changed(m, ch, log).extract
    BY <1>4
  <2> QED BY <1>3, <2>2, <2>3
<1>6. Shaped(k, n, c)
  <2> HIDE DEF k
  <2>1. k = SortByPivot(m, log)
    BY DEF k
  <2>2. Follows(k, m, {}, log, n, c)
    BY <2>1, SortFollows
  <2> QED BY <2>2 DEF Follows
<1> HIDE DEF k
<1>7. Rewritten(k, m, Columns(m), n, c)
  BY <1>5, <1>6, OtherMarks
<1> QED BY <1>7 DEF k

\* Marking rows for the elimination.
LEMMA TouchRewrites ==
    ASSUME NEW n \in Nat, NEW c \in Nat, NEW m, Shaped(m, n, c), NEW R \in SUBSET (0..(n - 1)),
           NEW p \in BOOLEAN
    PROVE  Rewritten(Touch(m, R, p), m, Columns(m), n, c)
<1> DEFINE k == Touch(m, R, p)
<1>1. m \in MatrixSet(n, c)
  BY DEF Shaped
<1>2. k.data = m.data /\ k.extract = m.extract
  BY <1>1 DEF Touch, MatrixSet
<1>3. Follows(k, m, {}, FALSE, n, c)
  BY TouchFollows
<1>4. Shaped(k, n, c)
  BY <1>3 DEF Follows
<1> HIDE DEF k
<1>5. Rewritten(k, m, Columns(m), n, c)
  BY <1>2, <1>4, OtherMarks
<1> QED BY <1>5 DEF k

\* A turn of the elimination brings no new columns.
LEMMA EpsilonGaussRewrites ==
    ASSUME NEW n \in Nat, NEW c \in Nat, NEW m, Shaped(m, n, c), m.updateRows # {}, NEW log
    PROVE  Rewritten(EpsilonGauss(m, log), m, Columns(m), n, c)
<1> DEFINE row == Min(m.updateRows)
           rows == {r \in Eliminable(m, row) : \A b \in Broken(m, row) : r <= b}
           pivots == {r \in rows : Pivot(m, row) <= Pivot(m, r)}
           rest == m.updateRows \ {row}
           l == [m EXCEPT !.updateRows = rest]
           change == [r \in rows |-> XorRowtoRow(r, row)]
           k == InOrder(l, change, log)
<1>1. m \in MatrixSet(n, c) /\ Rows(m) = 0..(n - 1)
  BY MatrixFacts DEF Shaped
<1>2. EpsilonGauss(m, log) = Touch(k, pivots, TRUE)
  BY DEF EpsilonGauss
<1>3. row \in 0..(n - 1)
  BY <1>1, FirstWaits
<1>4. rows \in SUBSET (0..(n - 1)) /\ row \notin rows /\ pivots \in SUBSET (0..(n - 1))
  BY <1>1 DEF Eliminable
<1>5. rest \in SUBSET (0..(n - 1))
  BY <1>1 DEF MatrixSet
<1> HIDE DEF row
<1>6. DOMAIN change = rows /\ \A r \in rows : change[r] = XorRowtoRow(r, row)
  OBVIOUS
<1>7. \A r \in DOMAIN change : RowChange(change[r], Columns(m), n, c)
  BY <1>3, <1>4, <1>6 DEF RowChange
<1> HIDE DEF rest, pivots, rows, change
<1>8. l \in MatrixSet(n, c) /\ Same(l, m) /\ l.data = m.data /\ l.extract = m.extract
  BY <1>1, <1>5 DEF MatrixSet, Same
<1> HIDE DEF l
<1>9. Shaped(l, n, c) /\ Columns(l) = Columns(m)
  <2>1. Same(m, l)
    BY <1>8 DEF Same
  <2> QED BY <1>8, <2>1, SameShaped, SameColumns
<1>10. Rewritten(k, l, Columns(m), n, c)
  BY <1>7, <1>9, InOrderRewrites
<1>11. Rewritten(l, m, Columns(m), n, c)
  BY <1>8, <1>9, OtherMarks
<1> HIDE DEF k
<1>12. Rewritten(k, m, Columns(m), n, c)
  BY <1>10, <1>11, RewrittenTransitive
<1>13. Shaped(k, n, c) /\ Columns(k) \subseteq Columns(m)
  BY <1>12 DEF Rewritten
<1>14. Rewritten(Touch(k, pivots, TRUE), k, Columns(k), n, c)
  BY <1>4, <1>13, TouchRewrites
<1>15. Rewritten(Touch(k, pivots, TRUE), m, Columns(k), n, c)
  BY <1>12, <1>14, RewrittenTransitive
<1> QED BY <1>2, <1>13, <1>15 DEF Rewritten

\* A row becomes its sum with the equation: their common first column is gone.
LEMMA ReplaceRowRewrites ==
    ASSUME NEW n \in Nat, NEW c \in Nat, NEW m, Shaped(m, n, c), Settled(m),
           NEW E \in (SUBSET (0..c)) \ {{}}, HasPivot(m, Min(E)), NEW log
    PROVE  Rewritten(ReplaceRow(m, RowOf(m, Min(E)), E, log), m,
                     (Columns(m) \cup E) \ {Min(E)}, n, c)
<1> DEFINE row == RowOf(m, Min(E))
           X == (Columns(m) \cup E) \ {Min(E)}
           sum == Changed(m, XorRow(row, E), log)
           again == {x \in E \ {Min(E)} : HasPivot(sum, x) /\ RowOf(sum, x) # row}
           change == [x \in again |-> XorRowtoRow(row, RowOf(sum, x))]
           k == InOrder(sum, change, log)
<1>1. ReplaceRow(m, row, E, log) = Touch(k, {row}, TRUE)
  BY DEF ReplaceRow
<1>2. m \in MatrixSet(n, c)
  BY DEF Shaped
<1>3. row \in 0..(n - 1) /\ Pivot(m, row) = Min(E)
  BY <1>2, RowOfIs
<1>4. Min(E) \in E /\ Min(E) \in 0..c
  BY MinIn
<1> HIDE DEF row
<1>5. /\ Shaped(sum, n, c)
      /\ \A q \in 0..(n - 1) :
            Content(sum, q) = IF q = row THEN SymDiff(Content(m, row), E) ELSE Content(m, q)
  BY <1>3, RowAdds
<1>6. Rewritten(sum, m, Columns(m) \cup E, n, c)
  <2>1. RowChange(XorRow(row, E), Columns(m) \cup E, n, c)
    BY <1>3 DEF RowChange
  <2> QED BY <2>1, ChangeRewrites
<1> HIDE DEF sum
<1>7. ~ IsZeroRow(m, row) /\ Min(E) \in Content(m, row)
  <2>1. /\ IsZeroRow(m, row) <=> Pivot(m, row) = c + 1
        /\ ~ IsZeroRow(m, row) => Pivot(m, row) \in Content(m, row)
    BY <1>3, PivotOfRow
  <2> QED BY <1>3, <1>4, <2>1
<1>8. \A q \in 0..(n - 1) : Min(E) \notin Content(sum, q)
  <2>1. TAKE q \in 0..(n - 1)
  <2>2. CASE q = row
    BY <1>4, <1>5, <1>7, <2>2 DEF SymDiff
  <2>3. CASE q # row
    <3>1. Eliminated(m, 0..(n - 1))
      BY SettledIs
    <3>2. Min(E) \notin Content(m, q)
      BY <1>3, <1>7, <2>3, <3>1, PivotsDiffer
    <3> QED BY <1>5, <2>3, <3>2
  <2> QED BY <2>2, <2>3
<1>9. Columns(sum) \subseteq X
  <2>1. Min(E) \notin Columns(sum)
    BY <1>5, <1>8, ColumnsAre
  <2> QED BY <1>6, <2>1 DEF Rewritten
<1>10. ASSUME NEW x \in again PROVE RowChange(XorRowtoRow(row, RowOf(sum, x)), X, n, c)
  <2>1. sum \in MatrixSet(n, c)
    BY <1>5 DEF Shaped
  <2>2. RowOf(sum, x) \in 0..(n - 1) /\ RowOf(sum, x) # row
    BY <2>1, RowOfIs
  <2> QED BY <1>3, <2>2 DEF RowChange
<1>11. DOMAIN change = again /\ \A x \in again : change[x] = XorRowtoRow(row, RowOf(sum, x))
  OBVIOUS
<1> HIDE DEF again, change, X
<1>12. Rewritten(k, sum, X, n, c)
  BY <1>5, <1>9, <1>10, <1>11, InOrderRewrites
<1> HIDE DEF k
<1>13. Rewritten(k, m, X, n, c)
  BY <1>6, <1>12, RewrittenTransitive
<1>14. Shaped(k, n, c) /\ Columns(k) \subseteq X
  BY <1>12 DEF Rewritten
<1>15. Rewritten(Touch(k, {row}, TRUE), k, Columns(k), n, c)
  BY <1>3, <1>14, TouchRewrites
<1>16. Rewritten(Touch(k, {row}, TRUE), m, Columns(k), n, c)
  BY <1>13, <1>15, RewrittenTransitive
<1>17. Rewritten(Touch(k, {row}, TRUE), m, X, n, c)
  BY <1>14, <1>16 DEF Rewritten
<1> QED BY <1>1, <1>17 DEF row, X

\* The equation is added to all rows that have its first column: it is gone.
LEMMA SubstituteRewrites ==
    ASSUME NEW n \in Nat, NEW c \in Nat, n <= c, NEW m, Shaped(m, n, c), Settled(m),
           NEW E \in (SUBSET (0..c)) \ {{}}, ~ HasPivot(m, Min(E)), NEW log
    PROVE  Rewritten(Substitute(m, RowOf(m, Min(E)), E, log), m,
                     (Columns(m) \cup E) \ {Min(E)}, n, c)
<1> DEFINE R == 0..(n - 1)
           first == Min(E)
           X == (Columns(m) \cup E) \ {first}
           bound == RowOf(m, first)
           rows == {r \in 0..bound : first \in Content(m, r)}
           change == [r \in rows |-> XorRow(r, E)]
           sums == InOrder(m, change, log)
           U == {RowOf(sums, x) : x \in {d \in E \ {first} : HasPivot(sums, d)}}
<1>1. m \in MatrixSet(n, c) /\ SortedOn(m, Rows(m))
  BY MatrixFacts DEF Shaped, Settled, Pending
<1>2. first \in E /\ first \in 0..c
  BY MinIn
<1>3. Substitute(m, bound, E, log) = Touch(sums, U, FALSE)
  BY DEF Substitute
<1> HIDE DEF first
<1>4. \A r \in R : Pivot(m, r) <= first <=> r <= bound
  BY <1>1, <1>2, BoundOfSorted DEF first
<1>5. bound \in -1..(n - 1)
  BY <1>1, RowOfIs
<1> HIDE DEF bound
<1>6. rows \in SUBSET R
  BY <1>5
<1>7. \A r \in R : r \in rows <=> first \in Content(m, r)
  <2>1. TAKE r \in R
  <2>2. \A x \in Content(m, r) : Pivot(m, r) <= x
    BY PivotOfRow
  <2>3. first \in Content(m, r) => r <= bound
    BY <1>4, <2>2
  <2>4. r <= bound => r \in 0..bound
    BY <1>5
  <2> QED BY <2>3, <2>4
<1>8. AllAdd(change, m, rows, E, n, c)
  BY DEF AllAdd, AddsTo
<1>9. \A r \in DOMAIN change : RowChange(change[r], Columns(m) \cup E, n, c)
  BY <1>6 DEF RowChange
<1> HIDE DEF rows, change
<1>10. SumsOf(sums, m, rows, E, n, c)
  BY <1>6, <1>8, AddsAll
<1>11. Rewritten(sums, m, Columns(m) \cup E, n, c)
  BY <1>9, InOrderRewrites
<1> HIDE DEF sums
<1>12. Shaped(sums, n, c) /\ sums \in MatrixSet(n, c)
  BY <1>10 DEF SumsOf, Shaped
<1>13. \A q \in R : first \notin Content(sums, q)
  BY <1>2, <1>7, <1>10 DEF SumsOf, SymDiff
<1>14. Columns(sums) \subseteq X
  <2>1. first \notin Columns(sums)
    BY <1>12, <1>13, ColumnsAre
  <2> QED BY <1>11, <2>1 DEF Rewritten
<1>15. U \in SUBSET R
  BY <1>12, RowOfIs
<1> HIDE DEF U, X
<1>16. Rewritten(Touch(sums, U, FALSE), sums, Columns(sums), n, c)
  BY <1>12, <1>15, TouchRewrites
<1>17. Rewritten(Touch(sums, U, FALSE), m, Columns(sums), n, c)
  BY <1>11, <1>16, RewrittenTransitive
<1>18. Rewritten(Touch(sums, U, FALSE), m, X, n, c)
  BY <1>14, <1>17 DEF Rewritten
<1> QED BY <1>3, <1>18 DEF X, first, bound

\* An equation that is added eliminates its first column, and brings only its own.
LEMMA AddEquationRewrites ==
    ASSUME NEW n \in Nat, NEW c \in Nat, n <= c, NEW m, Shaped(m, n, c), Settled(m),
           NEW E \in (SUBSET (0..c)) \ {{}}, NEW log
    PROVE  Rewritten(AddEquation(m, E, log), m, (Columns(m) \cup E) \ {Min(E)}, n, c)
<1>1. CASE HasPivot(m, Min(E))
  BY <1>1, ReplaceRowRewrites DEF AddEquation
<1>2. CASE ~ HasPivot(m, Min(E))
  BY <1>2, SubstituteRewrites DEF AddEquation
<1> QED BY <1>1, <1>2

-----------------------------------------------------------------------------
(* What waits *)

\* The positions of a linear step.
LEMMA PlacesAre ==
    ASSUME NEW s \in LinearSteps
    PROVE  LET N == Len(StepList[s].bits)
           IN  /\ N \in Nat /\ N >= 1 /\ ColumnCount(s) = 2 * N /\ Places(s) = 0..(N - 1)
               /\ RowCount(s) \in Nat /\ RowCount(s) <= ColumnCount(s)
               /\ \A p \in Places(s) : /\ StepList[s].bits[p + 1] \in Bit
                                       /\ StepList[s].bits[p + 1] \in BitsOf(StepList[s])
                                       /\ <<s, p>> \in Entries
               /\ \A p, q \in Places(s) :
                     StepList[s].bits[p + 1] = StepList[s].bits[q + 1] => p = q
<1> DEFINE st == StepList[s]
           N == Len(st.bits)
<1>1. /\ st.kind = "linear" /\ N \in Nat
      /\ \A j, k \in 1..N : st.bits[j] = st.bits[k] => j = k
      /\ \A k \in 1..N : st.bits[k] \in Bit /\ st.bits[k] \in Range(st.bits)
      /\ st.outputs \in 1..N
      /\ RowCount(s) \in Nat /\ RowCount(s) <= ColumnCount(s)
  BY StepFacts
<1>2. Places(s) = 0..(N - 1)
  BY DEF Places
<1>3. \A p \in Places(s) : p + 1 \in 1..N
  BY <1>1, <1>2
<1>4. \A p, q \in Places(s) : p + 1 = q + 1 => p = q
  BY <1>1, <1>2
<1>5. BitsOf(st) = Range(st.bits)
  BY <1>1 DEF BitsOf
<1>6. \A p \in Places(s) : <<s, p>> \in Entries
  BY DEF Entries, LinearSteps
<1>7. N >= 1
  BY <1>1
<1>8. ColumnCount(s) = 2 * N
  BY DEF ColumnCount
<1> HIDE DEF st, N
<1>9. \A p, q \in Places(s) : st.bits[p + 1] = st.bits[q + 1] => p = q
  BY <1>1, <1>3, <1>4
<1> QED BY <1>1, <1>2, <1>3, <1>5, <1>6, <1>7, <1>8, <1>9 DEF st, N

\* What a narrower condition allows knows as much.
LEMMA KnownNarrows ==
    ASSUME NEW s \in LinearSteps, NEW c, NEW d, Below(d, c), NEW E, Known(E, s, c)
    PROVE  Known(E, s, d)
<1>1. ASSUME NEW p \in Places(s), NEW v \in ConditionAt(s, p, d) PROVE v \in ConditionAt(s, p, c)
  BY <1>1, PlacesAre DEF Below, ConditionAt
<1> QED BY <1>1 DEF Known

\* Rows that are known stay known, and fewer of them do.
LEMMA RowsKnownNarrows ==
    ASSUME NEW s \in LinearSteps, NEW c, NEW d, Below(d, c), NEW m, NEW I, NEW J, J \subseteq I,
           RowsKnown(m, s, I, c)
    PROVE  RowsKnown(m, s, J, d)
BY KnownNarrows DEF RowsKnown

\* A bit whose steps are not touched has kept its condition.
LEMMA NotTouched ==
    ASSUME NEW c, NEW d
    PROVE  /\ \A s \in LinearSteps : \A p \in Places(s) :
                 <<s, p>> \notin Touched(c, d) => ConditionAt(s, p, d) = ConditionAt(s, p, c)
           /\ \A s \in DOMAIN StepList \ LinearSteps :
                 <<s, 0>> \notin Touched(c, d) =>
                     \A b \in StepList[s].bits \cap Bit : d[b] = c[b]
           /\ Touched(c, c) = {}
<1>1. ASSUME NEW s \in LinearSteps, NEW p \in Places(s), ConditionAt(s, p, d) # ConditionAt(s, p, c)
      PROVE  <<s, p>> \in Touched(c, d)
  <2> DEFINE b == StepList[s].bits[p + 1]
  <2>1. b \in Bit /\ <<s, p>> \in Entries
    BY PlacesAre
  <2>2. <<s, p>> \in StepsToUpdate(b)
    BY <2>1 DEF StepsToUpdate
  <2>3. c[b] # d[b]
    BY <1>1 DEF ConditionAt
  <2> HIDE DEF b
  <2> QED BY <2>1, <2>2, <2>3 DEF Touched
<1>2. ASSUME NEW s \in DOMAIN StepList \ LinearSteps,
             NEW b \in StepList[s].bits \cap Bit, d[b] # c[b]
      PROVE  <<s, 0>> \in Touched(c, d)
  <2>1. <<s, 0>> \in Entries
    BY DEF Entries, Places
  <2>2. <<s, 0>> \in StepsToUpdate(b)
    BY <2>1 DEF StepsToUpdate
  <2> QED BY <1>2, <2>2 DEF Touched
<1>3. Touched(c, c) = {}
  BY DEF Touched
<1> QED BY <1>1, <1>2, <1>3

\* Nothing of the step e waits in k, unless it has waited in l or was touched.
Covers(k, l, c, d, e) ==
    \A p \in Places(e) : <<e, p>> \notin k => <<e, p>> \notin l /\ <<e, p>> \notin Touched(c, d)

\* What has been added stays added.
LEMMA EnteredStays ==
    ASSUME NEW s \in LinearSteps, NEW m, NEW P, P \subseteq Places(s), NEW c, NEW d,
           Entered(m, s, P, c), \A p \in P : <<s, p>> \notin Touched(c, d)
    PROVE  Entered(m, s, P, d)
<1>1. ASSUME NEW p \in P PROVE EquationsAt(s, p, d) = EquationsAt(s, p, c)
  BY <1>1, NotTouched DEF EquationsAt
<1> QED BY <1>1 DEF Entered

\* When conditions narrow, what waits for a step still does.
LEMMA LinearWaitsStay ==
    ASSUME NEW s \in LinearSteps, NEW m, NEW l, NEW k, NEW c, NEW d, Below(d, c),
           LinearWaits(m, s, l, c), Covers(k, l, c, d, s)
    PROVE  LinearWaits(m, s, k, d)
<1>1. Through(s, k) \subseteq Through(s, l) /\ Through(s, l) \subseteq Places(s)
  BY DEF Through, Covers
<1>2. Entered(m, s, Through(s, k), c)
  BY <1>1 DEF LinearWaits, Entered
<1>3. \A p \in Through(s, k) : <<s, p>> \notin Touched(c, d)
  BY DEF Through, Covers
<1>4. Entered(m, s, Through(s, k), d)
  <2>1. Through(s, k) \subseteq Places(s)
    BY <1>1
  <2> QED BY <1>2, <1>3, <2>1, EnteredStays
<1> DEFINE All == DOMAIN m.data
           Seen == DOMAIN m.data \ m.extract
<1>5. RowsKnown(m, s, IF Through(s, k) = Places(s) THEN All ELSE Seen, d)
  <2>1. CASE Through(s, k) = Places(s)
    <3>1. Through(s, l) = Places(s)
      BY <1>1, <2>1
    <3>2. RowsKnown(m, s, All, c)
      BY <3>1 DEF LinearWaits
    <3>3. RowsKnown(m, s, All, d)
      BY <3>2, RowsKnownNarrows
    <3> QED BY <2>1, <3>3
  <2>2. CASE Through(s, k) # Places(s)
    <3>1. Seen \subseteq All
      OBVIOUS
    <3>2. RowsKnown(m, s, All, c) \/ RowsKnown(m, s, Seen, c)
      BY DEF LinearWaits
    <3>3. RowsKnown(m, s, Seen, d)
      BY <3>1, <3>2, RowsKnownNarrows
    <3> QED BY <2>2, <3>3
  <2> QED BY <2>1, <2>2
<1> QED BY <1>4, <1>5 DEF LinearWaits

\* The bits of a bitslice are bits.
LEMMA BitsliceIs ==
    ASSUME NEW s \in DOMAIN StepList
    PROVE  LET st == StepList[s]
           IN  /\ [bits |-> BitsOf(st), relation |-> st.relation] \in Steps
               /\ BitsOf(st) # {} /\ BitsOf(st) \subseteq Bit
               /\ s \notin LinearSteps => BitsOf(st) = st.bits /\ Places(s) = {0}
<1> DEFINE st == StepList[s]
           e == [bits |-> BitsOf(st), relation |-> st.relation]
<1>1. st \in Range(StepList)
  BY DEF Range
<1>2. e \in Steps
  BY <1>1, StepListAssumption
<1>3. e.bits = BitsOf(st)
  OBVIOUS
<1>4. BitsOf(st) # {} /\ BitsOf(st) \subseteq Bit
  BY <1>2, <1>3, StepsAssumption
<1>5. s \notin LinearSteps => BitsOf(st) = st.bits /\ Places(s) = {0}
  BY DEF LinearSteps, BitsOf, Places
<1> QED BY <1>2, <1>4, <1>5

\* A bitslice that changes nothing changes nothing if its bits keep their conditions.
LEMMA ComputedStays ==
    ASSUME NEW st, NEW c, NEW d \in [Bit -> Condition], Computed(st, c) = c,
           \A b \in st.bits : d[b] = c[b], st.bits \subseteq Bit
    PROVE  Computed(st, d) = d
<1> DEFINE A(x) == {t \in st.relation : \A b \in st.bits : t[b] \in x[b]}
<1>1. A(d) = A(c)
  OBVIOUS
<1>2. \A x : Computed(st, x) = [b \in Bit |-> IF b \in st.bits THEN {t[b] : t \in A(x)} ELSE x[b]]
  BY DEF Computed
<1> HIDE DEF A
<1>3. ASSUME NEW b \in Bit PROVE Computed(st, d)[b] = d[b]
  <2>1. CASE b \in st.bits
    <3>1. Computed(st, d)[b] = {t[b] : t \in A(d)} /\ Computed(st, c)[b] = {t[b] : t \in A(c)}
      BY <1>2, <2>1
    <3>2. Computed(st, d)[b] = c[b]
      BY <1>1, <3>1
    <3> QED BY <2>1, <3>2
  <2>2. CASE b \notin st.bits
    BY <1>2, <2>2
  <2> QED BY <2>1, <2>2
<1>4. Computed(st, d) = [b \in Bit |-> Computed(st, d)[b]]
  BY <1>2
<1> HIDE DEF A
<1> QED BY <1>3, <1>4

\* A bitslice that has run changes nothing when it runs again.
LEMMA ComputedAgain ==
    ASSUME NEW st, st.bits \subseteq Bit, NEW c \in [Bit -> Condition], NEW d, d = Computed(st, c)
    PROVE  Computed(st, d) = d
<1> DEFINE A(x) == {t \in st.relation : \A b \in st.bits : t[b] \in x[b]}
<1>1. \A x : Computed(st, x) = [b \in Bit |-> IF b \in st.bits THEN {t[b] : t \in A(x)} ELSE x[b]]
  BY DEF Computed
<1>2. \A b \in st.bits : d[b] = {t[b] : t \in A(c)}
  BY <1>1
<1>3. A(d) = A(c)
  <2>1. ASSUME NEW t \in A(c) PROVE t \in A(d)
    BY <1>2, <2>1
  <2>2. ASSUME NEW t \in A(d) PROVE t \in A(c)
    <3>1. t \in st.relation /\ \A b \in st.bits : t[b] \in {u[b] : u \in A(c)}
      BY <1>2, <2>2
    <3>2. \A b \in st.bits : \A u \in A(c) : u[b] \in c[b]
      OBVIOUS
    <3>3. \A b \in st.bits : t[b] \in c[b]
      BY <3>1, <3>2
    <3> QED BY <3>1, <3>3
  <2> HIDE DEF A
  <2> QED BY <2>1, <2>2
<1> HIDE DEF A
<1>4. ASSUME NEW b \in Bit PROVE Computed(st, d)[b] = d[b]
  <2>1. CASE b \in st.bits
    BY <1>1, <1>2, <1>3, <2>1
  <2>2. CASE b \notin st.bits
    BY <1>1, <2>2
  <2> QED BY <2>1, <2>2
<1>5. Computed(st, d) = [b \in Bit |-> Computed(st, d)[b]] /\ d = [b \in Bit |-> d[b]]
  BY <1>1
<1> QED BY <1>4, <1>5

\* When conditions narrow, what waits for any step still does.
LEMMA WaitsStay ==
    ASSUME NEW f, NEW l, NEW k, NEW c, NEW d \in [Bit -> Condition], Below(d, c),
           WorkWaits(f, l, c), NEW s \in DOMAIN StepList, Covers(k, l, c, d, s)
    PROVE  IF s \in LinearSteps THEN LinearWaits(f[s], s, k, d) ELSE BitsliceWaits(s, k, d)
<1>1. CASE s \in LinearSteps
  <2>1. LinearWaits(f[s], s, l, c)
    BY <1>1 DEF WorkWaits
  <2> QED BY <1>1, <2>1, LinearWaitsStay
<1>2. CASE s \notin LinearSteps
  <2>1. BitsliceWaits(s, l, c)
    BY <1>2 DEF WorkWaits
  <2>2. ASSUME <<s, 0>> \notin k PROVE Computed(StepList[s], d) = d
    <3>1. Places(s) = {0} /\ StepList[s].bits \subseteq Bit
      BY <1>2, BitsliceIs
    <3>2. <<s, 0>> \notin l /\ <<s, 0>> \notin Touched(c, d)
      BY <2>2, <3>1 DEF Covers
    <3>3. \A b \in StepList[s].bits : d[b] = c[b]
      BY <1>2, <3>1, <3>2, NotTouched
    <3>4. Computed(StepList[s], c) = c
      BY <2>1, <3>2 DEF BitsliceWaits
    <3> QED BY <3>1, <3>3, <3>4, ComputedStays
  <2> QED BY <1>2, <2>2 DEF BitsliceWaits
<1> QED BY <1>1, <1>2

\* A matrix that is rewritten for an entry of the worklist has still as much to do.
LEMMA RewrittenWaits ==
    ASSUME NEW s \in LinearSteps, NEW m, Shaped(m, RowCount(s), ColumnCount(s)), NEW k,
           NEW l, NEW c \in [Bit -> Condition], LinearWaits(m, s, l, c),
           NEW p \in Places(s), <<s, p>> \in l,
           NEW E, E \subseteq {2 * p, 2 * p + 1, ColumnCount(s)},
           NEW X, X \subseteq Columns(m) \cup E, Rewritten(k, m, X, RowCount(s), ColumnCount(s))
    PROVE  LinearWaits(k, s, l, c)
<1> DEFINE N == Len(StepList[s].bits)
<1>1. N \in Nat /\ ColumnCount(s) = 2 * N /\ Places(s) = 0..(N - 1) /\ RowCount(s) \in Nat
      /\ ColumnCount(s) \in Nat
  BY PlacesAre
<1>2. Through(s, l) # Places(s)
  BY DEF Through
<1>3. DOMAIN m.data = 0..(RowCount(s) - 1) /\ DOMAIN k.data = 0..(RowCount(s) - 1)
  BY <1>1, ColumnsAre DEF Rewritten
<1>4. RowsKnown(k, s, DOMAIN k.data \ k.extract, c)
  <2>1. RowsKnown(m, s, DOMAIN m.data \ m.extract, c)
    BY <1>2 DEF LinearWaits
  <2>2. \A i \in DOMAIN k.data \ k.extract : i \in DOMAIN m.data \ m.extract /\ k.data[i] = m.data[i]
    BY <1>3 DEF Rewritten
  <2> QED BY <2>1, <2>2 DEF RowsKnown
<1>5. ASSUME NEW q \in Through(s, l), NEW j \in DOMAIN EquationsAt(s, q, c)
      PROVE  Min(EquationsAt(s, q, c)[j]) \notin Columns(k)
  <2> DEFINE eq == EquationsAt(s, q, c)
  <2>1. q \in Places(s) /\ q # p
    BY DEF Through
  <2>2. ConditionAt(s, q, c) \in Condition
    BY <2>1, PlacesAre DEF ConditionAt
  <2>3. /\ FirstOf(eq, 2 * q, 2 * q + 1)
        /\ eq \in Seq(SUBSET (0..(2 * N)))
    BY <1>1, <2>1, <2>2, FirstColumns, LinearConditionsHold DEF EquationsAt
  <2> HIDE DEF eq, N
  <2>4. DOMAIN eq = 1..Len(eq)
    BY <2>3
  <2>5. Min(eq[j]) \in {2 * q, 2 * q + 1}
    BY <1>5, <2>3, <2>4 DEF FirstOf, eq
  <2>6. Min(eq[j]) \notin E
    BY <1>1, <2>1, <2>5
  <2>7. Min(eq[j]) \notin Columns(m)
    BY <1>5 DEF LinearWaits, Entered, eq
  <2> QED BY <2>6, <2>7 DEF Rewritten, eq
<1> QED BY <1>2, <1>4, <1>5 DEF LinearWaits, Entered

-----------------------------------------------------------------------------
(* What the rows say of single bits *)

\* A solution of the rows solves what is in data, and the sums of two rows.
LEMMA RowsHold ==
    ASSUME NEW n \in Nat, NEW c \in Nat, NEW m, Shaped(m, n, c), NEW O, SolvesRows(O, m)
    PROVE  /\ \A i, j \in DOMAIN m.data : /\ Solves(O, m.data[i], c)
                                          /\ Solves(O, SymDiff(m.data[i], m.data[j]), c)
           /\ \A r \in 0..(n - 1) : Solves(O, Content(m, r), c)
<1>1. m \in MatrixSet(n, c)
  BY DEF Shaped
<1>2. Rows(m) = 0..(n - 1) /\ RHS(m) = c /\ DOMAIN m.data = 0..(n - 1)
  <2>1. Rows(m) = 0..(n - 1) /\ RHS(m) = c
    BY <1>1, MatrixFacts
  <2> QED BY <2>1, ColumnsAre
<1>3. \A r \in 0..(n - 1) : Solves(O, Content(m, r), c)
  BY <1>2 DEF SolvesRows
<1>4. ASSUME NEW i \in DOMAIN m.data PROVE Solves(O, m.data[i], c) /\ m.data[i] \in SUBSET (0..c)
  <2>1. PICK r \in 0..(n - 1) : m.row[r].index = i
    BY <1>2 DEF Shaped
  <2>2. Content(m, r) = m.data[i]
    BY <2>1 DEF Content
  <2>3. m.data[i] \in SUBSET (0..c)
    BY <1>1, <1>2 DEF MatrixSet
  <2> QED BY <1>3, <2>2, <2>3
<1>5. ASSUME NEW i \in DOMAIN m.data, NEW j \in DOMAIN m.data
      PROVE  Solves(O, SymDiff(m.data[i], m.data[j]), c)
  BY <1>4, SumSolves
<1> QED BY <1>3, <1>4, <1>5

-----------------------------------------------------------------------------
(* What no step narrows *)

\* What a step sees grows with the conditions, and is no narrower.
LEMMA AsSeenIs ==
    ASSUME NEW s \in DOMAIN StepList, NEW c \in [Bit -> Condition], NEW d \in [Bit -> Condition],
           Below(d, c)
    PROVE  Below(AsSeen(s, d), AsSeen(s, c)) /\ Below(d, AsSeen(s, d))
<1>1. Below(Hulls(d), Hulls(c)) /\ Below(d, Hulls(d))
  BY HullsType
<1>2. Below(d, d)
  BY DEF Below
<1> QED BY <1>1, <1>2 DEF AsSeen

\* A pair of values is left if a closed characteristic below has it.
LEMMA ReachedValue ==
    ASSUME NEW c \in Characteristic, NEW b \in Bit, NEW v
    PROVE  v \in Reached(c)[b] <=> \E d \in ClosedOnes : Below(d, c) /\ v \in d[b]
BY DEF Reached, Reaching

\* What is reached is a characteristic that is at least as narrow.
LEMMA ReachedType ==
    ASSUME NEW c \in Characteristic
    PROVE  Reached(c) \in Characteristic /\ Below(Reached(c), c)
<1> DEFINE below == {d \in ClosedOnes : Below(d, c)}
           u == [b \in Bit |-> UNION {d[b] : d \in below}]
<1>1. Reached(c) = u
  BY DEF Reached, Reaching
<1>2. \A b \in Bit : u[b] \subseteq c[b]
  BY DEF Below
<1>3. c \in [Bit -> Condition] /\ \A b \in Bit : c[b] \subseteq Start[b]
  BY CharacteristicType
<1>4. u \in [Bit -> Condition] /\ \A b \in Bit : u[b] \subseteq Start[b]
  BY <1>2, <1>3 DEF Condition
<1>5. u \in Characteristic
  BY <1>4, CharacteristicType
<1> QED BY <1>1, <1>2, <1>5 DEF Below

\* Every closed characteristic below a characteristic is below what is reached.
LEMMA ReachedIsLargest ==
    ASSUME NEW c \in Characteristic, NEW d \in ClosedOnes, Below(d, c)
    PROVE  Below(d, Reached(c))
BY ReachedValue DEF Below

\* What is reached is closed: no step narrows it.
LEMMA ReachedIsClosed ==
    ASSUME NEW c \in Characteristic
    PROVE  Reached(c) \in ClosedOnes
<1> DEFINE u == Reached(c)
<1>1. u \in Characteristic /\ u \in [Bit -> Condition]
  BY ReachedType, CharacteristicType
<1> HIDE DEF u
<1>2. ASSUME NEW s \in DOMAIN StepList, NEW b \in BitsOf(StepList[s]), NEW v \in u[b]
      PROVE  \E t \in Combinations(AsBitslice(s), AsSeen(s, u)) : v = t[b]
  <2>1. /\ AsBitslice(s).bits = BitsOf(StepList[s]) /\ BitsOf(StepList[s]) \subseteq Bit
        /\ AsBitslice(s).relation = StepList[s].relation
    BY BitsliceIs DEF AsBitslice
  <2>2. b \in Bit
    BY <2>1
  <2>3. PICK d \in ClosedOnes : Below(d, c) /\ v \in d[b]
    BY <1>2, <2>2, ReachedValue DEF u
  <2>4. d \in [Bit -> Condition] /\ Closed(d)
    BY CharacteristicType DEF ClosedOnes
  <2>5. PICK t \in Combinations(AsBitslice(s), AsSeen(s, d)) : v = t[b]
    BY <2>3, <2>4 DEF Closed
  <2>6. Below(d, u)
    BY <2>3, ReachedIsLargest DEF u
  <2>7. Below(AsSeen(s, d), AsSeen(s, u))
    BY <1>1, <2>4, <2>6, AsSeenIs
  <2>8. t \in Combinations(AsBitslice(s), AsSeen(s, u))
    BY <2>1, <2>5, <2>7 DEF Combinations, Below
  <2> QED BY <2>5, <2>8
<1>3. Closed(u)
  BY <1>2 DEF Closed
<1> QED BY <1>1, <1>3 DEF ClosedOnes, u

\* The closure of module Characteristics is closed, so it lies below what is reached.
LEMMA ClosureBelowReached ==
    ASSUME NEW c \in Characteristic
    PROVE  Below(Update(c), Reached(c))
<1> DEFINE u == Update(c)
<1>1. u \in Characteristic /\ u \in [Bit -> Condition] /\ Propagated(u) /\ Below(u, c)
  BY UpdateType, UpdateIsPropagated, CharacteristicType DEF Fixpoints
<1> HIDE DEF u
<1>2. ASSUME NEW s \in DOMAIN StepList, NEW b \in BitsOf(StepList[s]), NEW v \in u[b]
      PROVE  \E t \in Combinations(AsBitslice(s), AsSeen(s, u)) : v = t[b]
  <2>1. /\ AsBitslice(s).bits = BitsOf(StepList[s]) /\ BitsOf(StepList[s]) \subseteq Bit
        /\ AsBitslice(s).relation = StepList[s].relation /\ AsBitslice(s) \in Steps
    BY BitsliceIs DEF AsBitslice
  <2>2. PICK t \in Combinations(AsBitslice(s), u) : v = t[b]
    BY <1>1, <2>1 DEF Propagated
  <2>3. Below(u, u)
    BY DEF Below
  <2>4. Below(u, AsSeen(s, u))
    BY <1>1, <2>3, AsSeenIs
  <2>5. t \in Combinations(AsBitslice(s), AsSeen(s, u))
    BY <2>1, <2>2, <2>4 DEF Combinations, Below
  <2> QED BY <2>2, <2>5
<1>3. Closed(u)
  BY <1>2 DEF Closed
<1>4. u \in ClosedOnes
  BY <1>1, <1>3 DEF ClosedOnes
<1> QED BY <1>1, <1>4, ReachedIsLargest DEF u

\* If the conditions of the linear steps are linear, nothing is narrowed further.
LEMMA ClosedIsPropagated ==
    ASSUME NEW c \in Characteristic, Closed(c),
           \A s \in LinearSteps : \A b \in BitsOf(StepList[s]) : IsLinear(c[b])
    PROVE  c \in Fixpoints
<1>1. c \in [Bit -> Condition]
  BY CharacteristicType
<1>2. ASSUME NEW e \in Steps, NEW b \in e.bits PROVE c[b] = {t[b] : t \in Combinations(e, c)}
  <2>1. PICK s \in DOMAIN StepList : e = AsBitslice(s)
    BY StepListAssumption DEF Range, AsBitslice
  <2>2. /\ e.bits = BitsOf(StepList[s]) /\ BitsOf(StepList[s]) \subseteq Bit
        /\ e.relation = StepList[s].relation
    BY <2>1, BitsliceIs DEF AsBitslice
  <2>3. c[b] \subseteq {t[b] : t \in Combinations(e, AsSeen(s, c))}
    BY <2>1, <2>2 DEF Closed
  <2>4. \A x \in e.bits : AsSeen(s, c)[x] = c[x]
    <3>1. CASE s \in LinearSteps
      <4>1. ASSUME NEW x \in e.bits PROVE Hulls(c)[x] = c[x]
        <5>1. x \in Bit /\ IsLinear(c[x])
          BY <2>2, <3>1
        <5>2. Hull(c[x]) = c[x]
          BY <5>1 DEF Hull, IsLinear
        <5> QED BY <1>1, <5>1, <5>2, HullsType
      <4> QED BY <3>1, <4>1 DEF AsSeen
    <3>2. CASE s \notin LinearSteps
      BY <3>2 DEF AsSeen
    <3> QED BY <3>1, <3>2
  <2>5. Combinations(e, AsSeen(s, c)) = Combinations(e, c)
    BY <2>4 DEF Combinations
  <2>6. \A t \in Combinations(e, c) : t[b] \in c[b]
    BY DEF Combinations
  <2> QED BY <2>3, <2>5, <2>6
<1>3. Propagated(c)
  BY <1>2 DEF Propagated
<1> QED BY <1>3 DEF Fixpoints

-----------------------------------------------------------------------------
(* What the matrices say of closed conditions *)

\* m says of what the conditions c allow, as far as equations see them, what the function
\* of step s says.
Means(m, s, c) ==
    \A t \in Assignment(StepList[s], Hulls(c)) :
        SolvesRows(Ones(t), m) <=> ValuesOf(StepList[s], t) \in StepList[s].relation

\* The variables O have the values v at the position p.
HasAt(O, p, v) == (2 * p \in O <=> ValueOne(v)) /\ (2 * p + 1 \in O <=> ValueTwo(v))

(***************************************************************************)
(* A value that the relations allow together with others has a solution of *)
(* the rows.                                                               *)
(***************************************************************************)
LEMMA ValueHolds ==
    ASSUME NEW s \in LinearSteps, NEW m, NEW c \in [Bit -> Condition], Means(m, s, c),
           NEW u \in [Bit -> Condition], Closed(u), Below(u, c),
           NEW p \in Places(s), NEW v \in ConditionAt(s, p, u)
    PROVE  \E O : ColumnCount(s) \notin O /\ SolvesRows(O, m) /\ HasAt(O, p, v)
<1> DEFINE st == StepList[s]
           N == Len(st.bits)
           e == AsBitslice(s)
           b == st.bits[p + 1]
<1>1. /\ N \in Nat /\ ColumnCount(s) = 2 * N /\ Places(s) = 0..(N - 1)
      /\ b \in Bit /\ b \in BitsOf(st)
  BY PlacesAre
<1>2. /\ st.kind = "linear" /\ st = LinearStep(st.bits, st.outputs, st.depends)
      /\ DOMAIN st.bits = 1..N
      /\ \A k \in 1..N : st.bits[k] \in Bit /\ st.bits[k] \in Range(st.bits)
  BY StepFacts
<1>3. BitsOf(st) = Range(st.bits)
  BY <1>2 DEF BitsOf
<1>4. e.bits = BitsOf(st) /\ e.relation = st.relation /\ BitsOf(st) \subseteq Bit
  BY BitsliceIs DEF LinearSteps, AsBitslice
<1>5. u[b] \subseteq {t[b] : t \in Combinations(e, Hulls(u))}
  BY <1>1 DEF Closed, AsSeen, LinearSteps
<1>6. PICK t \in Combinations(e, Hulls(u)) : v = t[b]
  BY <1>5 DEF ConditionAt
<1>7. t \in st.relation /\ \A x \in Range(st.bits) : t[x] \in Hulls(c)[x]
  <2>1. Below(Hulls(u), Hulls(c))
    BY HullsType
  <2> QED BY <1>3, <1>4, <1>6, <2>1 DEF Combinations, Below
<1>8. t \in [Range(st.bits) -> Pair]
  <2>1. st.relation \subseteq [Range(st.bits) -> Pair]
    <3> DEFINE R == {w \in [Range(st.bits) -> Pair] :
                       /\ Fits(st.bits, st.outputs, st.depends, {x \in Range(st.bits) : ValueOne(w[x])})
                       /\ Fits(st.bits, st.outputs, st.depends, {x \in Range(st.bits) : ValueTwo(w[x])})}
    <3>1. LinearStep(st.bits, st.outputs, st.depends).relation = R
      BY DEF LinearStep
    <3>2. R \subseteq [Range(st.bits) -> Pair]
      OBVIOUS
    <3> HIDE DEF R
    <3> QED BY <1>2, <3>1, <3>2
  <2> QED BY <1>7, <2>1
<1> DEFINE a == [k \in 1..N |-> t[st.bits[k]]]
           T == ValuesOf(st, a)
<1>9. \A k \in 1..N : a[k] \in Hulls(c)[st.bits[k]]
  BY <1>2, <1>7
<1>10. a \in Assignment(st, Hulls(c))
  <2> DEFINE U == UNION {Hulls(c)[x] : x \in Range(st.bits)}
  <2>1. \A k \in 1..N : a[k] \in U
    BY <1>2, <1>9
  <2> HIDE DEF U
  <2>2. a \in [1..N -> U]
    BY <2>1
  <2> HIDE DEF a
  <2>3. DOMAIN a = 1..N
    BY <2>2
  <2>4. a \in [DOMAIN st.bits -> U]
    BY <1>2, <2>2
  <2> QED BY <1>9, <2>3, <2>4 DEF Assignment, U
<1>11. T = t
  <2>1. DOMAIN a = 1..N
    OBVIOUS
  <2>2. \A k \in 1..N : a[k] = t[st.bits[k]]
    OBVIOUS
  <2> HIDE DEF a
  <2>3. T = [x \in Range(st.bits) |-> T[x]] /\ \A k \in 1..N : T[st.bits[k]] = a[k]
    BY <2>1, ValuesAt
  <2>4. \A x \in Range(st.bits) : \E k \in 1..N : st.bits[k] = x
    BY <1>2 DEF Range
  <2>5. \A x \in Range(st.bits) : T[x] = t[x]
    BY <2>2, <2>3, <2>4
  <2> HIDE DEF T
  <2> QED BY <1>8, <2>3, <2>5
<1>12. SolvesRows(Ones(a), m)
  BY <1>7, <1>10, <1>11 DEF Means
<1>13. HasAt(Ones(a), p, v) /\ 2 * N \notin Ones(a)
  <2>1. DOMAIN a = 1..N /\ p \in 0..(N - 1) /\ a[p + 1] = v
    BY <1>1, <1>6
  <2> HIDE DEF a
  <2> QED BY <1>1, <2>1, OnesAt DEF HasAt
<1> QED BY <1>1, <1>12, <1>13

(***************************************************************************)
(* So conditions that the relations do not narrow agree with all rows, and *)
(* with the sums of two.                                                   *)
(***************************************************************************)
LEMMA AllKnown ==
    ASSUME NEW s \in LinearSteps, NEW m, Shaped(m, RowCount(s), ColumnCount(s)),
           NEW c \in [Bit -> Condition], Means(m, s, c),
           NEW u \in [Bit -> Condition], Closed(u), Below(u, c)
    PROVE  RowsKnown(m, s, DOMAIN m.data, u)
<1> DEFINE N == Len(StepList[s].bits)
<1>1. /\ N \in Nat /\ ColumnCount(s) = 2 * N /\ Places(s) = 0..(N - 1)
      /\ RowCount(s) \in Nat /\ ColumnCount(s) \in Nat
  BY PlacesAre
<1> HIDE DEF N
<1>2. ASSUME NEW E, \A O : SolvesRows(O, m) => Solves(O, E, ColumnCount(s))
      PROVE  Known(E, s, u)
  <2>1. ASSUME NEW p \in Places(s), E \subseteq {2 * p, 2 * p + 1, ColumnCount(s)},
               NEW v \in ConditionAt(s, p, u)
        PROVE  Satisfies(v, E, p, ColumnCount(s))
    <3>1. PICK O : ColumnCount(s) \notin O /\ SolvesRows(O, m) /\ HasAt(O, p, v)
      BY <2>1, ValueHolds
    <3>2. Solves(O, E, 2 * N)
      BY <1>1, <1>2, <3>1
    <3>3. E \subseteq {2 * p, 2 * p + 1, 2 * N} /\ 2 * N \notin O /\ p \in 0..(N - 1)
      BY <1>1, <2>1, <3>1
    <3>4. (2 * p \in O <=> ValueOne(v)) /\ (2 * p + 1 \in O <=> ValueTwo(v))
      BY <3>1 DEF HasAt
    <3>5. Satisfies(v, E, p, 2 * N)
      BY <1>1, <3>2, <3>3, <3>4, SatisfiesIs
    <3> QED BY <1>1, <3>5
  <2> QED BY <2>1 DEF Known
<1>3. ASSUME NEW i \in DOMAIN m.data, NEW j \in DOMAIN m.data
      PROVE  Known(m.data[i], s, u) /\ Known(SymDiff(m.data[i], m.data[j]), s, u)
  <2>1. \A O : SolvesRows(O, m) => /\ Solves(O, m.data[i], ColumnCount(s))
                                   /\ Solves(O, SymDiff(m.data[i], m.data[j]), ColumnCount(s))
    BY <1>1, RowsHold
  <2> QED BY <1>2, <2>1
<1> QED BY <1>3 DEF RowsKnown

\* Rows with a solution do not say 0 = 1.
LEMMA SolutionRefutes ==
    ASSUME NEW n \in Nat, NEW c \in Nat, NEW m, Shaped(m, n, c), NEW O, c \notin O, SolvesRows(O, m)
    PROVE  /\ \A r \in 0..(n - 1) : ~ IsContradiction(m, r)
           /\ m.updateRows # {} => ~ Contradicts(m)
<1>1. ~ Solves(O, {c}, c)
  <2>1. {c} \cap O = {}
    OBVIOUS
  <2> QED BY <2>1, FS_EmptySet DEF Solves, Odd
<1>2. /\ \A r \in 0..(n - 1) : Solves(O, Content(m, r), c) /\ Content(m, r) \in SUBSET (0..c)
      /\ m \in MatrixSet(n, c) /\ RHS(m) = c /\ Rows(m) = 0..(n - 1)
  BY RowsHold, PivotOfRow, MatrixFacts DEF Shaped
<1>3. ASSUME NEW r \in 0..(n - 1), IsContradiction(m, r) PROVE FALSE
  <2>1. Pivot(m, r) = c /\ ~ IsZeroRow(m, r)
    BY <1>3, PivotOfRow
  <2>2. c \in Content(m, r) /\ \A x \in Content(m, r) : c <= x
    BY <2>1, PivotOfRow
  <2>3. Content(m, r) = {c}
    BY <1>2, <2>2
  <2> QED BY <1>1, <1>2, <2>3
<1>4. ASSUME m.updateRows # {}, Contradicts(m) PROVE FALSE
  <2> DEFINE row == Min(m.updateRows)
  <2>1. row \in 0..(n - 1)
    BY <1>2, <1>4, FirstWaits
  <2>2. PICK r \in Broken(m, row) : TRUE
    BY <1>3, <1>4, <2>1 DEF Contradicts
  <2>3. r \in 0..(n - 1) /\ SymDiff(Content(m, r), Content(m, row)) = {c}
    BY <1>2, <2>2 DEF Broken, Eliminable
  <2>4. Solves(O, SymDiff(Content(m, r), Content(m, row)), c)
    BY <1>2, <2>1, <2>3, SumSolves
  <2> QED BY <1>1, <2>3, <2>4
<1> QED BY <1>3, <1>4

\* If the relations leave a value for each bit, the rows do not say 0 = 1.
LEMMA ClosureRefutes ==
    ASSUME NEW s \in LinearSteps, NEW m, Shaped(m, RowCount(s), ColumnCount(s)),
           NEW c \in [Bit -> Condition], Means(m, s, c),
           NEW u \in [Bit -> Condition], Closed(u), Below(u, c), ~ Contradictory(u)
    PROVE  /\ \A r \in Rows(m) : ~ IsContradiction(m, r)
           /\ m.updateRows # {} => ~ Contradicts(m)
<1>1. /\ 0 \in Places(s) /\ StepList[s].bits[0 + 1] \in Bit
      /\ RowCount(s) \in Nat /\ ColumnCount(s) \in Nat
  <2> DEFINE N == Len(StepList[s].bits)
  <2>1. /\ N \in Nat /\ N >= 1 /\ ColumnCount(s) = 2 * N /\ Places(s) = 0..(N - 1)
        /\ RowCount(s) \in Nat /\ \A p \in Places(s) : StepList[s].bits[p + 1] \in Bit
    BY PlacesAre
  <2> HIDE DEF N
  <2>2. 0 \in Places(s)
    BY <2>1
  <2> QED BY <2>1, <2>2
<1>2. PICK v : v \in ConditionAt(s, 0, u)
  BY <1>1 DEF Contradictory, Contradiction, ConditionAt
<1>3. PICK O : ColumnCount(s) \notin O /\ SolvesRows(O, m)
  BY <1>1, <1>2, ValueHolds
<1>4. Rows(m) = 0..(RowCount(s) - 1)
  BY MatrixFacts DEF Shaped
<1> QED BY <1>1, <1>3, <1>4, SolutionRefutes

-----------------------------------------------------------------------------
(* What PropagateConditions finds *)

\* What the rows that changed say of the bit at p: the row of a pivot, or the two rows.
Says(m, p, E) ==
    \E i \in m.extract :
        LET r == m.rowinv[i]
            q == IF Pivot(m, r) % 2 = 0 THEN r + 1 ELSE r - 1
        IN  /\ ~ IsZeroRow(m, r) /\ Pivot(m, r) \div 2 = p
            /\ \/ E = Content(m, r)
               \/ /\ q \in Rows(m) /\ Pivot(m, q) \div 2 = p
                  /\ E = SymDiff(Content(m, r), Content(m, q))

\* A pair of values is left if all that is said of its bit allows it.
LEMMA ExtractedIs ==
    ASSUME NEW m, NEW st, NEW c, NEW b \in Bit, NEW v
    PROVE  v \in Extracted(m, st, c)[b] <=>
              /\ v \in c[b]
              /\ \A p \in 0..(Len(st.bits) - 1) : \A E :
                    (/\ st.bits[p + 1] = b /\ Says(m, p, E)
                     /\ E \subseteq {2 * p, 2 * p + 1, RHS(m)}) =>
                    Satisfies(v, E, p, RHS(m))
<1> DEFINE rows == {m.rowinv[i] : i \in m.extract}
           PivotBit(r) == Pivot(m, r) \div 2
           Neighbour(r) == IF Pivot(m, r) % 2 = 0 THEN r + 1 ELSE r - 1
           Pairs == {<<r, Neighbour(r)>> : r \in rows}
           Some == {q \in Pairs : /\ q[2] \in Rows(m)
                                  /\ ~ IsZeroRow(m, q[1])
                                  /\ PivotBit(q[1]) = PivotBit(q[2])}
           Said == {<<PivotBit(r), Content(m, r)>> : r \in {s \in rows : ~ IsZeroRow(m, s)}} \cup
                   {<<PivotBit(p[1]), SymDiff(Content(m, p[1]), Content(m, p[2]))>> : p \in Some}
           Single == {x \in Said : x[2] \subseteq {2 * x[1], 2 * x[1] + 1, RHS(m)}}
           PosOf(y) == {p \in 0..(Len(st.bits) - 1) : st.bits[p + 1] = y}
<1>1. Extracted(m, st, c)[b] =
          {w \in c[b] : \A x \in Single : x[1] \in PosOf(b) => Satisfies(w, x[2], x[1], RHS(m))}
  BY DEF Extracted
<1>2. \A p, E : <<p, E>> \in Said <=> Says(m, p, E)
  <2>1. ASSUME NEW p, NEW E, <<p, E>> \in Said PROVE Says(m, p, E)
    <3>1. CASE \E r \in rows : ~ IsZeroRow(m, r) /\ <<p, E>> = <<PivotBit(r), Content(m, r)>>
      BY <3>1 DEF Says
    <3>2. CASE \E q \in Some : <<p, E>> = <<PivotBit(q[1]), SymDiff(Content(m, q[1]), Content(m, q[2]))>>
      <4>1. PICK q \in Some : <<p, E>> = <<PivotBit(q[1]), SymDiff(Content(m, q[1]), Content(m, q[2]))>>
        BY <3>2
      <4>2. PICK r \in rows : q = <<r, Neighbour(r)>>
        OBVIOUS
      <4>3. q[1] = r /\ q[2] = Neighbour(r)
        BY <4>2
      <4> QED BY <4>1, <4>3 DEF Says
    <3> QED BY <2>1, <3>1, <3>2
  <2>2. ASSUME NEW p, NEW E, Says(m, p, E) PROVE <<p, E>> \in Said
    <3>1. PICK r \in rows : /\ ~ IsZeroRow(m, r) /\ PivotBit(r) = p
                            /\ \/ E = Content(m, r)
                               \/ /\ Neighbour(r) \in Rows(m) /\ PivotBit(Neighbour(r)) = p
                                  /\ E = SymDiff(Content(m, r), Content(m, Neighbour(r)))
      BY <2>2 DEF Says
    <3>2. CASE E = Content(m, r)
      BY <3>1, <3>2
    <3>3. CASE /\ Neighbour(r) \in Rows(m) /\ PivotBit(Neighbour(r)) = p
               /\ E = SymDiff(Content(m, r), Content(m, Neighbour(r)))
      <4>1. <<r, Neighbour(r)>> \in Pairs
        OBVIOUS
      <4> DEFINE q == <<r, Neighbour(r)>>
      <4>2. q[1] = r /\ q[2] = Neighbour(r)
        OBVIOUS
      <4> HIDE DEF Neighbour, Pairs
      <4>3. q \in Some
        BY <3>1, <3>3, <4>1, <4>2
      <4>4. <<p, E>> = <<PivotBit(q[1]), SymDiff(Content(m, q[1]), Content(m, q[2]))>>
        BY <3>1, <3>3, <4>2
      <4> HIDE DEF q, Some
      <4> QED BY <4>3, <4>4
    <3> QED BY <3>1, <3>2, <3>3
  <2> HIDE DEF Said
  <2> QED BY <2>1, <2>2
<1>3. \A x \in Said : x = <<x[1], x[2]>>
  <2>1. \A x \in Said : \E p, E : x = <<p, E>>
    OBVIOUS
  <2> HIDE DEF Said
  <2> QED BY <2>1
<1> HIDE DEF Said
<1>4. \A w : (\A x \in Single : x[1] \in PosOf(b) => Satisfies(w, x[2], x[1], RHS(m))) <=>
             (\A p \in 0..(Len(st.bits) - 1) : \A E :
                 (/\ st.bits[p + 1] = b /\ Says(m, p, E)
                  /\ E \subseteq {2 * p, 2 * p + 1, RHS(m)}) => Satisfies(w, E, p, RHS(m)))
  <2> SUFFICES ASSUME NEW w
               PROVE  (\A x \in Single : x[1] \in PosOf(b) => Satisfies(w, x[2], x[1], RHS(m))) <=>
                      (\A p \in 0..(Len(st.bits) - 1) : \A E :
                         (/\ st.bits[p + 1] = b /\ Says(m, p, E)
                          /\ E \subseteq {2 * p, 2 * p + 1, RHS(m)}) => Satisfies(w, E, p, RHS(m)))
    OBVIOUS
  <2>1. ASSUME \A x \in Single : x[1] \in PosOf(b) => Satisfies(w, x[2], x[1], RHS(m)),
               NEW p \in 0..(Len(st.bits) - 1), NEW E, st.bits[p + 1] = b, Says(m, p, E),
               E \subseteq {2 * p, 2 * p + 1, RHS(m)}
        PROVE  Satisfies(w, E, p, RHS(m))
    <3> DEFINE x == <<p, E>>
    <3>1. x \in Said /\ x[1] = p /\ x[2] = E
      BY <1>2, <2>1
    <3> HIDE DEF x
    <3>2. x \in Single /\ x[1] \in PosOf(b)
      BY <2>1, <3>1
    <3> QED BY <2>1, <3>1, <3>2
  <2>2. ASSUME \A p \in 0..(Len(st.bits) - 1) : \A E :
                 (/\ st.bits[p + 1] = b /\ Says(m, p, E)
                  /\ E \subseteq {2 * p, 2 * p + 1, RHS(m)}) => Satisfies(w, E, p, RHS(m)),
               NEW x \in Single, x[1] \in PosOf(b)
        PROVE  Satisfies(w, x[2], x[1], RHS(m))
    <3>1. Says(m, x[1], x[2])
      BY <1>2, <1>3, <2>2
    <3>2. x[1] \in 0..(Len(st.bits) - 1) /\ st.bits[x[1] + 1] = b
      BY <2>2
    <3>3. x[2] \subseteq {2 * x[1], 2 * x[1] + 1, RHS(m)}
      BY <2>2
    <3> QED BY <2>2, <3>1, <3>2, <3>3
  <2> QED BY <2>1, <2>2
<1> QED BY <1>1, <1>4

\* What is said are rows, and sums of two.
LEMMA SaidAreRows ==
    ASSUME NEW n \in Nat, NEW c \in Nat, NEW m, Shaped(m, n, c), NEW p, NEW E, Says(m, p, E)
    PROVE  \E i, j \in DOMAIN m.data : E = m.data[i] \/ E = SymDiff(m.data[i], m.data[j])
<1>1. /\ m \in MatrixSet(n, c) /\ m.extract \subseteq 0..(n - 1) /\ DOMAIN m.data = 0..(n - 1)
      /\ \A i \in 0..(n - 1) : m.rowinv[i] \in 0..(n - 1)
  BY DEF Shaped, MatrixSet
<1>2. /\ Rows(m) = 0..(n - 1)
      /\ \A r \in 0..(n - 1) :
            m.row[r].index \in 0..(n - 1) /\ Content(m, r) = m.data[m.row[r].index]
  <2>1. m \in MatrixSet(n, c)
    BY <1>1
  <2> QED BY <2>1, MatrixFacts
<1>3. \E r, q \in 0..(n - 1) : E = Content(m, r) \/ E = SymDiff(Content(m, r), Content(m, q))
  BY <1>1, <1>2 DEF Says
<1>4. PICK r \in 0..(n - 1), q \in 0..(n - 1) :
          E = Content(m, r) \/ E = SymDiff(Content(m, r), Content(m, q))
  BY <1>3
<1> DEFINE i == m.row[r].index
           j == m.row[q].index
<1>5. /\ i \in DOMAIN m.data /\ j \in DOMAIN m.data
      /\ Content(m, r) = m.data[i] /\ Content(m, q) = m.data[j]
  BY <1>1, <1>2
<1> HIDE DEF i, j
<1>6. E = m.data[i] \/ E = SymDiff(m.data[i], m.data[j])
  BY <1>4, <1>5
<1> QED BY <1>5, <1>6

\* What the relations allow is never taken away.
LEMMA ClosureExtracted ==
    ASSUME NEW s \in LinearSteps, NEW m, Shaped(m, RowCount(s), ColumnCount(s)),
           NEW c \in [Bit -> Condition], Means(m, s, c),
           NEW u \in [Bit -> Condition], Closed(u), Below(u, c)
    PROVE  Below(u, Extracted(m, StepList[s], c))
<1> DEFINE st == StepList[s]
<1>1. /\ RowCount(s) \in Nat /\ ColumnCount(s) \in Nat /\ Places(s) = 0..(Len(st.bits) - 1)
  BY PlacesAre
<1>2. RHS(m) = ColumnCount(s)
  BY MatrixFacts DEF Shaped
<1>3. RowsKnown(m, s, DOMAIN m.data, u)
  BY AllKnown
<1>4. ASSUME NEW b \in Bit, NEW v \in u[b] PROVE v \in Extracted(m, st, c)[b]
  <2>1. v \in c[b]
    BY DEF Below
  <2>2. ASSUME NEW p \in 0..(Len(st.bits) - 1), NEW E, st.bits[p + 1] = b, Says(m, p, E),
               E \subseteq {2 * p, 2 * p + 1, RHS(m)}
        PROVE  Satisfies(v, E, p, RHS(m))
    <3>1. Known(E, s, u)
      BY <1>1, <1>3, <2>2, SaidAreRows DEF RowsKnown
    <3>2. v \in ConditionAt(s, p, u)
      BY <2>2 DEF ConditionAt
    <3> QED BY <1>1, <1>2, <2>2, <3>1, <3>2 DEF Known
  <2> QED BY <2>1, <2>2, ExtractedIs
<1> QED BY <1>4 DEF Below

\* So with a bitslice.
LEMMA ClosureComputed ==
    ASSUME NEW s \in DOMAIN StepList \ LinearSteps, NEW c \in [Bit -> Condition],
           NEW u \in [Bit -> Condition], Closed(u), Below(u, c)
    PROVE  Below(u, Computed(StepList[s], c))
<1> DEFINE st == StepList[s]
           e == AsBitslice(s)
           A == {t \in st.relation : \A b \in st.bits : t[b] \in c[b]}
<1>1. /\ e.bits = st.bits /\ e.relation = st.relation /\ st.bits \subseteq Bit
      /\ BitsOf(st) = st.bits
  BY BitsliceIs DEF AsBitslice
<1>2. \A b \in st.bits : u[b] \subseteq {t[b] : t \in Combinations(e, u)}
  BY <1>1 DEF Closed, AsSeen
<1>3. Combinations(e, u) \subseteq A
  BY <1>1 DEF Combinations, Below
<1>4. \A b \in Bit : Computed(st, c)[b] = IF b \in st.bits THEN {t[b] : t \in A} ELSE c[b]
  BY DEF Computed
<1> HIDE DEF A
<1>5. ASSUME NEW b \in Bit, NEW v \in u[b] PROVE v \in Computed(st, c)[b]
  <2>1. CASE b \in st.bits
    <3>1. v \in {t[b] : t \in Combinations(e, u)}
      BY <1>2, <1>5, <2>1
    <3>2. PICK t \in Combinations(e, u) : v = t[b]
      BY <3>1
    <3>3. v \in {x[b] : x \in A}
      BY <1>3, <3>2
    <3> QED BY <1>4, <2>1, <3>3
  <2>2. CASE b \notin st.bits
    BY <1>4, <1>5, <2>2 DEF Below
  <2> QED BY <2>1, <2>2
<1> QED BY <1>5 DEF Below

\* Where the rows of data are.
LEMMA PositionIs ==
    ASSUME NEW n \in Nat, NEW c \in Nat, NEW m, Shaped(m, n, c), NEW i \in 0..(n - 1)
    PROVE  /\ m.rowinv[i] \in 0..(n - 1) /\ m.row[m.rowinv[i]].index = i
           /\ Content(m, m.rowinv[i]) = m.data[i]
<1>1. m \in MatrixSet(n, c) /\ m.rowinv = Positions(m.row)
  BY DEF Shaped
<1>2. DOMAIN m.row = 0..(n - 1) /\ DOMAIN m.data = 0..(n - 1)
  <2>1. Rows(m) = 0..(n - 1)
    BY <1>1, MatrixFacts
  <2> QED BY <2>1, ColumnsAre DEF Rows
<1>3. \E r \in DOMAIN m.row : m.row[r].index = i
  BY <1>2 DEF Shaped, Rows
<1>4. m.rowinv[i] = CHOOSE r \in DOMAIN m.row : m.row[r].index = i
  BY <1>1, <1>2 DEF Positions
<1>5. m.rowinv[i] \in DOMAIN m.row /\ m.row[m.rowinv[i]].index = i
  BY <1>3, <1>4
<1> QED BY <1>2, <1>5 DEF Content

\* The two rows with a pivot in the columns of a bit are neighbours.
LEMMA PairIsSaid ==
    ASSUME NEW n \in Nat, NEW c \in Nat, NEW m, Shaped(m, n, c), Settled(m),
           NEW p \in Nat, 2 * p + 1 < c,
           NEW i \in m.extract, NEW r \in 0..(n - 1), r = m.rowinv[i], NEW q \in 0..(n - 1), r # q,
           Pivot(m, r) \in {2 * p, 2 * p + 1}, Pivot(m, q) \in {2 * p, 2 * p + 1}
    PROVE  Says(m, p, SymDiff(Content(m, r), Content(m, q)))
<1> DEFINE x == 2 * p
           y == 2 * p + 1
<1>1. SortedOn(m, 0..(n - 1)) /\ Eliminated(m, 0..(n - 1)) /\ Rows(m) = 0..(n - 1)
  BY SettledIs, MatrixFacts DEF Shaped
<1>2. x \in 0..(c - 1) /\ y \in 0..(c - 1) /\ x < y /\ c \in Nat
  OBVIOUS
<1>3. ~ IsZeroRow(m, r) /\ ~ IsZeroRow(m, q)
  <2>1. Pivot(m, r) # c + 1 /\ Pivot(m, q) # c + 1
    OBVIOUS
  <2> QED BY <2>1, PivotOfRow
<1>4. Pivot(m, r) # Pivot(m, q)
  BY <1>1, <1>3, PivotsDiffer
<1>5. ASSUME NEW a \in 0..(n - 1), NEW b \in 0..(n - 1), Pivot(m, a) = x, Pivot(m, b) = y
      PROVE  b = a + 1
  <2>1. a # b
    BY <1>2, <1>5
  <2>2. a < b
    BY <1>1, <1>2, <1>5, <2>1 DEF SortedOn
  <2>3. ASSUME a + 1 < b PROVE FALSE
    <3>1. a + 1 \in 0..(n - 1) /\ a < a + 1
      BY <2>3
    <3>2. x <= Pivot(m, a + 1) /\ Pivot(m, a + 1) <= y
      BY <1>1, <1>5, <2>3, <3>1 DEF SortedOn
    <3>3. Pivot(m, a + 1) \in 0..(c + 1)
      BY <3>1, PivotOfRow
    <3>4. Pivot(m, a + 1) \in {x, y}
      BY <3>2, <3>3
    <3>5. Pivot(m, a) \in {x, y} /\ Pivot(m, b) \in {x, y}
      BY <1>5
    <3> HIDE DEF x, y
    <3>6. a + 1 \in {a, b}
      BY <1>2, <2>1, <3>1, <3>4, <3>5, AtMostTwo
    <3> QED BY <2>3, <3>6
  <2> QED BY <2>2, <2>3
<1>6. /\ Pivot(m, r) \div 2 = p /\ Pivot(m, q) \div 2 = p
      /\ Pivot(m, r) % 2 = 0 <=> Pivot(m, r) = x
  OBVIOUS
<1>7. q = IF Pivot(m, r) % 2 = 0 THEN r + 1 ELSE r - 1
  <2>1. CASE Pivot(m, r) = x
    <3>1. Pivot(m, q) = y
      BY <1>4, <2>1
    <3> QED BY <1>5, <1>6, <2>1, <3>1
  <2>2. CASE Pivot(m, r) = y
    <3>1. Pivot(m, q) = x
      BY <1>4, <2>2
    <3>2. r = q + 1
      BY <1>5, <2>2, <3>1
    <3>3. Pivot(m, r) % 2 # 0
      BY <1>2, <1>6, <2>2
    <3> QED BY <3>2, <3>3
  <2> QED BY <2>1, <2>2
<1> HIDE DEF x, y
<1> QED BY <1>1, <1>3, <1>6, <1>7 DEF Says

\* The empty equation is known.
LEMMA NothingKnown ==
    ASSUME NEW s, NEW c
    PROVE  Known({}, s, c)
BY DEF Known, Satisfies

(***************************************************************************)
(* If the rows that are not marked are known, all are after the others     *)
(* have been looked at: what a row says of one bit only is the row of a    *)
(* pivot of that bit, or the sum of the two.                               *)
(***************************************************************************)
LEMMA ExtractedKnows ==
    ASSUME NEW s \in LinearSteps, NEW m, Shaped(m, RowCount(s), ColumnCount(s)), Settled(m),
           NEW c \in [Bit -> Condition], RowsKnown(m, s, DOMAIN m.data \ m.extract, c),
           NEW d, d = Extracted(m, StepList[s], c)
    PROVE  RowsKnown(m, s, DOMAIN m.data, d)
<1> DEFINE n == RowCount(s)
           C == ColumnCount(s)
           N == Len(StepList[s].bits)
<1>1. /\ N \in Nat /\ C = 2 * N /\ Places(s) = 0..(N - 1) /\ n \in Nat /\ C \in Nat
      /\ \A p \in Places(s) : StepList[s].bits[p + 1] \in Bit
  <2>1. /\ N \in Nat /\ C = 2 * N /\ Places(s) = 0..(N - 1) /\ n \in Nat
        /\ \A p \in Places(s) : StepList[s].bits[p + 1] \in Bit
    BY PlacesAre
  <2> HIDE DEF n, C, N
  <2> QED BY <2>1
<1> HIDE DEF N
<1>2. Shaped(m, n, C) /\ Eliminated(m, 0..(n - 1)) /\ Rows(m) = 0..(n - 1) /\ RHS(m) = C
  <2>1. Shaped(m, n, C) /\ m \in MatrixSet(n, C)
    BY DEF Shaped
  <2> HIDE DEF n, C
  <2>2. Eliminated(m, 0..(n - 1))
    BY <2>1, SettledIs
  <2> QED BY <2>1, <2>2, MatrixFacts
<1> HIDE DEF n, C
<1>3. DOMAIN m.data = 0..(n - 1) /\ \A i \in 0..(n - 1) : m.data[i] \in SUBSET (0..C)
  BY <1>1, <1>2, ColumnsAre
<1>4. Below(d, c)
  BY ExtractedNarrows
<1>5. ASSUME NEW E, \A p \in Places(s) : E \subseteq {2 * p, 2 * p + 1, C} => Says(m, p, E)
      PROVE  Known(E, s, d)
  <2>1. ASSUME NEW p \in Places(s), E \subseteq {2 * p, 2 * p + 1, C}, NEW v \in ConditionAt(s, p, d)
        PROVE  Satisfies(v, E, p, C)
    <3> DEFINE b == StepList[s].bits[p + 1]
    <3>1. b \in Bit /\ v \in d[b] /\ p \in 0..(Len(StepList[s].bits) - 1)
      BY <1>1, <2>1 DEF ConditionAt, N
    <3>2. Says(m, p, E)
      BY <1>5, <2>1
    <3>3. /\ StepList[s].bits[p + 1] = b /\ E \subseteq {2 * p, 2 * p + 1, RHS(m)}
      BY <1>2, <2>1
    <3> HIDE DEF b
    <3>4. Satisfies(v, E, p, RHS(m))
      BY <3>1, <3>2, <3>3, ExtractedIs
    <3> QED BY <1>2, <3>4
  <2> QED BY <2>1 DEF Known, C
<1>6. ASSUME NEW i \in 0..(n - 1)
      PROVE  /\ m.rowinv[i] \in 0..(n - 1) /\ Content(m, m.rowinv[i]) = m.data[i]
             /\ m.row[m.rowinv[i]].index = i
             /\ m.data[i] # {} => /\ ~ IsZeroRow(m, m.rowinv[i])
                                  /\ Pivot(m, m.rowinv[i]) \in m.data[i]
                                  /\ Pivot(m, m.rowinv[i]) # C
                                  /\ \A q \in 0..(n - 1) : q # m.rowinv[i] =>
                                        Pivot(m, m.rowinv[i]) \notin Content(m, q)
  <2> DEFINE r == m.rowinv[i]
  <2>1. r \in 0..(n - 1) /\ Content(m, r) = m.data[i] /\ m.row[r].index = i
    BY <1>1, <1>2, PositionIs
  <2>2. ASSUME m.data[i] # {}
        PROVE  ~ IsZeroRow(m, r) /\ Pivot(m, r) \in m.data[i] /\ Pivot(m, r) # C
    <3>1. ~ IsZeroRow(m, r)
      BY <1>1, <1>2, <2>1, <2>2, PivotOfRow, SMTT(30)
    <3>2. Pivot(m, r) \in m.data[i] /\ ~ IsContradiction(m, r)
      BY <1>1, <1>2, <2>1, <3>1, PivotOfRow DEF Eliminated
    <3> QED BY <1>2, <3>1, <3>2 DEF IsContradiction
  <2>3. m.data[i] # {} => \A q \in 0..(n - 1) : q # r => Pivot(m, r) \notin Content(m, q)
    BY <1>2, <2>1, <2>2 DEF Eliminated
  <2> QED BY <2>1, <2>2, <2>3
<1>7. ASSUME NEW i \in 0..(n - 1) PROVE Known(m.data[i], s, d)
  <2>1. CASE i \notin m.extract
    <3>1. Known(m.data[i], s, c)
      BY <1>3, <2>1 DEF RowsKnown
    <3> QED BY <1>4, <3>1, KnownNarrows
  <2>2. CASE m.data[i] = {}
    BY <2>2, NothingKnown
  <2>3. CASE i \in m.extract /\ m.data[i] # {}
    <3> DEFINE r == m.rowinv[i]
    <3>1. /\ ~ IsZeroRow(m, r) /\ Pivot(m, r) \in m.data[i] /\ Pivot(m, r) # C
          /\ Content(m, r) = m.data[i]
      BY <1>6, <2>3
    <3>2. ASSUME NEW p \in Places(s), m.data[i] \subseteq {2 * p, 2 * p + 1, C}
          PROVE  Says(m, p, m.data[i])
      <4>1. Pivot(m, r) \in {2 * p, 2 * p + 1} /\ p \in Nat
        BY <1>1, <3>1, <3>2
      <4>2. Pivot(m, r) \div 2 = p
        BY <4>1
      <4> QED BY <2>3, <3>1, <4>2 DEF Says
    <3> QED BY <1>5, <3>2
  <2> QED BY <2>1, <2>2, <2>3
<1>8. ASSUME NEW i \in m.extract, NEW j \in 0..(n - 1) PROVE Known(SymDiff(m.data[i], m.data[j]), s, d)
  <2>0. i \in 0..(n - 1)
    BY <1>2 DEF Shaped, MatrixSet
  <2>1. CASE i = j
    <3>1. SymDiff(m.data[i], m.data[j]) = {}
      BY <2>1 DEF SymDiff
    <3> QED BY <3>1, NothingKnown
  <2>2. CASE m.data[i] = {}
    <3>1. SymDiff(m.data[i], m.data[j]) = m.data[j]
      BY <2>2 DEF SymDiff
    <3> QED BY <1>7, <3>1
  <2>3. CASE m.data[j] = {}
    <3>1. SymDiff(m.data[i], m.data[j]) = m.data[i]
      BY <2>3 DEF SymDiff
    <3> QED BY <1>7, <2>0, <3>1
  <2>4. CASE i # j /\ m.data[i] # {} /\ m.data[j] # {}
    <3> DEFINE r == m.rowinv[i]
               q == m.rowinv[j]
    <3>1. /\ r \in 0..(n - 1) /\ q \in 0..(n - 1) /\ r # q
          /\ Content(m, r) = m.data[i] /\ Content(m, q) = m.data[j]
      <4>1. m.row[r].index = i /\ m.row[q].index = j
        BY <1>6, <2>0
      <4>2. r # q
        BY <2>4, <4>1
      <4> QED BY <1>6, <2>0, <4>2
    <3>2. /\ Pivot(m, r) \in m.data[i] /\ Pivot(m, r) # C /\ Pivot(m, r) \notin m.data[j]
          /\ Pivot(m, q) \in m.data[j] /\ Pivot(m, q) # C /\ Pivot(m, q) \notin m.data[i]
      <4>1. /\ Pivot(m, r) \in m.data[i] /\ Pivot(m, r) # C
            /\ Pivot(m, r) \notin Content(m, q)
        BY <1>6, <2>0, <2>4, <3>1
      <4>2. /\ Pivot(m, q) \in m.data[j] /\ Pivot(m, q) # C
            /\ Pivot(m, q) \notin Content(m, r)
        BY <1>6, <2>0, <2>4, <3>1
      <4> QED BY <3>1, <4>1, <4>2
    <3>3. ASSUME NEW p \in Places(s), SymDiff(m.data[i], m.data[j]) \subseteq {2 * p, 2 * p + 1, C}
          PROVE  Says(m, p, SymDiff(m.data[i], m.data[j]))
      <4>1. Pivot(m, r) \in SymDiff(m.data[i], m.data[j]) /\ Pivot(m, q) \in SymDiff(m.data[i], m.data[j])
        BY <3>2 DEF SymDiff
      <4>2. Pivot(m, r) \in {2 * p, 2 * p + 1} /\ Pivot(m, q) \in {2 * p, 2 * p + 1}
        BY <3>2, <3>3, <4>1
      <4>3. p \in Nat /\ 2 * p + 1 < C
        BY <1>1, <3>3
      <4> HIDE DEF r, q
      <4>4. Says(m, p, SymDiff(Content(m, r), Content(m, q)))
        BY <1>1, <1>2, <3>1, <4>2, <4>3, PairIsSaid DEF r
      <4> QED BY <3>1, <4>4
    <3> QED BY <1>5, <3>3
  <2> QED BY <2>1, <2>2, <2>3, <2>4
<1>9. ASSUME NEW i \in 0..(n - 1), NEW j \in 0..(n - 1) PROVE Known(SymDiff(m.data[i], m.data[j]), s, d)
  <2>1. CASE i \in m.extract
    BY <1>8, <2>1
  <2>2. CASE j \in m.extract
    <3>1. SymDiff(m.data[i], m.data[j]) = SymDiff(m.data[j], m.data[i])
      BY DEF SymDiff
    <3> QED BY <1>8, <2>2, <3>1
  <2>3. CASE i \notin m.extract /\ j \notin m.extract
    <3>1. Known(SymDiff(m.data[i], m.data[j]), s, c)
      BY <1>3, <2>3 DEF RowsKnown
    <3> QED BY <1>4, <3>1, KnownNarrows
  <2> QED BY <2>1, <2>2, <2>3
<1> QED BY <1>3, <1>7, <1>9 DEF RowsKnown

-----------------------------------------------------------------------------
(* What is left when nothing waits *)

\* The columns of a bit whose variable is 1 if the bit has the value v.
OnesOf(p, v) ==
    (IF ValueOne(v) THEN {2 * p} ELSE {}) \cup (IF ValueTwo(v) THEN {2 * p + 1} ELSE {})

\* A solution of the rows with the value v at p.
LEMMA SolutionFor ==
    ASSUME NEW s \in LinearSteps, NEW m, Shaped(m, RowCount(s), ColumnCount(s)), Settled(m),
           NEW c, RowsKnown(m, s, DOMAIN m.data, c),
           NEW p \in Places(s), NEW v \in ConditionAt(s, p, c)
    PROVE  \E O : ColumnCount(s) \notin O /\ SolvesRows(O, m) /\ HasAt(O, p, v)
<1> DEFINE n == RowCount(s)
           C == ColumnCount(s)
           N == Len(StepList[s].bits)
           x == 2 * p
           y == 2 * p + 1
           V == OnesOf(p, v)
<1>1. /\ N \in Nat /\ C = 2 * N /\ p \in 0..(N - 1) /\ n \in Nat
  BY PlacesAre
<1> HIDE DEF n, C, N
<1>2. x \in 0..(C - 1) /\ y \in 0..(C - 1) /\ x # y /\ C \in Nat
  BY <1>1
<1>3. V \in SUBSET {x, y} /\ (x \in V <=> ValueOne(v)) /\ (y \in V <=> ValueTwo(v))
  BY <1>2 DEF OnesOf
<1> HIDE DEF V
<1>4. ASSUME NEW E, Known(E, s, c), E \subseteq {x, y, C} PROVE Solves(V, E, C)
  <2>1. Satisfies(v, E, p, C)
    BY <1>4 DEF Known, C
  <2>2. C \notin V
    BY <1>2, <1>3
  <2>3. Satisfies(v, E, p, 2 * N) <=> Solves(V, E, 2 * N)
    BY <1>1, <1>3, <1>4, <2>2, SatisfiesIs
  <2> QED BY <1>1, <2>1, <2>3
<1>5. Shaped(m, n, C)
  BY DEF n, C
<1>6. Consistent(m, n, C, x, y, V)
  <2>1. ASSUME NEW r \in 0..(n - 1), NEW q \in 0..(n - 1)
        PROVE  Known(Content(m, r), s, c) /\ Known(SymDiff(Content(m, q), Content(m, r)), s, c)
    <3>1. m \in MatrixSet(n, C) /\ DOMAIN m.data = 0..(n - 1)
      BY <1>1, <1>2, <1>5, ColumnsAre DEF Shaped
    <3>2. /\ m.row[r].index \in DOMAIN m.data /\ m.row[q].index \in DOMAIN m.data
          /\ Content(m, r) = m.data[m.row[r].index] /\ Content(m, q) = m.data[m.row[q].index]
      BY <3>1, MatrixFacts
    <3> QED BY <3>2 DEF RowsKnown
  <2> HIDE DEF x, y
  <2> QED BY <1>4, <2>1 DEF Consistent
<1> HIDE DEF x, y
<1>7. PICK O \in SUBSET (0..(C - 1)) :
          SolvesRows(O, m) /\ \A z \in {x, y} : z \in O <=> z \in V
  BY <1>1, <1>2, <1>3, <1>5, <1>6, SolutionWith
<1>8. C \notin O
  BY <1>2
<1>9. HasAt(O, p, v)
  BY <1>3, <1>7 DEF HasAt, x, y
<1> QED BY <1>7, <1>8, <1>9 DEF C

(***************************************************************************)
(* If all conditions have been added to a settled matrix and agree with    *)
(* its rows, then every value that a condition allows is part of a         *)
(* combination that the function of the step and the hulls allow: the      *)
(* variables that occur in the matrix have a solution, and for the others  *)
(* a condition, which eliminated them, has values.                         *)
(***************************************************************************)
LEMMA NothingLeftAt ==
    ASSUME NEW s \in LinearSteps, NEW m, Shaped(m, RowCount(s), ColumnCount(s)), Settled(m),
           NEW c \in [Bit -> Condition], ~ Contradictory(c), Means(m, s, c),
           Entered(m, s, Places(s), c), RowsKnown(m, s, DOMAIN m.data, c),
           NEW p \in Places(s), NEW v \in ConditionAt(s, p, c)
    PROVE  \E t \in StepList[s].relation : /\ \A b \in BitsOf(StepList[s]) : t[b] \in Hulls(c)[b]
                                           /\ t[StepList[s].bits[p + 1]] = v
<1> DEFINE n == RowCount(s)
           C == ColumnCount(s)
           st == StepList[s]
           N == Len(st.bits)
<1>1. /\ N \in Nat /\ C = 2 * N /\ Places(s) = 0..(N - 1) /\ n \in Nat
      /\ \A q \in Places(s) : st.bits[q + 1] \in Bit /\ st.bits[q + 1] \in BitsOf(st)
  BY PlacesAre
<1>2. /\ DOMAIN st.bits = 1..N /\ BitsOf(st) = Range(st.bits)
  BY StepFacts DEF BitsOf
<1>3. PICK O : C \notin O /\ SolvesRows(O, m) /\ HasAt(O, p, v)
  BY SolutionFor
<1> HIDE DEF n, C, N
<1> DEFINE Gone(z) == z \notin Columns(m)
           Fits2(q, w) == /\ w \in ConditionAt(s, q, Hulls(c))
                          /\ (2 * q \in O <=> ValueOne(w)) \/ Gone(2 * q)
                          /\ (2 * q + 1 \in O <=> ValueTwo(w)) \/ Gone(2 * q + 1)
<1>4. ASSUME NEW q \in Places(s) PROVE \E w : Fits2(q, w) /\ (q = p => w = v)
  <2>1. CASE q = p
    <3>1. v \in ConditionAt(s, p, Hulls(c))
      BY <1>1, HullsType DEF ConditionAt, Below
    <3> QED BY <1>3, <2>1, <3>1 DEF HasAt
  <2>2. CASE q # p
    <3> DEFINE eq == EquationsAt(s, q, c)
               bc == ConditionAt(s, q, c)
    <3>1. bc \in Condition /\ bc # {} /\ Hull(bc) = ConditionAt(s, q, Hulls(c))
      BY <1>1, HullsType DEF Contradictory, Contradiction, ConditionAt
    <3>2. eq = LinearConditions(bc, q, 2 * N)
      BY <1>1 DEF EquationsAt, C
    <3> HIDE DEF eq, bc
    <3>3. HasValue(eq, Hull(bc), 2 * q, 2 * q + 1)
      BY <1>1, <3>1, <3>2, HullHasValue
    <3>4. \A k \in 1..Len(eq) : Gone(Min(eq[k]))
      <4>1. eq \in Seq(SUBSET (0..(2 * N)))
        BY <1>1, <3>1, <3>2, LinearConditionsHold
      <4>2. DOMAIN eq = 1..Len(eq)
        BY <4>1
      <4> QED BY <4>2 DEF Entered, eq
    <3>5. PICK w \in Hull(bc) : /\ (2 * q \in O <=> ValueOne(w)) \/ \E k \in 1..Len(eq) : Min(eq[k]) = 2 * q
                                /\ (2 * q + 1 \in O <=> ValueTwo(w)) \/ \E k \in 1..Len(eq) : Min(eq[k]) = 2 * q + 1
      BY <3>3 DEF HasValue
    <3>6. Fits2(q, w)
      BY <3>1, <3>4, <3>5
    <3> QED BY <2>2, <3>6
  <2> QED BY <2>1, <2>2
<1> HIDE DEF Fits2
<1> DEFINE W(q) == CHOOSE w : Fits2(q, w) /\ (q = p => w = v)
           t == [k \in 1..N |-> W(k - 1)]
<1>5. \A q \in Places(s) : Fits2(q, W(q)) /\ (q = p => W(q) = v)
  BY <1>4
<1> HIDE DEF W
<1>6. ASSUME NEW k \in 1..N PROVE k - 1 \in Places(s) /\ t[k] = W(k - 1) /\ (k - 1) + 1 = k
  BY <1>1
<1>7. \A q \in Places(s) : Fits2(q, t[q + 1])
  <2>1. ASSUME NEW q \in Places(s) PROVE q + 1 \in 1..N /\ (q + 1) - 1 = q
    BY <1>1
  <2> QED BY <1>5, <2>1
<1>8. ASSUME NEW k \in 1..N PROVE t[k] \in Hulls(c)[st.bits[k]]
  <2>1. Fits2(k - 1, t[k])
    BY <1>5, <1>6
  <2>2. t[k] \in ConditionAt(s, k - 1, Hulls(c))
    BY <2>1 DEF Fits2
  <2> HIDE DEF t
  <2> QED BY <1>6, <2>2 DEF ConditionAt
<1>9. DOMAIN t = 1..N /\ t = [k \in 1..N |-> t[k]]
  OBVIOUS
<1>10. t[p + 1] = v
  <2>1. p + 1 \in 1..N /\ (p + 1) - 1 = p
    BY <1>1
  <2> QED BY <1>5, <2>1
<1> HIDE DEF t
<1>11. t \in Assignment(st, Hulls(c))
  <2> DEFINE U == UNION {Hulls(c)[b] : b \in Range(st.bits)}
  <2>1. \A k \in 1..N : st.bits[k] \in Range(st.bits)
    BY <1>2 DEF Range
  <2>2. \A k \in 1..N : t[k] \in U
    BY <1>8, <2>1
  <2> HIDE DEF U
  <2>3. t \in [DOMAIN st.bits -> U]
    BY <1>2, <1>9, <2>2
  <2> QED BY <1>8, <1>9, <2>3 DEF Assignment, U
\* The columns that occur have the values of the solution.
<1>12. ASSUME NEW z \in Columns(m) PROVE z \in Ones(t) <=> z \in O
  <2>1. z \in 0..C
    BY <1>1, ColumnsAre DEF n, C
  <2>2. CASE z = C
    <3>1. 2 * N \notin Ones(t)
      <4>1. p \in 0..(N - 1)
        BY <1>1
      <4> QED BY <1>1, <1>9, <4>1, OnesAt
    <3> QED BY <1>1, <1>3, <2>2, <3>1
  <2>3. CASE z # C
    <3> DEFINE q == z \div 2
    <3>1. q \in Places(s) /\ q \in 0..(N - 1) /\ (z = 2 * q \/ z = 2 * q + 1)
      BY <1>1, <2>1, <2>3
    <3> HIDE DEF q
    <3>2. /\ 2 * q \in Ones(t) <=> ValueOne(t[q + 1])
          /\ 2 * q + 1 \in Ones(t) <=> ValueTwo(t[q + 1])
      BY <1>1, <1>9, <3>1, OnesAt
    <3>3. /\ (2 * q \in O <=> ValueOne(t[q + 1])) \/ Gone(2 * q)
          /\ (2 * q + 1 \in O <=> ValueTwo(t[q + 1])) \/ Gone(2 * q + 1)
      BY <1>7, <3>1 DEF Fits2
    <3>4. CASE z = 2 * q
      BY <1>12, <3>2, <3>3, <3>4
    <3>5. CASE z = 2 * q + 1
      BY <1>12, <3>2, <3>3, <3>5
    <3> QED BY <3>1, <3>4, <3>5
  <2> QED BY <2>2, <2>3
<1>13. SolvesRows(Ones(t), m)
  <2>1. ASSUME NEW r \in Rows(m) PROVE Solves(Ones(t), Content(m, r), RHS(m))
    <3>1. r \in 0..(n - 1) /\ RHS(m) = C
      <4>1. m \in MatrixSet(n, C)
        BY DEF Shaped, n, C
      <4>2. Rows(m) = 0..(n - 1)
        BY <4>1, MatrixFacts
      <4>3. RHS(m) = C
        BY <4>1, MatrixFacts
      <4> QED BY <4>2, <4>3
    <3>2. Content(m, r) \subseteq Columns(m)
      BY <1>1, <3>1, ColumnsAre DEF n, C
    <3>3. Content(m, r) \cap Ones(t) = Content(m, r) \cap O
      BY <1>12, <3>2
    <3>4. Solves(O, Content(m, r), C)
      BY <1>3, <3>1 DEF SolvesRows
    <3> QED BY <3>1, <3>3, <3>4, SolvesAlike
  <2> QED BY <2>1 DEF SolvesRows
<1> DEFINE T == ValuesOf(st, t)
<1>14. T \in st.relation
  BY <1>11, <1>13 DEF Means
<1>15. \A k \in 1..N : T[st.bits[k]] = t[k]
  <2>1. DOMAIN t = 1..Len(st.bits)
    BY <1>9 DEF N
  <2> HIDE DEF st
  <2>2. st = StepList[s]
    BY DEF st
  <2>3. \A k \in 1..Len(st.bits) : T[st.bits[k]] = t[k]
    BY <2>1, <2>2, ValuesAt
  <2> QED BY <2>3 DEF N
<1>16. \A b \in BitsOf(st) : T[b] \in Hulls(c)[b]
  <2>1. \A b \in Range(st.bits) : \E k \in 1..N : st.bits[k] = b
    BY <1>2 DEF Range
  <2> HIDE DEF T
  <2> QED BY <1>2, <1>8, <1>15, <2>1
<1>17. T[st.bits[p + 1]] = v
  <2>1. p + 1 \in 1..N
    BY <1>1
  <2> HIDE DEF T
  <2> QED BY <1>10, <1>15, <2>1
<1> HIDE DEF T
<1> QED BY <1>14, <1>16, <1>17

\* Every step means what it says.
LEMMA EachMeans ==
    ASSUME NEW f, NEW c, Exact(f, c), NEW s \in LinearSteps
    PROVE  Means(f[s], s, c)
BY FaithfulSays DEF Means, Exact

(***************************************************************************)
(* When nothing waits, the relations narrow no condition any further.      *)
(***************************************************************************)
LEMMA NothingLeft ==
    ASSUME NEW f \in StepMatrices, AllSettled(f), NEW c \in [Bit -> Condition], Exact(f, c),
           ~ Contradictory(c), WorkWaits(f, {}, c)
    PROVE  /\ Closed(c)
           /\ \A s \in LinearSteps : Entered(f[s], s, Places(s), c)
<1>1. ASSUME NEW s \in LinearSteps
      PROVE  /\ Entered(f[s], s, Places(s), c) /\ RowsKnown(f[s], s, DOMAIN f[s].data, c)
  <2>1. s \in DOMAIN StepList
    BY DEF LinearSteps
  <2>2. Through(s, {}) = Places(s)
    BY DEF Through
  <2>3. LinearWaits(f[s], s, {}, c)
    BY <2>1 DEF WorkWaits
  <2> QED BY <2>2, <2>3 DEF LinearWaits
<1>2. ASSUME NEW s \in DOMAIN StepList, NEW b \in BitsOf(StepList[s]), NEW v \in c[b]
      PROVE  \E t \in Combinations(AsBitslice(s), AsSeen(s, c)) : v = t[b]
  <2> DEFINE st == StepList[s]
             e == AsBitslice(s)
  <2>2. e.bits = BitsOf(st) /\ e.relation = st.relation /\ BitsOf(st) \subseteq Bit
    BY BitsliceIs DEF AsBitslice
  <2>3. CASE s \in LinearSteps
    <3>1. PICK p \in Places(s) : st.bits[p + 1] = b
      <4> DEFINE N == Len(st.bits)
      <4>1. DOMAIN st.bits = 1..N /\ BitsOf(st) = Range(st.bits) /\ N \in Nat
        BY <2>3, StepFacts DEF BitsOf
      <4>2. PICK k \in 1..N : st.bits[k] = b
        BY <2>2, <4>1 DEF Range
      <4>3. Places(s) = 0..(N - 1)
        BY <2>3 DEF Places
      <4> HIDE DEF N, st
      <4>4. k - 1 \in Places(s) /\ (k - 1) + 1 = k
        BY <4>1, <4>3
      <4> QED BY <4>2, <4>4
    <3>2. v \in ConditionAt(s, p, c)
      BY <3>1 DEF ConditionAt
    <3>3. /\ Shaped(f[s], RowCount(s), ColumnCount(s)) /\ Settled(f[s]) /\ Means(f[s], s, c)
      BY <2>3, StepMatrixIs, EachMeans DEF AllSettled
    <3>4. \E t \in StepList[s].relation : /\ \A y \in BitsOf(StepList[s]) : t[y] \in Hulls(c)[y]
                                          /\ t[StepList[s].bits[p + 1]] = v
      BY <1>1, <2>3, <3>2, <3>3, NothingLeftAt
    <3>5. AsSeen(s, c) = Hulls(c)
      BY <2>3 DEF AsSeen
    <3> QED BY <2>2, <3>1, <3>4, <3>5 DEF Combinations
  <2>4. CASE s \notin LinearSteps
    <3> DEFINE A == {t \in st.relation : \A x \in st.bits : t[x] \in c[x]}
    <3>1. BitsliceWaits(s, {}, c) /\ st.bits = BitsOf(st)
      BY <2>4, BitsliceIs DEF WorkWaits
    <3>2. Computed(st, c) = c
      BY <3>1 DEF BitsliceWaits
    <3>3. b \in st.bits /\ b \in Bit
      BY <1>2, <2>2, <3>1
    <3>4. Computed(st, c)[b] = {t[b] : t \in A}
      BY <3>3 DEF Computed
    <3>5. Combinations(e, AsSeen(s, c)) = A
      BY <2>2, <2>4, <3>1 DEF Combinations, AsSeen
    <3> HIDE DEF A
    <3> QED BY <1>2, <3>2, <3>4, <3>5
  <2> QED BY <2>3, <2>4
<1>3. Closed(c)
  BY <1>2 DEF Closed
<1> QED BY <1>1, <1>3

(***************************************************************************)
(* A characteristic that Update has left has nothing to do, whatever was   *)
(* done to its matrices since.                                             *)
(***************************************************************************)
LEMMA UpdatedWaits ==
    ASSUME NEW f \in StepMatrices, NEW c \in [Bit -> Condition], Exact(f, c),
           NEW l, Updated(f, l, c)
    PROVE  WorkWaits(f, l, c) /\ l = {} /\ ~ Contradictory(c)
<1>1. l = {} /\ Closed(c) /\ ~ Contradictory(c)
  BY DEF Updated
<1>2. Below(c, c)
  BY DEF Below
<1>3. ASSUME NEW s \in LinearSteps PROVE LinearWaits(f[s], s, l, c)
  <2>1. Through(s, l) = Places(s)
    BY <1>1 DEF Through
  <2>2. Entered(f[s], s, Places(s), c)
    BY DEF Updated
  <2>3. Shaped(f[s], RowCount(s), ColumnCount(s)) /\ Means(f[s], s, c)
    BY StepMatrixIs, EachMeans
  <2>4. RowsKnown(f[s], s, DOMAIN f[s].data, c)
    BY <1>1, <1>2, <2>3, AllKnown
  <2> QED BY <2>1, <2>2, <2>4 DEF LinearWaits
<1>4. ASSUME NEW s \in DOMAIN StepList \ LinearSteps PROVE BitsliceWaits(s, l, c)
  <2> DEFINE st == StepList[s]
             e == AsBitslice(s)
             A == {t \in st.relation : \A x \in st.bits : t[x] \in c[x]}
  <2>1. e.bits = st.bits /\ e.relation = st.relation /\ BitsOf(st) = st.bits
    BY BitsliceIs DEF AsBitslice
  <2>2. \A b \in st.bits : c[b] = {t[b] : t \in Combinations(e, c)}
    <3>1. \A b \in st.bits : c[b] \subseteq {t[b] : t \in Combinations(e, c)}
      BY <1>1, <2>1 DEF Closed, AsSeen
    <3>2. \A b \in st.bits : \A t \in Combinations(e, c) : t[b] \in c[b]
      BY <2>1 DEF Combinations
    <3> QED BY <3>1, <3>2
  <2>3. Combinations(e, c) = A
    BY <2>1 DEF Combinations
  <2>4. Computed(st, c) = [b \in Bit |-> IF b \in st.bits THEN {t[b] : t \in A} ELSE c[b]]
    BY DEF Computed
  <2> HIDE DEF A, st, e
  <2>5. Computed(st, c) = c
    BY <2>2, <2>3, <2>4
  <2> QED BY <2>5 DEF BitsliceWaits, st
<1> QED BY <1>1, <1>3, <1>4 DEF WorkWaits

-----------------------------------------------------------------------------
(* The closure in the steps of an Update *)

\* What Update has left does not depend on logs and marks.
LEMMA UpdatedSame ==
    ASSUME NEW f, NEW g, \A s \in LinearSteps : Same(g[s], f[s]), NEW l, NEW c, Updated(f, l, c)
    PROVE  Updated(g, l, c)
<1>1. \A s \in LinearSteps : Columns(g[s]) = Columns(f[s])
  BY SameColumns
<1>2. ASSUME NEW s \in LinearSteps PROVE Entered(g[s], s, Places(s), c)
  <2>1. Entered(f[s], s, Places(s), c)
    BY DEF Updated
  <2> QED BY <1>1, <2>1 DEF Entered
<1> QED BY <1>2 DEF Updated

\* A characteristic has conditions.
LEMMA CharacteristicIs ==
    ASSUME NEW c \in Characteristic, NEW d
    PROVE  /\ c \in [Bit -> Condition] /\ Below(c, Start)
           /\ (d \in [Bit -> Condition] /\ Below(d, c)) => d \in Characteristic
<1>1. c \in [Bit -> Condition] /\ \A b \in Bit : c[b] \subseteq Start[b]
  BY CharacteristicType
<1>2. ASSUME d \in [Bit -> Condition], Below(d, c) PROVE d \in Characteristic
  <2>1. \A b \in Bit : d[b] \subseteq Start[b]
    BY <1>1, <1>2 DEF Below
  <2> QED BY <1>2, <2>1, CharacteristicType
<1> QED BY <1>1, <1>2 DEF Below

\* While an Update takes away no more than the closure does, and says what it has still to do.
LEMMA UpdateGoesOn ==
    ASSUME PropInv, ClosureInv, pc \notin {"ready", "lost"},
           pc' \in {"update", "equations", "gauss", "held", "refused"},
           at' = at, call' = call, guess' = guess, results' = results,
           NEW d \in Characteristic, Below(d, cond[who]), cond' = [cond EXCEPT ![who] = d],
           NEW l, list' = [list EXCEPT ![who] = l],
           NEW g, heap' = [heap EXCEPT ![at[who]] = g],
           Leads(heap[at[who]], g, cond[who], call.log),
           pc' # "refused" => WorkWaits(g, l, d) /\ ~ Contradictory(d),
           pc' = "held" => l = {}, EquationsEntered',
           Below(Reached(call.cond), d),
           pc' = "refused" => Contradictory(Reached(call.cond))
    PROVE  ClosureInv'
<1> DEFINE f == heap[at[who]]
           o == Untouched
<1>1. /\ at[who] \in Cell /\ at["kept"] \in Cell /\ at[who] # at["kept"]
      /\ heap \in [Cell -> StepMatrices] /\ f \in StepMatrices
      /\ who \in {"char", "tmp"} /\ who \in Owner /\ o \in {"char", "tmp"} /\ o # who
      /\ list \in [Owner -> SUBSET Entries] /\ cond \in [Owner -> [Bit -> Condition]]
  BY WhoIs DEF PropInv, Typed
<1>2. /\ who' = who /\ (Trying' <=> Trying) /\ Untouched' = o
      /\ {"char", "tmp", "kept"} = Owner
  BY DEF who, Trying, Untouched, Owner
<1>3. heap'[at'[who']] = g /\ heap'[at'["kept"]] = heap[at["kept"]]
  BY <1>1, <1>2
<1>4. /\ cond'[who'] = d /\ list'[who'] = l
      /\ \A x \in Owner : x # who => cond'[x] = cond[x] /\ list'[x] = list[x]
  BY <1>1, <1>2
<1>5. cond' \in [Owner -> Characteristic] /\ call'.cond \in Characteristic
  BY <1>1 DEF ClosureInv
<1>6. call'.name # "all" => Updated(heap'[at'["kept"]], list'["kept"], cond'["kept"])
  BY <1>1, <1>2, <1>3, <1>4 DEF ClosureInv
<1>7. pc' # "ready"
  OBVIOUS
<1>8. Trying' => Updated(UndoAll(heap'[at'[who']]), list'[Untouched'], cond'[Untouched'])
  <2>1. SUFFICES ASSUME Trying PROVE Updated(UndoAll(g), list[o], cond[o])
    BY <1>1, <1>2, <1>3, <1>4
  <2>2. call.log /\ AllUndoable(f)
    BY <2>1 DEF PropInv, Called, MatricesHold, UndoFaithful
  <2>3. \A s \in LinearSteps : Same(UndoAll(g)[s], UndoAll(f)[s])
    BY <2>2 DEF Leads
  <2>4. Updated(UndoAll(f), list[o], cond[o])
    BY <2>1 DEF ClosureInv
  <2> HIDE DEF f, o
  <2> QED BY <2>3, <2>4, UpdatedSame
<1>9. ClosureStays'
  <2>1. Below(cond[who], call.cond)
    BY DEF ClosureInv, ClosureStays
  <2>2. Below(d, call.cond)
    BY <2>1 DEF Below
  <2> QED BY <1>4, <2>2 DEF ClosureStays
<1>10. TrialsMean'
  <2>1. call.name \in {"try one", "try two"} => who = "tmp"
    BY DEF PropInv, Called
  <2>2. call.name \in {"try one", "try two"} => cond'["char"] = cond["char"]
    BY <1>2, <1>4, <2>1
  <2>3. call.name \in {"try one", "try two"} => \A i : Trial("char", i)' = Trial("char", i)
    BY <2>2 DEF Trial
  <2>4. TrialsMean
    BY DEF ClosureInv
  <2> QED BY <2>2, <2>4 DEF TrialsMean, Trial
<1>11. /\ (Running \/ pc = "held")' =>
             WorkWaits(heap'[at'[who']], list'[who'], cond'[who']) /\ ~ Contradictory(cond'[who'])
       /\ pc' = "held" => list'[who'] = {}
  BY <1>3, <1>4 DEF Running
<1> HIDE DEF f, o
<1> QED BY <1>5, <1>6, <1>7, <1>8, <1>9, <1>10, <1>11 DEF ClosureInv

\* The closure that the Update which runs is to reach.
LEMMA ClosureIs ==
    ASSUME PropInv, ClosureInv
    PROVE  LET u == Reached(call.cond)
           IN  /\ u \in ClosedOnes /\ u \in [Bit -> Condition] /\ Closed(u)
               /\ cond[who] \in Characteristic
               /\ pc \notin {"ready", "lost"} => Below(u, cond[who])
<1> DEFINE u == Reached(call.cond)
<1>1. call.cond \in Characteristic /\ cond[who] \in Characteristic
  BY WhoIs DEF ClosureInv
<1>2. pc \notin {"ready", "lost"} => Below(u, cond[who])
  BY DEF ClosureInv, ClosureStays
<1>3. u \in ClosedOnes
  BY <1>1, ReachedIsClosed
<1>4. u \in Characteristic /\ Closed(u)
  BY <1>3 DEF ClosedOnes
<1> HIDE DEF u
<1>5. u \in [Bit -> Condition]
  BY <1>4, CharacteristicIs
<1> QED BY <1>1, <1>2, <1>3, <1>4, <1>5 DEF u

\* The worklist is empty.
LEMMA UpdateDoneCloses == ASSUME PropInv, ClosureInv, UpdateDone PROVE ClosureInv'
<1> DEFINE d == cond[who]
           l == list[who]
           g == heap[at[who]]
<1>1. l \in SUBSET Entries /\ g \in StepMatrices /\ who \in Owner /\ at[who] \in Cell
  BY WhoIs
<1>2. d \in Characteristic /\ Below(Reached(call.cond), d)
  BY ClosureIs DEF UpdateDone
<1>3. /\ cond' = [cond EXCEPT ![who] = d] /\ list' = [list EXCEPT ![who] = l]
      /\ heap' = [heap EXCEPT ![at[who]] = g]
  BY <1>1 DEF UpdateDone, PropInv, Typed
<1>4. Below(d, cond[who])
  BY DEF Below
<1>5. /\ pc \notin {"ready", "lost"} /\ pc' = "held" /\ l = {}
      /\ at' = at /\ call' = call /\ guess' = guess /\ results' = results
  BY DEF UpdateDone
<1>6. Leads(heap[at[who]], g, cond[who], call.log)
  BY <1>1 DEF Leads, Same
<1>7. WorkWaits(g, l, d) /\ ~ Contradictory(d)
  BY DEF ClosureInv, Running, UpdateDone
<1>8. EquationsEntered'
  BY <1>5 DEF EquationsEntered
<1> HIDE DEF d, l, g
<1> QED BY <1>2, <1>3, <1>4, <1>5, <1>6, <1>7, <1>8, UpdateGoesOn

\* A bitslice leaves nothing to compute again; the steps of the bits it narrows wait.
LEMMA UpdateBitsliceCloses == ASSUME PropInv, ClosureInv, UpdateBitslice PROVE ClosureInv'
<1> DEFINE e == Entry[1]
           a == cond[who]
           c == Computed(StepList[e], a)
           l == (list[who] \cup Touched(a, c)) \ {Entry}
           g == heap[at[who]]
           u == Reached(call.cond)
<1>1. a \in [Bit -> Condition] /\ list[who] \in SUBSET Entries /\ g \in StepMatrices
      /\ who \in Owner /\ at[who] \in Cell
      /\ cond \in [Owner -> [Bit -> Condition]] /\ heap \in [Cell -> StepMatrices]
  BY WhoIs DEF PropInv, Typed
<1>2. e \in DOMAIN StepList \ LinearSteps
  BY EntryIs DEF UpdateBitslice
<1>3. c \in [Bit -> Condition] /\ Below(c, a)
  BY <1>1, <1>2, ComputedNarrows
<1>4. cond' = [cond EXCEPT ![who] = c]
  BY DEF UpdateBitslice
<1>5. cond'[who] = c
  BY <1>1, <1>4
<1>6. list' = [list EXCEPT ![who] = l] /\ heap' = [heap EXCEPT ![at[who]] = g]
  BY <1>1, <1>5 DEF UpdateBitslice
<1>7. /\ pc = "update" /\ pc' = IF Contradictory(c) THEN "refused" ELSE "update"
      /\ at' = at /\ call' = call /\ guess' = guess /\ results' = results
  BY <1>5 DEF UpdateBitslice, Contradictory
<1>8. Leads(heap[at[who]], g, cond[who], call.log)
  BY <1>1 DEF Leads, Same
<1>9. /\ u \in [Bit -> Condition] /\ Closed(u) /\ Below(u, a) /\ a \in Characteristic
  BY <1>7, ClosureIs
<1>10. c \in Characteristic
  <2> HIDE DEF a, c
  <2> QED BY <1>3, <1>9, CharacteristicIs
<1>11. Below(u, c)
  <2> HIDE DEF u, a
  <2> QED BY <1>1, <1>2, <1>9, ClosureComputed
<1>12. Contradictory(c) => Contradictory(u)
  <2> HIDE DEF c, u
  <2> QED BY <1>11, ContradictionBelow
<1>13. WorkWaits(g, list[who], a)
  BY <1>7 DEF ClosureInv, Running
<1>14. WorkWaits(g, l, c)
  <2>1. Computed(StepList[e], c) = c
    <3>1. StepList[e].bits \subseteq Bit
      BY <1>2, BitsliceIs
    <3> HIDE DEF a
    <3> QED BY <1>1, <3>1, ComputedAgain
  <2>2. ASSUME NEW s \in DOMAIN StepList, s # e PROVE Covers(l, list[who], a, c, s)
    <3>1. \A p : <<s, p>> # Entry
      BY <2>2
    <3> QED BY <3>1 DEF Covers
  <2> HIDE DEF a, c, l, g
  <2>3. ASSUME NEW s \in DOMAIN StepList, s # e
        PROVE  IF s \in LinearSteps THEN LinearWaits(g[s], s, l, c) ELSE BitsliceWaits(s, l, c)
    BY <1>3, <1>13, <2>2, <2>3, WaitsStay
  <2> HIDE DEF e
  <2> QED BY <1>2, <2>1, <2>3 DEF WorkWaits, BitsliceWaits
<1>15. EquationsEntered'
  BY <1>7 DEF EquationsEntered
<1>16. pc \notin {"ready", "lost"} /\ pc' \in {"update", "equations", "gauss", "held", "refused"}
       /\ pc' # "held"
  BY <1>7
<1>17. /\ pc' # "refused" => WorkWaits(g, l, c) /\ ~ Contradictory(c)
       /\ pc' = "refused" => Contradictory(u)
  BY <1>7, <1>12, <1>14
<1> HIDE DEF a, c, l, g, u
<1> QED BY <1>3, <1>4, <1>6, <1>7, <1>8, <1>10, <1>11, <1>15, <1>16, <1>17, UpdateGoesOn DEF a, u

\* The equations of the first entry are all to be added.
LEMMA UpdateLinearCloses == ASSUME PropInv, ClosureInv, UpdateLinear PROVE ClosureInv'
<1> DEFINE d == cond[who]
           l == list[who]
           g == heap[at[who]]
           e == Entry[1]
           p == Entry[2]
           q == EquationsAt(e, p, d)
<1>1. l \in SUBSET Entries /\ g \in StepMatrices /\ who \in Owner /\ at[who] \in Cell
      /\ d \in [Bit -> Condition]
  BY WhoIs
<1>2. d \in Characteristic /\ Below(Reached(call.cond), d)
  BY ClosureIs DEF UpdateLinear
<1>3. /\ cond' = [cond EXCEPT ![who] = d] /\ list' = [list EXCEPT ![who] = l]
      /\ heap' = [heap EXCEPT ![at[who]] = g]
  BY <1>1 DEF UpdateLinear, PropInv, Typed
<1>4. Below(d, cond[who])
  BY DEF Below
<1>5. /\ pc = "update" /\ pc' = "equations" /\ cond' = cond /\ list' = list /\ heap' = heap
      /\ at' = at /\ call' = call /\ guess' = guess /\ results' = results
  BY DEF UpdateLinear
<1>6. Leads(heap[at[who]], g, cond[who], call.log)
  BY <1>1 DEF Leads, Same
<1>7. WorkWaits(g, l, d) /\ ~ Contradictory(d)
  BY <1>5 DEF ClosureInv, Running
<1>8. e \in LinearSteps /\ p \in 0..(Len(StepList[e].bits) - 1)
  BY EntryIs DEF UpdateLinear
<1>9. equations' = q
  <2>1. RHS(Matrix) = ColumnCount(e)
    <3>1. RHS(g[e]) = ColumnCount(e)
      BY <1>1, <1>8, StepMatrixIs
    <3> QED BY <3>1 DEF Matrix
  <2>2. equations' = LinearConditions(d[StepList[e].bits[p + 1]], p, RHS(Matrix))
    BY DEF UpdateLinear
  <2> QED BY <2>1, <2>2 DEF EquationsAt, ConditionAt
<1>10. Len(q) \in Nat /\ q \in Seq(SUBSET Nat)
  <2> DEFINE N == Len(StepList[e].bits)
             bc == ConditionAt(e, p, d)
             r == LinearConditions(bc, p, 2 * N)
  <2>1. N \in Nat /\ ColumnCount(e) = 2 * N /\ bc \in Condition
    <3>1. /\ N \in Nat /\ ColumnCount(e) = 2 * N /\ Places(e) = 0..(N - 1)
          /\ \A k \in Places(e) : StepList[e].bits[k + 1] \in Bit
      BY <1>8, PlacesAre
    <3>2. StepList[e].bits[p + 1] \in Bit
      BY <1>8, <3>1
    <3> QED BY <1>1, <3>1, <3>2 DEF ConditionAt
  <2>2. q = r
    BY <2>1 DEF EquationsAt
  <2>3. p \in 0..(N - 1)
    BY <1>8
  <2> HIDE DEF bc, N, p
  <2>4. r \in Seq(SUBSET (0..(2 * N)))
    BY <2>1, <2>3, LinearConditionsHold
  <2> HIDE DEF r, q
  <2>5. Len(q) \in Nat /\ \A k \in 1..Len(q) : q[k] \in SUBSET Nat
    BY <2>1, <2>2, <2>4
  <2>6. q = [k \in 1..Len(q) |-> q[k]]
    BY <2>2, <2>4
  <2> QED BY <2>5, <2>6
<1>11. EquationsEntered'
  <2>1. who' = who /\ Entry' = Entry
    BY <1>5 DEF who, Entry
  <2>2. q = EquationsAt(Entry'[1], Entry'[2], cond'[who'])
    BY <1>5, <2>1
  <2> HIDE DEF q
  <2>3. SubSeq(q, 0 + 1, Len(q)) = q
    BY <1>10
  <2>4. \A j \in 1..0 : Min(q[j]) \notin Columns(Matrix')
    OBVIOUS
  <2>5. 0 \in 0..Len(q)
    BY <1>10
  <2> QED BY <1>9, <2>2, <2>3, <2>4, <2>5 DEF EquationsEntered
<1>12. pc \notin {"ready", "lost"} /\ pc' \in {"update", "equations", "gauss", "held", "refused"}
       /\ pc' # "held" /\ pc' # "refused"
  BY <1>5
<1> HIDE DEF d, l, g, q
<1> QED BY <1>2, <1>3, <1>4, <1>5, <1>6, <1>7, <1>11, <1>12, UpdateGoesOn DEF d

\* The position that is worked on.
LEMMA PositionOfEntry ==
    ASSUME PropInv, pc \in {"equations", "gauss"}
    PROVE  /\ Entry[2] \in Places(Entry[1]) /\ Entry[1] \in LinearSteps
           /\ Entry \in list[who] /\ <<Entry[1], Entry[2]>> = Entry
           /\ Entry[2] \in Nat /\ ColumnCount(Entry[1]) \in Nat
           /\ RowCount(Entry[1]) \in Nat /\ RowCount(Entry[1]) <= ColumnCount(Entry[1])
<1>1. Entry[1] \in LinearSteps /\ list[who] # {}
  BY DEF PropInv, EquationsHold
<1>2. Entry \in list[who] /\ Entry \in Entries /\ Entry[2] \in Places(Entry[1])
  BY <1>1, EntryIs DEF Places
<1>3. \A x \in Entries : <<x[1], x[2]>> = x
  <2>1. TAKE x \in Entries
  <2>2. PICK s \in DOMAIN StepList : x \in {s} \X Places(s)
    BY DEF Entries
  <2> QED BY <2>2
<1>4. /\ Entry[2] \in Nat /\ ColumnCount(Entry[1]) \in Nat
      /\ RowCount(Entry[1]) \in Nat /\ RowCount(Entry[1]) <= ColumnCount(Entry[1])
  <2> DEFINE e == Entry[1]
             p == Entry[2]
             N == Len(StepList[e].bits)
  <2>1. N \in Nat /\ ColumnCount(e) = 2 * N /\ Places(e) = 0..(N - 1)
        /\ RowCount(e) \in Nat /\ RowCount(e) <= ColumnCount(e)
    BY <1>1, PlacesAre
  <2>2. p \in Places(e)
    BY <1>2
  <2> HIDE DEF e, p, N
  <2>3. p \in Nat /\ ColumnCount(e) \in Nat
    BY <2>1, <2>2
  <2> QED BY <2>1, <2>3 DEF e, p
<1> QED BY <1>1, <1>2, <1>3, <1>4

\* The matrix is rewritten; of the entry's own position only the equations are new.
LEMMA MatrixStepCloses ==
    ASSUME PropInv, ClosureInv, pc \in {"equations", "gauss"}, pc' \in {"equations", "gauss"},
           cond' = cond, list' = list, at' = at, call' = call, guess' = guess, results' = results,
           NEW k, ChangeMatrix(k), GoesOn(k), NEW E, NEW X,
           E \subseteq {2 * Entry[2], 2 * Entry[2] + 1, ColumnCount(Entry[1])},
           X \subseteq Columns(Matrix) \cup E,
           Rewritten(k, Matrix, X, RowCount(Entry[1]), ColumnCount(Entry[1])),
           EquationsEntered'
    PROVE  ClosureInv'
<1> DEFINE e == Entry[1]
           p == Entry[2]
           f == heap[at[who]]
           g == [f EXCEPT ![e] = k]
           c == cond[who]
           l == list[who]
<1>1. e \in LinearSteps /\ f \in StepMatrices /\ Matrix = f[e]
      /\ Shaped(f[e], RowCount(e), ColumnCount(e))
  BY WhoIs, MatrixIs DEF PropInv, EquationsHold, Matrix
<1>2. heap' = [heap EXCEPT ![at[who]] = g]
  BY DEF ChangeMatrix
<1>3. c \in [Bit -> Condition] /\ who \in Owner /\ c \in Characteristic
      /\ Below(Reached(call.cond), c)
  BY WhoIs, ClosureIs
<1>4. Follows(k, f[e], Allowed(e, c), call.log, RowCount(e), ColumnCount(e))
  BY <1>1 DEF GoesOn
<1>5. WorkWaits(f, l, c) /\ ~ Contradictory(c)
  BY DEF ClosureInv, Running
<1>6. p \in Places(e) /\ <<e, p>> \in l
  BY PositionOfEntry
<1>7. cond' = [cond EXCEPT ![who] = c] /\ list' = [list EXCEPT ![who] = l]
  BY <1>3 DEF PropInv, Typed
<1>8. /\ E \subseteq {2 * p, 2 * p + 1, ColumnCount(e)} /\ X \subseteq Columns(f[e]) \cup E
      /\ Rewritten(k, f[e], X, RowCount(e), ColumnCount(e))
  BY <1>1
<1>9. Below(c, cond[who])
  BY DEF Below
<1> HIDE DEF e, f, p, c, l
<1>10. Leads(f, g, c, call.log)
  BY <1>1, <1>4, OneFollows
<1>11. \A s \in LinearSteps : g[s] = IF s = e THEN k ELSE f[s]
  BY <1>1 DEF StepMatrices
<1> HIDE DEF g
<1>12. LinearWaits(f[e], e, l, c)
  BY <1>1, <1>5 DEF WorkWaits, LinearSteps
<1>13. LinearWaits(k, e, l, c)
  BY <1>1, <1>3, <1>6, <1>8, <1>12, RewrittenWaits
<1>14. WorkWaits(g, l, c)
  BY <1>5, <1>11, <1>13 DEF WorkWaits
<1>15. Leads(heap[at[who]], g, cond[who], call.log)
  BY <1>10 DEF f, c
<1>16. pc \notin {"ready", "lost"} /\ pc' \in {"update", "equations", "gauss", "held", "refused"}
       /\ pc' # "held" /\ pc' # "refused"
  OBVIOUS
<1> QED BY <1>2, <1>3, <1>5, <1>7, <1>9, <1>14, <1>15, <1>16, UpdateGoesOn

\* An equation is added: its first column occurs no more.
LEMMA AddNextCloses == ASSUME PropInv, ReducedInv, ClosureInv, AddNext PROVE ClosureInv'
<1> DEFINE e == Entry[1]
           n == RowCount(e)
           c == ColumnCount(e)
           E == Head(equations)
           k == AddEquation(Matrix, E, call.log)
           X == (Columns(Matrix) \cup E) \ {Min(E)}
           q == EquationsAt(e, Entry[2], cond[who])
<1>1. /\ pc = "equations" /\ ChangeMatrix(k) /\ at' = at /\ call' = call /\ list' = list
      /\ cond' = cond /\ guess' = guess /\ results' = results
      /\ pc' = IF heap'[at[who]][e].updateRows = {} THEN "equations" ELSE "gauss"
      /\ equations # <<>> /\ equations' = Tail(equations)
  BY DEF AddNext
<1>2. /\ Shaped(Matrix, n, c) /\ n \in Nat /\ c \in Nat /\ n <= c /\ Settled(Matrix)
      /\ Entry[2] \in Nat /\ 2 * Entry[2] + 1 < c /\ e \in LinearSteps
  BY <1>1, MatrixIs, MatrixReduces
<1>3. E \in (SUBSET (0..c)) \ {{}} /\ OneBit(E, Entry[2], c) /\ GoesOn(k)
  BY NextEquation
<1>4. heap'[at[who]][e] = k
  BY <1>1, <1>2, WhoIs DEF ChangeMatrix, PropInv, Typed, StepMatrices
<1>5. who' = who /\ Entry' = Entry
  BY <1>1 DEF who, Entry
<1>6. Rewritten(k, Matrix, X, n, c)
  <2> DEFINE m == Matrix
             log == call.log
  <2> HIDE DEF n, c, E, m, log
  <2> QED BY <1>2, <1>3, AddEquationRewrites DEF m, log
<1>7. Columns(k) \subseteq X
  BY <1>6 DEF Rewritten
<1>8. E \subseteq {2 * Entry[2], 2 * Entry[2] + 1, c} /\ X \subseteq Columns(Matrix) \cup E
  BY <1>3 DEF OneBit
<1>9. Matrix' = k
  BY <1>1, <1>4, <1>5 DEF Matrix, who, Entry
<1>10. EquationsEntered'
  <2>1. PICK j \in 0..Len(q) : /\ equations = SubSeq(q, j + 1, Len(q))
                               /\ \A i \in 1..j : Min(q[i]) \notin Columns(Matrix)
    BY <1>1 DEF EquationsEntered, ClosureInv
  <2>2. q = EquationsAt(Entry'[1], Entry'[2], cond'[who'])
    BY <1>1, <1>5
  <2>3. /\ q \in Seq(SUBSET (0..c)) /\ Len(q) <= 2
        /\ \A h, i \in 1..Len(q) : h < i => Min(q[h]) \notin q[i]
    <3> DEFINE N == Len(StepList[e].bits)
               bc == ConditionAt(e, Entry[2], cond[who])
               r == LinearConditions(bc, Entry[2], 2 * N)
    <3>1. N \in Nat /\ ColumnCount(e) = 2 * N /\ bc \in Condition
      <4>1. /\ N \in Nat /\ ColumnCount(e) = 2 * N
            /\ \A i \in Places(e) : StepList[e].bits[i + 1] \in Bit
        BY <1>2, PlacesAre
      <4>2. StepList[e].bits[Entry[2] + 1] \in Bit
        BY <1>1, <4>1, PositionOfEntry
      <4> QED BY <4>1, <4>2, WhoIs DEF ConditionAt
    <3>2. q = r
      BY <3>1 DEF EquationsAt
    <3>3. Entry[2] \in 0..(N - 1)
      <4>1. Entry[2] \in Places(e) /\ Places(e) = 0..(N - 1)
        BY <1>1, <1>2, PositionOfEntry, PlacesAre
      <4> QED BY <4>1
    <3> HIDE DEF bc, N
    <3>4. r \in Seq(SUBSET (0..(2 * N))) /\ Len(r) <= 2
      BY <3>1, <3>3, LinearConditionsHold
    <3>5. FirstOf(r, 2 * Entry[2], 2 * Entry[2] + 1)
      BY <3>1, <3>3, FirstColumns
    <3> HIDE DEF r, q
    <3>6. \A h, i \in 1..Len(r) : h < i => Min(r[h]) \notin r[i]
      BY <3>5 DEF FirstOf
    <3> QED BY <3>1, <3>2, <3>4, <3>6
  <2> HIDE DEF q, E, X, k, e, c, n
  <2>4. Len(q) \in Nat /\ j \in Nat /\ j <= Len(q)
    BY <2>3
  <2>5. j < Len(q)
    <3>1. CASE j = Len(q)
      <4>1. SubSeq(q, j + 1, Len(q)) = <<>>
        BY <2>3, <2>4, <3>1
      <4> QED BY <1>1, <2>1, <4>1
    <3> QED BY <2>4, <3>1
  <2>6. Len(equations) = Len(q) - j /\ \A i \in 1..(Len(q) - j) : equations[i] = q[j + i]
    BY <2>1, <2>3, <2>4, <2>5
  <2>7. E = q[j + 1]
    <3>1. Head(equations) = equations[1]
      BY <1>1 DEF PropInv, Typed
    <3>2. 1 \in 1..(Len(q) - j)
      BY <2>4, <2>5
    <3> QED BY <2>6, <3>1, <3>2 DEF E
  <2>8. Tail(equations) = SubSeq(q, j + 2, Len(q))
    <3>1. Len(q) - j >= 1
      BY <2>4, <2>5
    <3>2. equations = SubSeq(q, j + 1, Len(q))
      BY <2>1
    <3> QED BY <2>3, <2>4, <2>5, <2>6, <3>1, <3>2
  <2>9. ASSUME NEW i \in 1..(j + 1) PROVE Min(q[i]) \notin Columns(k)
    <3>1. Min(E) \notin X
      BY DEF X
    <3>2. CASE i = j + 1
      BY <1>7, <2>7, <3>1, <3>2
    <3>3. CASE i # j + 1
      <4>1. i \in 1..j /\ Min(q[i]) \notin Columns(Matrix)
        BY <2>1, <2>4, <2>9, <3>3
      <4>2. i \in 1..Len(q) /\ j + 1 \in 1..Len(q) /\ i < j + 1
        BY <2>4, <2>5, <4>1
      <4>3. Min(q[i]) \notin q[j + 1]
        BY <2>3, <4>2
      <4>4. Min(q[i]) \notin E
        BY <2>7, <4>3
      <4> QED BY <1>7, <4>1, <4>4 DEF X
    <3> QED BY <3>2, <3>3
  <2>10. j + 1 \in 0..Len(q) /\ (j + 1) + 1 = j + 2
    BY <2>4, <2>5
  <2> QED BY <1>1, <1>9, <2>2, <2>8, <2>9, <2>10 DEF EquationsEntered
<1>11. pc \in {"equations", "gauss"} /\ pc' \in {"equations", "gauss"}
  BY <1>1
<1> HIDE DEF k, X, E
<1> QED BY <1>1, <1>3, <1>6, <1>8, <1>10, <1>11, MatrixStepCloses

\* What has been added stays added.
LEMMA EquationsGoOn ==
    ASSUME ClosureInv, pc \in {"equations", "gauss"}, pc' \in {"equations", "gauss"},
           UNCHANGED <<cond, list, call, equations>>, Columns(Matrix') \subseteq Columns(Matrix)
    PROVE  EquationsEntered'
<1> DEFINE q == EquationsAt(Entry[1], Entry[2], cond[who])
<1>1. who' = who /\ Entry' = Entry
  BY DEF who, Entry
<1>2. PICK j \in 0..Len(q) : /\ equations = SubSeq(q, j + 1, Len(q))
                             /\ \A i \in 1..j : Min(q[i]) \notin Columns(Matrix)
  BY DEF EquationsEntered, ClosureInv
<1>3. q = EquationsAt(Entry'[1], Entry'[2], cond'[who'])
  BY <1>1
<1> HIDE DEF q
<1>4. \A i \in 1..j : Min(q[i]) \notin Columns(Matrix')
  BY <1>2
<1> QED BY <1>2, <1>3, <1>4 DEF EquationsEntered

\* The matrix after a step of it.
LEMMA NewMatrix ==
    ASSUME PropInv, pc \in {"equations", "gauss"}, at' = at, call' = call, list' = list,
           NEW k, ChangeMatrix(k)
    PROVE  Matrix' = k
<1>1. who' = who /\ Entry' = Entry
  BY DEF who, Entry
<1>2. /\ at[who] \in Cell /\ heap \in [Cell -> StepMatrices] /\ Entry[1] \in LinearSteps
  BY WhoIs, MatrixIs DEF PropInv, Typed
<1>3. heap'[at[who]][Entry[1]] = k
  BY <1>2 DEF ChangeMatrix, StepMatrices
<1> QED BY <1>1, <1>3 DEF Matrix, who, Entry

\* A turn of EpsilonGauss brings in no column.
LEMMA ReduceCloses == ASSUME PropInv, ReducedInv, ClosureInv, Reduce PROVE ClosureInv'
<1> DEFINE e == Entry[1]
           m == Matrix
           n == RowCount(e)
           c == ColumnCount(e)
           T == Allowed(e, cond[who])
           log == call.log
           k == EpsilonGauss(m, log)
<1>1. /\ pc = "gauss" /\ ChangeMatrix(k) /\ at' = at /\ call' = call /\ list' = list /\ pc' = pc
      /\ cond' = cond /\ guess' = guess /\ results' = results /\ equations' = equations
      /\ m.updateRows # {}
  BY DEF Reduce
<1>2. Shaped(m, n, c) /\ n \in Nat /\ c \in Nat
  BY <1>1, MatrixIs
<1>3. Follows(k, m, T, log, n, c) /\ Rewritten(k, m, Columns(m), n, c)
  <2> HIDE DEF e, m, n, c, T, log
  <2> QED BY <1>1, <1>2, EpsilonGaussFollows, EpsilonGaussRewrites
<1>4. GoesOn(k)
  BY <1>3 DEF GoesOn
<1> HIDE DEF k
<1>5. Columns(Matrix') \subseteq Columns(Matrix)
  BY <1>1, <1>3, NewMatrix DEF Rewritten
<1>6. pc \in {"equations", "gauss"} /\ pc' \in {"equations", "gauss"}
  BY <1>1
<1>7. EquationsEntered'
  BY <1>1, <1>5, <1>6, EquationsGoOn
<1>8. {} \subseteq {2 * Entry[2], 2 * Entry[2] + 1, ColumnCount(Entry[1])}
      /\ Columns(m) \subseteq Columns(Matrix) \cup {}
  OBVIOUS
<1> QED BY <1>1, <1>3, <1>4, <1>6, <1>7, <1>8, MatrixStepCloses

\* Nor does the sorting of the rows.
LEMMA SortCloses == ASSUME PropInv, ReducedInv, ClosureInv, Sort PROVE ClosureInv'
<1> DEFINE e == Entry[1]
           m == Matrix
           n == RowCount(e)
           c == ColumnCount(e)
           T == Allowed(e, cond[who])
           log == call.log
           k == SortByPivot(m, log)
<1>1. /\ pc = "gauss" /\ ChangeMatrix(k) /\ at' = at /\ call' = call /\ list' = list
      /\ pc' = "equations"
      /\ cond' = cond /\ guess' = guess /\ results' = results /\ equations' = equations
  BY DEF Sort
<1>2. Shaped(m, n, c) /\ n \in Nat /\ c \in Nat
  BY <1>1, MatrixIs
<1>3. Follows(k, m, T, log, n, c) /\ Rewritten(k, m, Columns(m), n, c)
  <2> HIDE DEF e, m, n, c, T, log
  <2> QED BY <1>1, <1>2, SortFollows, SortRewrites
<1>4. GoesOn(k)
  BY <1>3 DEF GoesOn
<1> HIDE DEF k
<1>5. Columns(Matrix') \subseteq Columns(Matrix)
  BY <1>1, <1>3, NewMatrix DEF Rewritten
<1>6. pc \in {"equations", "gauss"} /\ pc' \in {"equations", "gauss"}
  BY <1>1
<1>7. EquationsEntered'
  BY <1>1, <1>5, <1>6, EquationsGoOn
<1>8. {} \subseteq {2 * Entry[2], 2 * Entry[2] + 1, ColumnCount(Entry[1])}
      /\ Columns(m) \subseteq Columns(Matrix) \cup {}
  OBVIOUS
<1> QED BY <1>1, <1>3, <1>4, <1>6, <1>7, <1>8, MatrixStepCloses

\* A matrix that refuses an equation: the closure has a bit without a value.
LEMMA RefuseEquationCloses ==
    ASSUME PropInv, ReducedInv, ClosureInv, RefuseEquation PROVE ClosureInv'
<1> DEFINE e == Entry[1]
           m == Matrix
           n == RowCount(e)
           c == ColumnCount(e)
           d == cond[who]
           T == Allowed(e, d)
           log == call.log
           k == EpsilonGauss(m, log)
           f == heap[at[who]]
           g == [f EXCEPT ![e] = k]
           l == list[who] \ {Entry}
           u == Reached(call.cond)
<1>1. /\ pc = "gauss" /\ ChangeMatrix(k) /\ at' = at /\ call' = call /\ pc' = "refused"
      /\ cond' = cond /\ guess' = guess /\ results' = results
      /\ list' = [list EXCEPT ![who] = l]
      /\ m.updateRows # {} /\ Contradicts(m)
  BY DEF RefuseEquation
<1>2. Shaped(m, n, c) /\ n \in Nat /\ c \in Nat /\ m = f[e] /\ e \in LinearSteps
  BY <1>1, MatrixIs
<1>3. Follows(k, f[e], T, log, n, c)
  <2>1. Follows(k, m, T, log, n, c)
    <3> HIDE DEF e, m, n, c, T, log
    <3> QED BY <1>1, <1>2, EpsilonGaussFollows
  <2> QED BY <1>2, <2>1
<1>4. /\ u \in [Bit -> Condition] /\ Closed(u) /\ Below(u, d) /\ d \in Characteristic
  BY <1>1, ClosureIs
<1>5. d \in [Bit -> Condition] /\ who \in Owner /\ f \in StepMatrices
  BY WhoIs
<1>6. Exact(f, d)
  BY <1>1 DEF PropInv, MatricesHold
<1>7. Contradictory(u)
  <2>1. Means(m, e, d)
    BY <1>2, <1>6, EachMeans
  <2> HIDE DEF u, d, e, m
  <2> QED BY <1>1, <1>2, <1>4, <1>5, <2>1, ClosureRefutes
<1>8. cond' = [cond EXCEPT ![who] = d] /\ heap' = [heap EXCEPT ![at[who]] = g]
  BY <1>1, <1>5 DEF PropInv, Typed, ChangeMatrix
<1>9. Leads(f, g, d, log)
  <2> HIDE DEF f, d, log, e, k
  <2> QED BY <1>2, <1>3, <1>5, OneFollows
<1>10. EquationsEntered'
  BY <1>1 DEF EquationsEntered
<1>11. Below(d, cond[who])
  BY DEF Below
<1>12. pc \notin {"ready", "lost"} /\ pc' \in {"update", "equations", "gauss", "held", "refused"}
       /\ pc' # "held" /\ pc' = "refused"
  BY <1>1
<1> HIDE DEF d, l, g, u
<1> QED BY <1>1, <1>4, <1>7, <1>8, <1>9, <1>10, <1>11, <1>12, UpdateGoesOn DEF u, d

\* Nothing is left of a sequence only behind its end.
LEMMA NothingBehind ==
    ASSUME NEW S, NEW q \in Seq(S), NEW j \in 0..Len(q), SubSeq(q, j + 1, Len(q)) = <<>>
    PROVE  j = Len(q)
<1>1. Len(q) \in Nat
  OBVIOUS
<1>2. j \in Nat /\ j <= Len(q)
  BY <1>1
<1>3. ASSUME j < Len(q) PROVE FALSE
  <2>1. Len(SubSeq(q, j + 1, Len(q))) = Len(q) - j
    BY <1>1, <1>2, <1>3
  <2>2. Len(SubSeq(q, j + 1, Len(q))) = Len(<<>>)
    OBVIOUS
  <2>3. Len(<<>>) = 0
    OBVIOUS
  <2> QED BY <1>1, <1>2, <1>3, <2>1, <2>2, <2>3
<1> QED BY <1>1, <1>2, <1>3

\* When no equation is left, the condition of the entry has been added.
LEMMA EntryEntered ==
    ASSUME PropInv, ClosureInv, pc = "equations", equations = <<>>
    PROVE  Entered(Matrix, Entry[1], {Entry[2]}, cond[who])
<1> DEFINE e == Entry[1]
           p == Entry[2]
           a == cond[who]
           q == EquationsAt(e, p, a)
           N == Len(StepList[e].bits)
           bc == ConditionAt(e, p, a)
           r == LinearConditions(bc, p, 2 * N)
<1>1. PICK j \in 0..Len(q) : /\ equations = SubSeq(q, j + 1, Len(q))
                             /\ \A i \in 1..j : Min(q[i]) \notin Columns(Matrix)
  BY DEF EquationsEntered, ClosureInv
<1>2. e \in LinearSteps /\ p \in Places(e)
  BY PositionOfEntry
<1>3. /\ N \in Nat /\ ColumnCount(e) = 2 * N /\ Places(e) = 0..(N - 1)
      /\ \A i \in Places(e) : StepList[e].bits[i + 1] \in Bit
  BY <1>2, PlacesAre
<1>4. bc \in Condition
  <2>1. StepList[e].bits[p + 1] \in Bit
    BY <1>2, <1>3
  <2> QED BY <2>1, WhoIs DEF ConditionAt
<1>5. q = r
  BY <1>3 DEF EquationsAt
<1>6. p \in 0..(N - 1)
  BY <1>2, <1>3
<1> HIDE DEF bc, N, p
<1>7. r \in Seq(SUBSET (0..(2 * N)))
  BY <1>3, <1>4, <1>6, LinearConditionsHold
<1> HIDE DEF r, q
<1>8. Len(q) \in Nat /\ q \in Seq(SUBSET (0..(2 * N))) /\ DOMAIN q = 1..Len(q)
  BY <1>5, <1>7
<1>9. j = Len(q)
  BY <1>1, <1>8, NothingBehind
<1>10. \A i \in DOMAIN q : Min(q[i]) \notin Columns(Matrix)
  BY <1>1, <1>8, <1>9
<1> QED BY <1>10 DEF Entered, q, p

\* After the last entry of a step no position of it is left in the worklist.
LEMMA NoMore ==
    ASSUME PropInv, list[who] # {}, NEW rest, rest = list[who] \ {Entry},
           ~ (rest # {} /\ FirstEntry(rest)[1] = Entry[1])
    PROVE  \A x : <<Entry[1], x>> \notin rest
<1>1. /\ list[who] \in SUBSET Entries /\ rest \in SUBSET Entries /\ Entry \in Entries
  BY WhoIs, EntryIs
<1>2. \A y \in Entries : y[1] \in Nat
  <2>1. TAKE y \in Entries
  <2>2. PICK s \in DOMAIN StepList : y \in {s} \X Places(s)
    BY DEF Entries
  <2>3. DOMAIN StepList \in SUBSET Nat
    BY LinearAssumption
  <2> QED BY <2>2, <2>3
<1>3. \A y \in list[who] : Entry[1] <= y[1]
  <2>1. \A y \in list[who] : Entry[1] < y[1] \/ (Entry[1] = y[1] /\ Entry[2] <= y[2])
    BY <1>1, FirstEntryIs DEF Entry
  <2> HIDE DEF Entry
  <2>2. TAKE y \in list[who]
  <2>3. y[1] \in Nat /\ Entry[1] \in Nat
    BY <1>1, <1>2
  <2> QED BY <2>1, <2>3
<1>4. ASSUME NEW x, <<Entry[1], x>> \in rest PROVE FALSE
  <2> DEFINE z == FirstEntry(rest)
             y == <<Entry[1], x>>
  <2>1. /\ z \in rest /\ \A w \in rest : z[1] < w[1] \/ (z[1] = w[1] /\ z[2] <= w[2])
    BY <1>1, <1>4, FirstEntryIs
  <2>2. z[1] \in Nat /\ Entry[1] \in Nat /\ Entry[1] <= z[1] /\ z[1] # Entry[1]
    BY <1>1, <1>2, <1>3, <1>4, <2>1
  <2>3. z[1] < y[1] \/ z[1] = y[1]
    BY <1>4, <2>1
  <2>4. y[1] = Entry[1]
    OBVIOUS
  <2> HIDE DEF z, y, Entry
  <2> QED BY <2>2, <2>3, <2>4
<1> QED BY <1>4

\* Another entry of the step follows: this one is done.
LEMMA OneEntryDone ==
    ASSUME NEW e \in LinearSteps, NEW p \in Places(e), NEW m, NEW l, NEW c,
           LinearWaits(m, e, l, c), <<e, p>> \in l, Entered(m, e, {p}, c),
           NEW k, k = l \ {<<e, p>>}, NEW q \in Places(e), <<e, q>> \in k
    PROVE  LinearWaits(m, e, k, c)
<1>1. p \notin Through(e, l) /\ q \notin Through(e, k)
  BY DEF Through
<1>2. Through(e, k) \subseteq Through(e, l) \cup {p}
  BY DEF Through
<1>3. Entered(m, e, Through(e, l), c) /\ RowsKnown(m, e, DOMAIN m.data \ m.extract, c)
  BY <1>1 DEF LinearWaits
<1>4. Entered(m, e, Through(e, k), c)
  BY <1>2, <1>3 DEF Entered
<1> QED BY <1>1, <1>3, <1>4 DEF LinearWaits

\* The last entry of the step: all conditions have been added, all rows looked at.
LEMMA LastEntryDone ==
    ASSUME NEW e \in LinearSteps, NEW p \in Places(e), NEW m,
           Shaped(m, RowCount(e), ColumnCount(e)), Settled(m),
           NEW l, NEW c \in [Bit -> Condition],
           LinearWaits(m, e, l, c), <<e, p>> \in l, Entered(m, e, {p}, c),
           NEW k, k = l \ {<<e, p>>}, \A x : <<e, x>> \notin k,
           NEW d, d = Extracted(m, StepList[e], c),
           NEW n, n = [m EXCEPT !.extract = {}]
    PROVE  LinearWaits(n, e, k \cup Touched(c, d), d)
<1> DEFINE T == Touched(c, d)
           P == Through(e, k \cup T)
<1>1. p \notin Through(e, l)
  BY DEF Through
<1>2. Entered(m, e, Through(e, l), c) /\ RowsKnown(m, e, DOMAIN m.data \ m.extract, c)
  BY <1>1 DEF LinearWaits
<1>3. Entered(m, e, Places(e), c)
  <2>1. ASSUME NEW x \in Places(e), x # p PROVE x \in Through(e, l)
    <3>1. <<e, x>> \notin k /\ <<e, x>> # <<e, p>>
      BY <2>1
    <3> QED BY <3>1 DEF Through
  <2> QED BY <1>2, <2>1 DEF Entered
<1>4. RowsKnown(m, e, DOMAIN m.data, d)
  BY <1>2, ExtractedKnows
<1>5. P \subseteq Places(e) /\ \A x \in P : <<e, x>> \notin T
  BY DEF Through
<1>6. Entered(m, e, P, c)
  BY <1>3, <1>5 DEF Entered
<1> HIDE DEF P, T
<1>7. Entered(m, e, P, d)
  BY <1>5, <1>6, EnteredStays DEF T
<1>8. m \in MatrixSet(RowCount(e), ColumnCount(e))
  BY DEF Shaped
<1>9. n.data = m.data
  BY <1>8 DEF MatrixSet
<1>10. Columns(n) = Columns(m)
  BY <1>9 DEF Columns
<1>11. Entered(n, e, P, d) /\ RowsKnown(n, e, DOMAIN n.data, d)
  BY <1>4, <1>7, <1>9, <1>10 DEF Entered, RowsKnown
<1>12. RowsKnown(n, e, DOMAIN n.data \ n.extract, d)
  BY <1>11 DEF RowsKnown
<1> QED BY <1>11, <1>12 DEF LinearWaits, P, T

\* What has waited for the other steps still waits, in matrices that only differ at e.
LEMMA OthersWait ==
    ASSUME NEW f, NEW g, NEW e, \A s \in LinearSteps : s # e => g[s] = f[s],
           NEW l, NEW k, NEW c, NEW d \in [Bit -> Condition], Below(d, c), WorkWaits(f, l, c),
           \A s \in DOMAIN StepList : s # e => Covers(k, l, c, d, s),
           NEW s \in DOMAIN StepList, s # e
    PROVE  IF s \in LinearSteps THEN LinearWaits(g[s], s, k, d) ELSE BitsliceWaits(s, k, d)
BY WaitsStay

\* The entry is done, and what its rows say of single bits is taken over.
LEMMA LinearDoneCloses == ASSUME PropInv, ReducedInv, ClosureInv, LinearDone PROVE ClosureInv'
<1> DEFINE e == Entry[1]
           p == Entry[2]
           m == Matrix
           f == heap[at[who]]
           a == cond[who]
           L == list[who]
           rest == L \ {Entry}
           more == rest # {} /\ FirstEntry(rest)[1] = e
           c == IF more THEN a ELSE Extracted(m, StepList[e], a)
           ok == /\ \A b \in Bit : c[b] # Contradiction
                 /\ more \/ \A i \in m.extract : ~ IsContradiction(m, m.rowinv[i])
           k == IF more \/ ~ ok THEN m ELSE [m EXCEPT !.extract = {}]
           l == rest \cup Touched(a, c)
           g == [f EXCEPT ![e] = k]
           u == Reached(call.cond)
           n == RowCount(e)
           d == ColumnCount(e)
<1>1. /\ e \in LinearSteps /\ f \in StepMatrices /\ m = f[e]
      /\ Shaped(m, n, d) /\ n \in Nat /\ d \in Nat
      /\ a \in [Bit -> Condition] /\ L \in SUBSET Entries
      /\ who \in Owner /\ Settled(m)
  BY MatrixIs, MatrixReduces, WhoIs DEF LinearDone
<1>2. /\ cond' = [cond EXCEPT ![who] = c] /\ list' = [list EXCEPT ![who] = l] /\ ChangeMatrix(k)
      /\ pc = "equations" /\ pc' = (IF ok THEN "update" ELSE "refused")
      /\ equations = <<>>
      /\ at' = at /\ call' = call /\ guess' = guess /\ results' = results
  BY DEF LinearDone
<1>3. /\ u \in [Bit -> Condition] /\ Closed(u) /\ Below(u, a) /\ a \in Characteristic
  BY <1>2, ClosureIs
<1>4. c \in [Bit -> Condition] /\ Below(c, a)
  <2>1. Below(a, a)
    BY DEF Below
  <2> QED BY <1>1, <2>1, ExtractedNarrows
<1>5. c \in Characteristic
  <2> HIDE DEF a, c
  <2> QED BY <1>3, <1>4, CharacteristicIs
<1>6. Means(m, e, a)
  <2>1. Exact(f, a)
    BY <1>2 DEF PropInv, MatricesHold
  <2> QED BY <1>1, <2>1, EachMeans
<1>7. Below(u, c)
  <2>1. Below(u, Extracted(m, StepList[e], a))
    <3> HIDE DEF u, a, m, e
    <3> QED BY <1>1, <1>3, <1>6, ClosureExtracted
  <2> QED BY <1>3, <2>1
<1>8. ~ ok => Contradictory(u)
  <2>1. CASE Contradictory(c)
    <3> HIDE DEF u, c
    <3> QED BY <1>7, <2>1, ContradictionBelow
  <2>2. CASE \E i \in m.extract : IsContradiction(m, m.rowinv[i])
    <3>1. PICK i \in m.extract : IsContradiction(m, m.rowinv[i])
      BY <2>2
    <3>2. m \in MatrixSet(n, d)
      BY <1>1 DEF Shaped
    <3>3. i \in 0..(n - 1) /\ Rows(m) = 0..(n - 1)
      <4> HIDE DEF m, n, d
      <4>1. m.extract \in SUBSET (0..(n - 1))
        BY <3>2 DEF MatrixSet
      <4>2. Rows(m) = 0..(n - 1)
        BY <1>1, <3>2, MatrixFacts
      <4> QED BY <3>1, <4>1, <4>2
    <3>4. m.rowinv[i] \in Rows(m)
      <4> HIDE DEF m, n, d
      <4> QED BY <1>1, <3>3, PositionIs
    <3>5. ~ Contradictory(u) => \A r \in Rows(m) : ~ IsContradiction(m, r)
      <4> HIDE DEF u, a, m, e
      <4> QED BY <1>1, <1>3, <1>6, ClosureRefutes DEF n, d
    <3> QED BY <3>1, <3>4, <3>5
  <2>3. ~ ok => Contradictory(c) \/ \E i \in m.extract : IsContradiction(m, m.rowinv[i])
    <3> HIDE DEF c, m, more
    <3> QED BY DEF Contradictory
  <2> QED BY <2>1, <2>2, <2>3
<1>9. /\ p \in Places(e) /\ Entry \in L /\ <<e, p>> = Entry
  BY <1>2, PositionOfEntry
<1>10. Entered(m, e, {p}, a)
  BY <1>2, EntryEntered
<1>11. WorkWaits(f, L, a)
  BY <1>2 DEF ClosureInv, Running
<1>12. LinearWaits(m, e, L, a)
  BY <1>1, <1>11 DEF WorkWaits, LinearSteps
<1>13. ok => LinearWaits(k, e, l, c)
  <2>1. CASE more
    <3>1. c = a /\ k = m
      BY <2>1
    <3>2. l = rest
      BY <3>1, NotTouched
    <3> DEFINE z == FirstEntry(rest)
    <3>3. z \in rest /\ z[1] = e
      BY <1>1, <2>1, FirstEntryIs
    <3>4. PICK s \in DOMAIN StepList : z \in {s} \X Places(s)
      <4>1. z \in Entries
        BY <1>1, <3>3
      <4> HIDE DEF z
      <4> QED BY <4>1 DEF Entries
    <3>5. \E q \in Places(e) : <<e, q>> \in rest
      <4> HIDE DEF z, e, rest
      <4> QED BY <3>3, <3>4
    <3>6. rest = L \ {<<e, p>>} /\ <<e, p>> \in L
      BY <1>9
    <3> HIDE DEF rest, e, p, m, L, a
    <3>7. LinearWaits(m, e, rest, a)
      BY <1>1, <1>9, <1>10, <1>12, <3>5, <3>6, OneEntryDone
    <3> QED BY <3>1, <3>2, <3>7
  <2>2. CASE ~ more
    <3>1. SUFFICES ASSUME ok PROVE LinearWaits(k, e, l, c)
      OBVIOUS
    <3> DEFINE x == Extracted(m, StepList[e], a)
               y == [m EXCEPT !.extract = {}]
    <3>2. c = x /\ k = y /\ l = rest \cup Touched(a, x)
      BY <2>2, <3>1
    <3>3. rest = L \ {<<e, p>>} /\ <<e, p>> \in L
      BY <1>9
    <3>4. \A w : <<e, w>> \notin rest
      BY <1>9, <2>2, NoMore
    <3> HIDE DEF rest, e, p, m, L, a, c, k, l, x, y, ok
    <3>5. LinearWaits(y, e, rest \cup Touched(a, x), x)
      BY <1>1, <1>9, <1>10, <1>12, <3>3, <3>4, LastEntryDone DEF x, y, n, d
    <3> QED BY <3>2, <3>5
  <2> QED BY <2>1, <2>2
<1>14. \A s \in LinearSteps : g[s] = IF s = e THEN k ELSE f[s]
  <2> HIDE DEF k, e, f
  <2> QED BY <1>1 DEF StepMatrices
<1>15. \A s \in DOMAIN StepList : s # e => Covers(l, L, a, c, s)
  <2>1. TAKE s \in DOMAIN StepList
  <2>2. s # e => \A q : <<s, q>> # Entry
    OBVIOUS
  <2> HIDE DEF c, a, e
  <2> QED BY <2>2 DEF Covers
<1>16. ok => WorkWaits(g, l, c)
  <2> HIDE DEF k, e, f, l, c, g, ok, L, a
  <2>1. ASSUME NEW s \in DOMAIN StepList, s # e
        PROVE  IF s \in LinearSteps THEN LinearWaits(g[s], s, l, c) ELSE BitsliceWaits(s, l, c)
    BY <1>4, <1>11, <1>14, <1>15, <2>1, OthersWait
  <2> QED BY <1>1, <1>13, <1>14, <2>1 DEF WorkWaits
<1>17. heap' = [heap EXCEPT ![at[who]] = g]
  BY <1>2 DEF ChangeMatrix
<1>18. Leads(f, g, a, call.log)
  <2>1. m \in MatrixSet(n, d)
    BY <1>1 DEF Shaped
  <2>2. k = m \/ k = [m EXCEPT !.extract = {}]
    OBVIOUS
  <2>3. Follows(k, m, Allowed(e, a), call.log, n, d)
    <3> HIDE DEF k, m
    <3>1. k \in MatrixSet(n, d) /\ Same(k, m) /\ k.changes = m.changes
      BY <2>1, <2>2 DEF MatrixSet, Same
    <3> QED BY <1>1, <3>1, MarkedFollows
  <2>4. Follows(k, f[e], Allowed(e, a), call.log, RowCount(e), ColumnCount(e))
    BY <1>1, <2>3
  <2> HIDE DEF e, f, k, m, a
  <2> QED BY <1>1, <2>4, OneFollows
<1>19. ok => ~ Contradictory(c)
  <2> HIDE DEF c
  <2> QED BY DEF Contradictory
<1>20. pc \notin {"ready", "lost"} /\ pc' \in {"update", "equations", "gauss", "held", "refused"}
       /\ pc' # "held" /\ (pc' # "refused" <=> ok) /\ EquationsEntered'
  <2> HIDE DEF ok
  <2> QED BY <1>2 DEF EquationsEntered
<1>21. /\ pc' # "refused" => WorkWaits(g, l, c) /\ ~ Contradictory(c)
       /\ pc' = "refused" => Contradictory(u)
  <2> HIDE DEF ok, g, l, c, u
  <2> QED BY <1>8, <1>16, <1>19, <1>20
<1> HIDE DEF a, c, l, g, u, ok, k
<1> QED BY <1>2, <1>4, <1>5, <1>7, <1>17, <1>18, <1>20, <1>21, UpdateGoesOn DEF a, u

\* Every step of an Update.
LEMMA UpdateStepCloses == ASSUME PropInv, ReducedInv, ClosureInv, UpdateStep PROVE ClosureInv'
BY UpdateDoneCloses, UpdateBitsliceCloses, UpdateLinearCloses, AddNextCloses, ReduceCloses,
   RefuseEquationCloses, SortCloses, LinearDoneCloses DEF UpdateStep

-----------------------------------------------------------------------------
(* The closure in calls and returns *)

\* An Update that held has reached the closure: nothing is left to narrow.
LEMMA HeldIsUpdated ==
    ASSUME PropInv, ReducedInv, ClosureInv, pc = "held"
    PROVE  /\ Updated(heap[at[who]], list[who], cond[who])
           /\ cond[who] = Reached(call.cond) /\ ~ Contradictory(cond[who])
<1> DEFINE f == heap[at[who]]
           l == list[who]
           c == cond[who]
           u == Reached(call.cond)
<1>1. f \in StepMatrices /\ c \in [Bit -> Condition] /\ who \in Owner
  BY WhoIs
<1>2. AllSettled(f)
  <2>1. Reducing(f, Eliminating) /\ Eliminating = {}
    BY DEF ReducedInv, Eliminating
  <2> HIDE DEF f
  <2> QED BY <2>1 DEF Reducing, AllSettled
<1>3. Exact(f, c)
  BY DEF PropInv, MatricesHold
<1>4. WorkWaits(f, l, c) /\ ~ Contradictory(c) /\ l = {}
  BY DEF ClosureInv
<1>6. /\ u \in ClosedOnes /\ c \in Characteristic /\ Below(u, c)
  BY ClosureIs
<1>7. Below(c, call.cond) /\ call.cond \in Characteristic
  BY DEF ClosureInv, ClosureStays
<1> HIDE DEF f, l, c
<1>8. Closed(c) /\ \A s \in LinearSteps : Entered(f[s], s, Places(s), c)
  BY <1>1, <1>2, <1>3, <1>4, NothingLeft
<1>9. Updated(f, l, c)
  BY <1>4, <1>8 DEF Updated
<1>10. Below(c, u)
  <2>1. c \in ClosedOnes
    BY <1>6, <1>8 DEF ClosedOnes
  <2> QED BY <1>7, <2>1, ReachedIsLargest
<1>11. u \in Characteristic
  BY <1>6 DEF ClosedOnes
<1> HIDE DEF u
<1>12. c = u
  BY <1>6, <1>10, <1>11, BelowIsOrder
<1> QED BY <1>4, <1>9, <1>12 DEF f, l, c, u

\* An Update is called after one condition was narrowed, on what an Update has left.
LEMMA CallCloses ==
    ASSUME NEW name \in Names \ {"none", "all"}, NEW x \in Owner, NEW log,
           NEW conds \in [Owner -> Characteristic], NEW lists, lists \in [Owner -> SUBSET Entries],
           NEW b \in Bit, NEW bc, bc \subseteq conds[x][b], bc # {},
           SetAndUpdate(name, x, log, conds, lists, b, bc),
           x = IF name \in {"second", "try one", "try two"} THEN "tmp" ELSE "char",
           heap'[at'[x]] \in StepMatrices, Exact(heap'[at'[x]], conds[x]),
           Updated(heap'[at'[x]], lists[x], conds[x]),
           Updated(heap'[at'["kept"]], lists["kept"], conds["kept"]),
           name \in Tries => Updated(UndoAll(heap'[at'[x]]), lists[Other(x)], conds[Other(x)]),
           TrialsMean'
    PROVE  ClosureInv'
<1> DEFINE a == conds[x]
           d == SetBitCondition(a, b, bc)
           f == heap'[at'[x]]
           l == lists[x] \cup Touched(a, d)
<1>1. /\ x \in {"char", "tmp"} /\ "kept" \in Owner /\ "char" \in Owner /\ "tmp" \in Owner
      /\ Other(x) \in {"char", "tmp"} /\ Other(x) # x
  BY DEF Owner, Other
<1>2. a \in Characteristic /\ a \in [Bit -> Condition] /\ Below(a, Start)
  BY CharacteristicIs
<1>3. d \in Characteristic
  <2>1. bc \subseteq Start[b]
    BY <1>2 DEF Below
  <2> HIDE DEF a
  <2> QED BY <1>2, <2>1, SetType
<1>4. cond' = [conds EXCEPT ![x] = d]
  BY DEF SetAndUpdate, SetBitCondition
<1>5. /\ cond'[x] = d /\ \A y \in Owner : y # x => cond'[y] = conds[y]
      /\ cond' \in [Owner -> Characteristic]
  <2> HIDE DEF d
  <2> QED BY <1>3, <1>4
<1>6. list' = [lists EXCEPT ![x] = l]
  BY <1>5 DEF SetAndUpdate
<1>7. list'[x] = l /\ \A y \in Owner : y # x => list'[y] = lists[y]
  <2> HIDE DEF l
  <2> QED BY <1>6
<1>8. /\ call' = [name |-> name, who |-> x, log |-> log, cond |-> d] /\ pc' = "update"
  BY <1>5 DEF SetAndUpdate
<1>9. /\ who' = x /\ call'.name = name /\ call'.cond = d
  BY <1>8 DEF who
<1>10. (Trying' => name \in Tries) /\ Untouched' = Other(x)
  BY <1>9 DEF Trying, Tries, Untouched, Other
<1>11. \A y \in Bit : d[y] = IF y = b THEN bc ELSE a[y]
  BY <1>2 DEF SetBitCondition
<1>12. d \in [Bit -> Condition] /\ Below(d, a)
  <2> HIDE DEF a, d
  <2>1. d \in [Bit -> Condition]
    BY <1>3, CharacteristicIs
  <2>2. bc \subseteq a[b]
    BY DEF a
  <2> QED BY <1>11, <2>1, <2>2 DEF Below
<1>13. WorkWaits(f, lists[x], a) /\ lists[x] = {} /\ ~ Contradictory(a)
  <2> HIDE DEF a, f
  <2>1. f \in StepMatrices /\ Exact(f, a) /\ Updated(f, lists[x], a)
    BY DEF a, f
  <2> QED BY <1>2, <2>1, UpdatedWaits
<1>14. ~ Contradictory(d)
  <2> HIDE DEF a, d
  <2> QED BY <1>11, <1>13 DEF Contradictory, Contradiction
<1>15. WorkWaits(f, l, d)
  <2>1. \A s : Covers(l, lists[x], a, d, s)
    BY <1>13 DEF Covers
  <2> HIDE DEF a, d, f, l
  <2>2. \A s \in DOMAIN StepList :
           IF s \in LinearSteps THEN LinearWaits(f[s], s, l, d) ELSE BitsliceWaits(s, l, d)
    BY <1>12, <1>13, <2>1, WaitsStay
  <2> QED BY <2>2 DEF WorkWaits
<1>16. EquationsEntered'
  BY <1>8 DEF EquationsEntered
<1>17. ClosureStays'
  <2>1. Below(Reached(d), d) /\ Below(d, d)
    <3> HIDE DEF d
    <3> QED BY <1>3, ReachedType DEF Below
  <2> HIDE DEF d
  <2> QED BY <1>5, <1>8, <1>9, <2>1 DEF ClosureStays
<1>18. Updated(heap'[at'["kept"]], list'["kept"], cond'["kept"])
  BY <1>1, <1>5, <1>7
<1>19. Trying' => Updated(UndoAll(heap'[at'[who']]), list'[Untouched'], cond'[Untouched'])
  BY <1>1, <1>5, <1>7, <1>9, <1>10
<1>20. pc' # "ready" /\ pc' # "held"
  BY <1>8
<1>21. WorkWaits(heap'[at'[who']], list'[who'], cond'[who']) /\ ~ Contradictory(cond'[who'])
  BY <1>5, <1>7, <1>9, <1>14, <1>15
<1>22. call'.cond \in Characteristic
  BY <1>3, <1>9
<1> HIDE DEF a, d, f, l
<1> QED BY <1>5, <1>16, <1>17, <1>18, <1>19, <1>20, <1>21, <1>22 DEF ClosureInv

\* A caller returns.
LEMMA ReturnCloses ==
    ASSUME NEW place \in {"ready", "lost"}, Return(place), cond' \in [Owner -> Characteristic],
           Updated(heap'[at'["kept"]], list'["kept"], cond'["kept"]),
           place = "ready" => Updated(heap'[at'["char"]], list'["char"], cond'["char"])
    PROVE  ClosureInv'
<1>1. /\ pc' = place
      /\ call' = [name |-> "none", who |-> "char", log |-> FALSE, cond |-> Start]
  BY DEF Return, NoCall
<1>2. pc' \in {"ready", "lost"} /\ call'.name = "none" /\ call'.cond = Start
  BY <1>1
<1>3. ~ Trying' /\ ~ (Running \/ pc = "held")'
  BY <1>2 DEF Trying, Running
<1>4. EquationsEntered' /\ ClosureStays' /\ TrialsMean'
  BY <1>2 DEF EquationsEntered, ClosureStays, TrialsMean
<1>5. call'.cond \in Characteristic
  BY <1>2, StartType
<1>6. pc' # "held" /\ (pc' = "ready" <=> place = "ready")
  BY <1>1
<1> QED BY <1>3, <1>4, <1>5, <1>6 DEF ClosureInv

\* Logs that start afresh, and that are taken back right away, change nothing.
LEMMA FixAllUpdated ==
    ASSUME NEW f \in StepMatrices, NEW g, g = FixAll(f), NEW l, NEW c, Updated(f, l, c)
    PROVE  Updated(g, l, c) /\ Updated(UndoAll(g), l, c)
<1>1. g \in StepMatrices /\ AllUndoable(g) /\ \A s \in LinearSteps : Same(g[s], f[s])
  BY FixAllIs
<1>2. ASSUME NEW s \in LinearSteps PROVE Same(UndoAll(g)[s], f[s])
  <2>1. g[s] = [f[s] EXCEPT !.changes = <<>>]
    BY DEF FixAll
  <2>2. Same(Undone(g[s])[0], g[s])
    BY <2>1, StepMatrixIs, FixedIs
  <2>3. Same(UndoAll(g)[s], Undone(g[s])[0])
    BY <1>1, UndoAllIs
  <2> QED BY <1>1, <2>2, <2>3 DEF Same
<1> QED BY <1>1, <1>2, UpdatedSame

\* What there is between two Updates.
LEMMA BetweenUpdated ==
    ASSUME PropInv, ReducedInv, ClosureInv
    PROVE  /\ call.name # "all" => Updated(heap[at["kept"]], list["kept"], cond["kept"])
           /\ pc \in {"ready", "held"} => Updated(heap[at[who]], list[who], cond[who])
           /\ (pc \in {"held", "refused"} /\ call.name \in Tries) =>
                  Updated(UndoAll(heap[at["char"]]), list[Untouched], cond[Untouched])
<1>1. ASSUME pc = "ready" PROVE Updated(heap[at[who]], list[who], cond[who])
  <2>1. who = "char"
    BY <1>1, BetweenIs
  <2> QED BY <1>1, <2>1 DEF ClosureInv
<1>2. ASSUME pc \in {"held", "refused"}, call.name \in Tries
      PROVE  Updated(UndoAll(heap[at["char"]]), list[Untouched], cond[Untouched])
  <2>1. Trying /\ at["char"] = at["tmp"]
    BY <1>2, UndoneIsFaithful
  <2>2. at[who] = at["char"]
    BY <2>1, WhoIs
  <2> QED BY <2>1, <2>2 DEF ClosureInv
<1> QED BY <1>1, <1>2, HeldIsUpdated DEF ClosureInv

\* The conditions of the characteristics.
LEMMA BetweenCharacteristics ==
    ASSUME ClosureInv
    PROVE  /\ cond \in [Owner -> Characteristic]
           /\ \A x \in {"char", "tmp", "kept"} : x \in Owner /\ cond[x] \in Characteristic
           /\ Other("char") = "tmp" /\ Other("tmp") = "char"
BY DEF ClosureInv, Owner, Other

\* A guess is tried on what the characteristic of the search has reached.
LEMMA SharedTryCloses ==
    ASSUME PropInv, ReducedInv, ClosureInv, pc = "ready",
           NEW b \in Bit, NEW name \in {"first", "evaluate", "try one"},
           NEW x, x = IF name = "try one" THEN "tmp" ELSE "char",
           NEW bc, bc \subseteq cond["char"][b], bc # {},
           NEW choices, guess' = [bit |-> b, choices |-> choices],
           choices[1] # {}, choices[2] # {}, name = "try one" => bc = choices[1],
           heap' = Freed([heap EXCEPT ![at["char"]] = FixAll(heap[at["char"]])]),
           TryOn(name, x, b, bc)
    PROVE  ClosureInv'
<1> DEFINE f == heap[at["char"]]
           g == FixAll(f)
           conds == [cond EXCEPT !["tmp"] = cond["char"]]
           lists == [list EXCEPT !["tmp"] = list["char"]]
           a == cond["char"]
           l == list["char"]
<1>1. /\ at' = [at EXCEPT !["tmp"] = at["char"]]
      /\ SetAndUpdate(name, x, TRUE, conds, lists, b, bc)
  BY DEF TryOn, Shared
<1>2. /\ cond \in [Owner -> Characteristic] /\ list \in [Owner -> SUBSET Entries]
      /\ at \in [Owner -> Cell] /\ at["kept"] # at["char"]
      /\ "char" \in Owner /\ "tmp" \in Owner /\ "kept" \in Owner
      /\ f \in StepMatrices /\ a \in [Bit -> Condition]
  BY BetweenIs DEF ClosureInv
<1>3. /\ Exact(f, a) /\ Updated(f, l, a)
      /\ Updated(heap[at["kept"]], list["kept"], cond["kept"])
  <2>1. who = "char" /\ call.name = "none" /\ pc # "lost"
    BY BetweenIs
  <2> QED BY <2>1, BetweenIs, BetweenUpdated
<1>4. g \in StepMatrices /\ Exact(g, a) /\ Updated(g, l, a) /\ Updated(UndoAll(g), l, a)
  <2> HIDE DEF f, a, l
  <2> QED BY <1>2, <1>3, FixAllIs, FixAllUpdated
<1> HIDE DEF f, g
<1>5. heap'[at["char"]] = g /\ heap'[at["kept"]] = heap[at["kept"]]
  BY <1>4, FreedIs DEF f, g
<1>6. at'["kept"] = at["kept"] /\ at'["char"] = at["char"] /\ at'["tmp"] = at["char"]
  BY <1>1, <1>2
<1>7. /\ conds \in [Owner -> Characteristic] /\ lists \in [Owner -> SUBSET Entries]
      /\ conds["kept"] = cond["kept"] /\ conds["char"] = a /\ conds["tmp"] = a
      /\ lists["kept"] = list["kept"] /\ lists["char"] = l /\ lists["tmp"] = l
  BY <1>2
<1> HIDE DEF conds, lists
<1>8. /\ x \in {"char", "tmp"} /\ Other(x) \in {"char", "tmp"} /\ x \in Owner
      /\ name \in Names \ {"none", "all"}
      /\ x = IF name \in {"second", "try one", "try two"} THEN "tmp" ELSE "char"
  BY <1>2 DEF Other, Names
<1>9. /\ at'[x] = at["char"] /\ conds[x] = a /\ conds[Other(x)] = a
      /\ lists[x] = l /\ lists[Other(x)] = l
  BY <1>6, <1>7, <1>8
<1>10. TrialsMean'
  <2>1. call'.name = name /\ guess'.bit = b /\ guess'.choices = choices
    BY <1>1 DEF SetAndUpdate
  <2>2. name = "try one" => call'.cond = Trial("char", 1)'
    <3>1. SUFFICES ASSUME name = "try one" PROVE call'.cond = Trial("char", 1)'
      OBVIOUS
    <3>2. /\ cond' = [conds EXCEPT !["tmp"][b] = bc] /\ call'.cond = cond'["tmp"]
      BY <1>1, <3>1 DEF SetAndUpdate
    <3>3. cond'["tmp"] = [a EXCEPT ![b] = bc] /\ cond'["char"] = a
      BY <1>2, <1>7, <3>2
    <3> QED BY <2>1, <3>1, <3>2, <3>3 DEF Trial, SetBitCondition
  <2> QED BY <2>1, <2>2 DEF TrialsMean
<1>11. bc \subseteq conds[x][b]
  BY <1>9
<1> HIDE DEF a, l
<1> QED BY <1>1, <1>3, <1>4, <1>5, <1>6, <1>7, <1>8, <1>9, <1>10, <1>11, CallCloses

\* GuessBit and EvaluatePos: each choice of an open condition has a value.
LEMMA GuessBitCloses ==
    ASSUME PropInv, ReducedInv, ClosureInv,
           NEW name \in {"first", "evaluate"}, NEW b \in Bit, NEW i \in {1, 2},
           GuessBit(name, b, i)
    PROVE  ClosureInv'
<1> DEFINE bc == cond["char"][b]
           all == CHOICES(bc)
           choices == <<all[i], all[3 - i]>>
<1>1. bc \in Condition
  BY BetweenIs
<1>2. \A j \in {1, 2} : all[j] \subseteq bc /\ all[j] # {}
  <2>1. IsOpen(bc)
    BY DEF GuessBit
  <2> HIDE DEF bc
  <2> QED BY <1>1, <2>1, ChoicesNarrow, ChoicesDivide
<1>3. 3 - i \in {1, 2}
  OBVIOUS
<1>4. /\ pc = "ready" /\ guess' = [bit |-> b, choices |-> choices]
      /\ heap' = Freed([heap EXCEPT ![at["char"]] = FixAll(heap[at["char"]])])
      /\ TryOn(name, "char", b, all[i])
  BY DEF GuessBit, EachMatrix, FixChanges, FixAll
<1> HIDE DEF all
<1>5. choices[1] # {} /\ choices[2] # {}
  BY <1>2, <1>3
<1> HIDE DEF choices
<1>6. name \in {"first", "evaluate", "try one"} /\ name # "try one"
      /\ all[i] # {} /\ all[i] \subseteq bc
  BY <1>2
<1> QED BY <1>4, <1>5, <1>6, SharedTryCloses

\* Complete: the same, on tmp.
LEMMA CompleteBitCloses ==
    ASSUME PropInv, ReducedInv, ClosureInv, NEW b \in Bit, CompleteBit(b)
    PROVE  ClosureInv'
<1> DEFINE bc == cond["char"][b]
           all == CHOICES(bc)
<1>1. bc \in Condition
  BY BetweenIs
<1>2. \A j \in {1, 2} : all[j] \subseteq bc /\ all[j] # {}
  <2>1. bc = NoDifference \/ bc = Difference
    BY DEF CompleteBit
  <2>2. IsOpen(bc)
    <3> HIDE DEF bc
    <3>1. "0" # "1" /\ "u" # "n"
      OBVIOUS
    <3>2. CASE bc = NoDifference
      <4>1. "0" \in bc /\ "1" \in bc
        BY <3>2 DEF NoDifference
      <4> QED BY <3>1, <4>1 DEF IsOpen
    <3>3. CASE bc = Difference
      <4>1. "u" \in bc /\ "n" \in bc
        BY <3>3 DEF Difference
      <4> QED BY <3>1, <4>1 DEF IsOpen
    <3> QED BY <2>1, <3>2, <3>3
  <2> HIDE DEF bc
  <2> QED BY <1>1, <2>2, ChoicesNarrow, ChoicesDivide
<1>3. /\ pc = "ready" /\ guess' = [bit |-> b, choices |-> all]
      /\ heap' = Freed([heap EXCEPT ![at["char"]] = FixAll(heap[at["char"]])])
      /\ TryOn("try one", "tmp", b, all[1])
  BY DEF CompleteBit, EachMatrix, FixChanges, FixAll
<1> HIDE DEF all
<1>4. /\ "try one" \in {"first", "evaluate", "try one"}
      /\ all[1] # {} /\ all[2] # {} /\ all[1] \subseteq bc
  BY <1>2
<1> QED BY <1>3, <1>4, SharedTryCloses

\* The first choice held, or the other one is tried on what its log leads back to.
LEMMA FirstTriedCloses ==
    ASSUME PropInv, ReducedInv, ClosureInv, FirstTried PROVE ClosureInv'
<1>1. pc \in {"held", "refused"} /\ call.name = "first" /\ at' = at /\ call.name \in Tries
  BY DEF FirstTried, Returned, Tries
<1>2. who = "char" /\ Untouched = "tmp" /\ Other("tmp") = "char"
  BY <1>1, BetweenIs DEF Untouched, Other
<1>3. Updated(heap[at["kept"]], list["kept"], cond["kept"])
  BY <1>1, BetweenUpdated
<1>4. CASE pc = "held" /\ Ready /\ UNCHANGED <<cond, list, heap>>
  <2>1. Return("ready") /\ "ready" \in {"ready", "lost"}
    BY <1>4 DEF Ready
  <2>2. Updated(heap[at["char"]], list["char"], cond["char"])
    BY <1>2, <1>4, BetweenUpdated
  <2>3. cond' \in [Owner -> Characteristic]
    BY <1>4 DEF ClosureInv
  <2>4. /\ Updated(heap'[at'["kept"]], list'["kept"], cond'["kept"])
        /\ Updated(heap'[at'["char"]], list'["char"], cond'["char"])
    BY <1>1, <1>3, <1>4, <2>2
  <2> QED BY <2>1, <2>3, <2>4, ReturnCloses
<1>5. CASE /\ pc = "refused"
           /\ heap' = [heap EXCEPT ![at["char"]] = UndoAll(heap[at["char"]])]
           /\ SetAndUpdate("second", "tmp", TRUE, cond, list, guess.bit, guess.choices[2])
           /\ UNCHANGED <<guess, results>>
  <2> DEFINE g == UndoAll(heap[at["char"]])
             b == guess.bit
             bc == guess.choices[2]
  <2>1. at["char"] = at["tmp"] /\ g \in StepMatrices /\ Exact(g, cond["tmp"])
        /\ Updated(g, list["tmp"], cond["tmp"])
    BY <1>1, <1>2, UndoneIsFaithful, BetweenUpdated
  <2>2. b \in Bit /\ bc \subseteq cond["tmp"][b] /\ bc # {}
    BY <1>1 DEF PropInv, Narrows, ClosureInv, TrialsMean
  <2> HIDE DEF g, b, bc
  <2>3. heap' = [heap EXCEPT ![at["char"]] = g]
    BY <1>5 DEF g
  <2>4. heap'[at'["tmp"]] = g /\ heap'[at'["kept"]] = heap[at["kept"]]
    BY <1>1, <2>1, <2>3, BetweenIs
  <2>5. /\ "second" \in Names \ {"none", "all"} /\ "second" \notin Tries
        /\ "tmp" = IF "second" \in {"second", "try one", "try two"} THEN "tmp" ELSE "char"
    BY DEF Names, Tries
  <2>6. SetAndUpdate("second", "tmp", TRUE, cond, list, b, bc)
    BY <1>5 DEF b, bc
  <2>7. TrialsMean'
    <3>1. call'.name = "second"
      BY <2>6 DEF SetAndUpdate
    <3> QED BY <3>1 DEF TrialsMean
  <2>8. cond \in [Owner -> Characteristic] /\ list \in [Owner -> SUBSET Entries] /\ "tmp" \in Owner
    BY BetweenIs, BetweenCharacteristics
  <2> QED BY <1>3, <2>1, <2>2, <2>4, <2>5, <2>6, <2>7, <2>8, CallCloses
<1> QED BY <1>4, <1>5 DEF FirstTried, EachMatrix, UndoAll

\* char takes over what tmp has reached.
LEMMA ShallowCopyCloses ==
    ASSUME PropInv, ReducedInv, ClosureInv, pc \in {"held", "refused"},
           call.name # "all", Return("ready"),
           NEW f \in StepMatrices, Updated(f, list["tmp"], cond["tmp"]),
           cond' = Shared(cond, "char", "tmp"), list' = Shared(list, "char", "tmp"),
           at' = Shared(at, "char", "tmp"), heap' = [heap EXCEPT ![at["tmp"]] = FixAll(f)]
    PROVE  ClosureInv'
<1> DEFINE g == FixAll(f)
<1>1. Updated(g, list["tmp"], cond["tmp"])
  BY FixAllUpdated
<1> HIDE DEF g
<1>2. heap' = [heap EXCEPT ![at["tmp"]] = g]
  BY DEF g
<1>3. /\ cond'["kept"] = cond["kept"] /\ cond'["char"] = cond["tmp"]
      /\ list'["kept"] = list["kept"] /\ list'["char"] = list["tmp"]
      /\ at'["kept"] = at["kept"] /\ at'["char"] = at["tmp"]
  BY BetweenIs DEF Shared
<1>4. heap'[at["tmp"]] = g /\ heap'[at["kept"]] = heap[at["kept"]]
  BY <1>2, BetweenIs
<1>5. cond' \in [Owner -> Characteristic]
  BY BetweenCharacteristics DEF Shared
<1>6. /\ Updated(heap'[at'["kept"]], list'["kept"], cond'["kept"])
      /\ Updated(heap'[at'["char"]], list'["char"], cond'["char"])
  BY <1>1, <1>3, <1>4, BetweenUpdated
<1>7. "ready" \in {"ready", "lost"}
  OBVIOUS
<1> QED BY <1>5, <1>6, <1>7, ReturnCloses

\* The second choice held, or the characteristic is lost.
LEMMA SecondTriedCloses ==
    ASSUME PropInv, ReducedInv, ClosureInv, SecondTried PROVE ClosureInv'
<1>1. pc \in {"held", "refused"} /\ call.name = "second" /\ call.name # "all"
  BY DEF SecondTried, Returned
<1>2. who = "tmp"
  BY <1>1, BetweenIs
<1>3. CASE pc = "held" /\ Ready /\ ShallowCopyBack(heap[at["tmp"]])
  <2> DEFINE f == heap[at["tmp"]]
  <2>1. f \in StepMatrices /\ Updated(f, list["tmp"], cond["tmp"])
    BY <1>2, <1>3, BetweenIs, BetweenUpdated
  <2>2. /\ cond' = Shared(cond, "char", "tmp") /\ list' = Shared(list, "char", "tmp")
        /\ at' = Shared(at, "char", "tmp") /\ heap' = [heap EXCEPT ![at["tmp"]] = FixAll(f)]
        /\ Return("ready")
    BY <1>3 DEF ShallowCopyBack, EachMatrix, FixChanges, FixAll, Ready
  <2> HIDE DEF f
  <2> QED BY <1>1, <2>1, <2>2, ShallowCopyCloses
<1>4. CASE pc = "refused" /\ Return("lost") /\ UNCHANGED <<cond, list, at, heap>>
  <2>1. Return("lost") /\ "lost" \in {"ready", "lost"} /\ "lost" # "ready"
    BY <1>4
  <2>2. /\ cond' \in [Owner -> Characteristic]
        /\ Updated(heap'[at'["kept"]], list'["kept"], cond'["kept"])
    BY <1>1, <1>4, BetweenUpdated, BetweenCharacteristics
  <2> QED BY <2>1, <2>2, ReturnCloses
<1> QED BY <1>3, <1>4 DEF SecondTried

\* The log of the evaluation leads back to what there was.
LEMMA EvaluatedCloses ==
    ASSUME PropInv, ReducedInv, ClosureInv, Evaluated PROVE ClosureInv'
<1>1. pc \in {"held", "refused"} /\ call.name = "evaluate" /\ call.name # "all"
  BY DEF Evaluated, Returned
<1> DEFINE f == UndoAll(heap[at["char"]])
<1>2. f \in StepMatrices /\ Updated(f, list["tmp"], cond["tmp"])
  <2>1. who = "char" /\ call.name \in Tries /\ Untouched = "tmp"
    BY <1>1, BetweenIs DEF Tries, Untouched
  <2> QED BY <1>1, <2>1, UndoneIsFaithful, BetweenUpdated
<1>3. /\ cond' = Shared(cond, "char", "tmp") /\ list' = Shared(list, "char", "tmp")
      /\ at' = Shared(at, "char", "tmp") /\ heap' = [heap EXCEPT ![at["tmp"]] = FixAll(f)]
      /\ Return("ready")
  BY DEF Evaluated, ShallowCopyBack, EachMatrix, FixChanges, FixAll, UndoAll, Ready
<1> HIDE DEF f
<1> QED BY <1>1, <1>2, <1>3, ShallowCopyCloses

\* The second choice is tried on what there was; if the first one held, it has a closure.
LEMMA OneTriedCloses ==
    ASSUME PropInv, ReducedInv, ClosureInv, OneTried PROVE ClosureInv'
<1> DEFINE f == UndoAll(heap[at["tmp"]])
           g == FixAll(f)
           b == guess.bit
           bc == guess.choices[2]
           a == cond["char"]
           l == list["char"]
           conds == [cond EXCEPT !["tmp"] = a]
           lists == [list EXCEPT !["tmp"] = l]
<1>1. /\ pc \in {"held", "refused"} /\ call.name = "try one" /\ guess' = guess
      /\ (results' <=> pc = "held") /\ call.name # "all" /\ call.name \in Tries
  BY DEF OneTried, Returned, Tries
<1>2. /\ heap' = [heap EXCEPT ![at["tmp"]] = g]
      /\ at' = [at EXCEPT !["tmp"] = at["char"]]
      /\ SetAndUpdate("try two", "tmp", TRUE, conds, lists, b, bc)
  BY DEF OneTried, EachMatrix, UndoAll, FixAll, FixChanges, TryOn, Shared
<1>3. who = "tmp" /\ Untouched = "char"
  BY <1>1, BetweenIs DEF Untouched
<1>4. at["char"] = at["tmp"] /\ f \in StepMatrices /\ Exact(f, a) /\ Updated(f, l, a)
  BY <1>1, <1>3, UndoneIsFaithful, BetweenUpdated
<1>5. /\ b \in Bit /\ bc \subseteq a[b] /\ bc # {} /\ guess.choices[1] # {}
      /\ call.cond = Trial("char", 1)
  BY <1>1 DEF PropInv, Narrows, ClosureInv, TrialsMean
<1>6. pc = "held" => ~ Contradictory(Reached(Trial("char", 1)))
  <2>1. pc = "held" => cond[who] = Reached(call.cond) /\ ~ Contradictory(cond[who])
    BY HeldIsUpdated
  <2> QED BY <1>5, <2>1
<1> HIDE DEF f
<1>7. g \in StepMatrices /\ Exact(g, a) /\ Updated(g, l, a) /\ Updated(UndoAll(g), l, a)
  <2> HIDE DEF a, l
  <2> QED BY <1>4, FixAllIs, FixAllUpdated
<1> HIDE DEF g
<1>8. heap'[at["tmp"]] = g /\ heap'[at["kept"]] = heap[at["kept"]]
  BY <1>2, BetweenIs
<1>9. at'["kept"] = at["kept"] /\ at'["tmp"] = at["tmp"]
  BY <1>2, <1>4, BetweenIs
<1>10. /\ conds \in [Owner -> Characteristic] /\ lists \in [Owner -> SUBSET Entries]
       /\ conds["kept"] = cond["kept"] /\ conds["char"] = a /\ conds["tmp"] = a
       /\ lists["kept"] = list["kept"] /\ lists["char"] = l /\ lists["tmp"] = l
  BY BetweenIs, BetweenCharacteristics
<1> HIDE DEF conds, lists
<1>11. /\ "try two" \in Names \ {"none", "all"} /\ "tmp" \in Owner /\ Other("tmp") = "char"
       /\ "tmp" = IF "try two" \in {"second", "try one", "try two"} THEN "tmp" ELSE "char"
  BY DEF Names, Owner, Other
<1>12. TrialsMean'
  <2>1. call'.name = "try two" /\ call'.cond = cond'["tmp"]
        /\ cond' = [conds EXCEPT !["tmp"][b] = bc]
    BY <1>2 DEF SetAndUpdate
  <2>2. cond'["tmp"] = [a EXCEPT ![b] = bc] /\ cond'["char"] = a
    BY <1>10, <1>11, <2>1, BetweenIs
  <2>3. /\ Trial("char", 2)' = SetBitCondition(a, b, bc)
        /\ Trial("char", 1)' = SetBitCondition(a, b, guess.choices[1])
        /\ Trial("char", 1) = SetBitCondition(a, b, guess.choices[1])
    BY <1>1, <2>2 DEF Trial
  <2>4. call'.cond = Trial("char", 2)'
    BY <2>1, <2>2, <2>3 DEF SetBitCondition
  <2>5. results' => ~ Contradictory(Reached(Trial("char", 1)'))
    BY <1>1, <1>6, <2>3
  <2> HIDE DEF bc, b, a
  <2>6. guess'.choices[1] # {} /\ guess'.choices[2] # {}
    BY <1>1, <1>5 DEF bc
  <2> QED BY <2>1, <2>4, <2>5, <2>6 DEF TrialsMean
<1>13. Updated(heap[at["kept"]], list["kept"], cond["kept"])
  BY <1>1, BetweenUpdated
<1>14. bc \subseteq conds["tmp"][b]
  BY <1>5, <1>10
<1> HIDE DEF a, l, b, bc
<1> QED BY <1>2, <1>5, <1>7, <1>8, <1>9, <1>10, <1>11, <1>12, <1>13, <1>14, CallCloses

\* What Complete keeps it has tried before: the closure of it has a value for every bit.
LEMMA TwoTriedCloses ==
    ASSUME PropInv, ReducedInv, ClosureInv, TwoTried PROVE ClosureInv'
<1> DEFINE g == UndoAll(heap[at["tmp"]])
<1>1. /\ pc \in {"held", "refused"} /\ call.name = "try two" /\ at' = at
      /\ call.name \in Tries /\ call.name # "all"
  BY DEF TwoTried, Returned, Tries
<1>2. heap' = [heap EXCEPT ![at["tmp"]] = g]
  BY DEF TwoTried, EachMatrix, UndoAll
<1>3. who = "tmp" /\ Untouched = "char"
  BY <1>1, BetweenIs DEF Untouched
<1>4. /\ at["char"] = at["tmp"] /\ g \in StepMatrices /\ Exact(g, cond["char"])
      /\ Updated(g, list["char"], cond["char"])
  BY <1>1, <1>3, UndoneIsFaithful, BetweenUpdated
<1> HIDE DEF g
<1>5. heap'[at["char"]] = g /\ heap'[at["kept"]] = heap[at["kept"]]
  BY <1>2, <1>4, BetweenIs
<1>6. Updated(heap[at["kept"]], list["kept"], cond["kept"])
  BY <1>1, BetweenUpdated
<1>7. cond \in [Owner -> Characteristic] /\ list \in [Owner -> SUBSET Entries] /\ "char" \in Owner
  BY BetweenIs, BetweenCharacteristics
<1>8. CASE Return("ready") /\ UNCHANGED <<cond, list>>
  <2>1. /\ Updated(heap'[at'["kept"]], list'["kept"], cond'["kept"])
        /\ Updated(heap'[at'["char"]], list'["char"], cond'["char"])
        /\ cond' \in [Owner -> Characteristic] /\ "ready" \in {"ready", "lost"}
    BY <1>1, <1>4, <1>5, <1>6, <1>7, <1>8
  <2> QED BY <1>8, <2>1, ReturnCloses
<1>9. CASE Return("lost") /\ UNCHANGED <<cond, list>>
  <2>1. /\ Updated(heap'[at'["kept"]], list'["kept"], cond'["kept"])
        /\ cond' \in [Owner -> Characteristic] /\ "lost" \in {"ready", "lost"} /\ "lost" # "ready"
    BY <1>1, <1>5, <1>6, <1>7, <1>9
  <2> QED BY <1>9, <2>1, ReturnCloses
<1>10. ASSUME NEW i \in {1, 2}, UNCHANGED <<guess, results>>,
              i = (IF results THEN 1 ELSE 2), results # (pc = "held"),
              SetAndUpdate("keep", "char", FALSE, cond, list, guess.bit, guess.choices[i])
       PROVE  ClosureInv'
  <2> DEFINE b == guess.bit
             bc == guess.choices[i]
  <2>1. b \in Bit /\ bc \subseteq cond["char"][b] /\ bc # {}
    <3>1. guess.choices[1] # {} /\ guess.choices[2] # {}
      BY <1>1 DEF ClosureInv, TrialsMean
    <3> QED BY <1>1, <3>1 DEF PropInv, Narrows
  <2>2. ~ Contradictory(Reached(Trial("char", i)))
    <3>1. CASE results
      BY <1>1, <1>10, <3>1 DEF ClosureInv, TrialsMean
    <3>2. CASE ~ results
      <4>1. pc = "held" /\ i = 2
        BY <1>1, <1>10, <3>2 DEF PropInv, Typed
      <4>2. cond[who] = Reached(call.cond) /\ ~ Contradictory(cond[who])
        BY <4>1, HeldIsUpdated
      <4>3. call.cond = Trial("char", 2)
        BY <1>1 DEF ClosureInv, TrialsMean
      <4> QED BY <4>1, <4>2, <4>3
    <3> QED BY <3>1, <3>2
  <2>3. SetAndUpdate("keep", "char", FALSE, cond, list, b, bc)
    BY <1>10
  <2>4. call'.name = "keep" /\ call'.cond = Trial("char", i)
    <3>1. cond' = [cond EXCEPT !["char"][b] = bc] /\ call'.cond = cond'["char"]
          /\ call'.name = "keep"
      BY <2>3 DEF SetAndUpdate
    <3>2. cond'["char"] = [cond["char"] EXCEPT ![b] = bc]
      BY <1>7, <3>1
    <3> QED BY <3>1, <3>2 DEF Trial, SetBitCondition
  <2>5. TrialsMean'
    BY <2>2, <2>4 DEF TrialsMean
  <2> HIDE DEF b, bc
  <2>6. /\ "keep" \in Names \ {"none", "all"} /\ "keep" \notin Tries
        /\ "char" = IF "keep" \in {"second", "try one", "try two"} THEN "tmp" ELSE "char"
    BY DEF Names, Tries
  <2>7. heap'[at'["char"]] = g /\ heap'[at'["kept"]] = heap[at["kept"]]
    BY <1>1, <1>5
  <2> QED BY <1>4, <1>6, <1>7, <2>1, <2>3, <2>5, <2>6, <2>7, CallCloses
<1>11. (IF results THEN 1 ELSE 2) \in {1, 2}
  OBVIOUS
<1> QED BY <1>8, <1>9, <1>10, <1>11 DEF TwoTried, Ready

\* It is not refused.
LEMMA ClosureKeeps == ASSUME ClosureInv PROVE KeepNeverFails
BY DEF ClosureInv, ClosureStays, TrialsMean, KeepNeverFails

\* Complete goes on.
LEMMA KeptCloses ==
    ASSUME PropInv, ReducedInv, ClosureInv, Kept PROVE ClosureInv'
<1>1. /\ pc \in {"held", "refused"} /\ call.name = "keep" /\ call.name # "all"
      /\ Return("ready") /\ cond' = cond /\ list' = list /\ at' = at /\ heap' = heap
  BY DEF Kept, Returned, Ready
<1>2. who = "char" /\ pc = "held"
  BY <1>1, BetweenIs, ClosureKeeps DEF KeepNeverFails
<1>3. /\ Updated(heap'[at'["kept"]], list'["kept"], cond'["kept"])
      /\ Updated(heap'[at'["char"]], list'["char"], cond'["char"])
      /\ cond' \in [Owner -> Characteristic] /\ "ready" \in {"ready", "lost"}
  BY <1>1, <1>2, BetweenUpdated, BetweenCharacteristics
<1> QED BY <1>1, <1>3, ReturnCloses

\* A guess from the stack was tried.
LEMMA BackTrackedCloses ==
    ASSUME PropInv, ReducedInv, ClosureInv, BackTracked PROVE ClosureInv'
<1> DEFINE place == IF pc = "held" THEN "ready" ELSE "lost"
<1>1. /\ pc \in {"held", "refused"} /\ call.name = "back" /\ call.name # "all"
      /\ Return(place) /\ cond' = cond /\ list' = list /\ at' = at /\ heap' = heap
  BY DEF BackTracked, Returned
<1>2. who = "char"
  BY <1>1, BetweenIs
<1>3. /\ Updated(heap'[at'["kept"]], list'["kept"], cond'["kept"])
      /\ place = "ready" => Updated(heap'[at'["char"]], list'["char"], cond'["char"])
      /\ cond' \in [Owner -> Characteristic] /\ place \in {"ready", "lost"}
  BY <1>1, <1>2, BetweenUpdated, BetweenCharacteristics
<1> HIDE DEF place
<1> QED BY <1>1, <1>3, ReturnCloses

\* The stack keeps a copy.
LEMMA KeepCloses ==
    ASSUME PropInv, ReducedInv, ClosureInv, Keep PROVE ClosureInv'
<1> DEFINE f == heap[at["char"]]
           g == FixAll(f)
<1>1. /\ pc = "ready" /\ pc' = pc /\ call' = call /\ guess' = guess /\ results' = results
      /\ equations' = equations /\ at' = at
      /\ cond' = Shared(cond, "kept", "char") /\ list' = Shared(list, "kept", "char")
      /\ heap' = [heap EXCEPT ![at["kept"]] = g]
  BY DEF Keep, EachMatrix, CopyOf, FixAll
<1>2. who = "char" /\ call.name = "none" /\ who' = who
  BY <1>1, BetweenIs DEF who
<1>3. f \in StepMatrices /\ Updated(f, list["char"], cond["char"])
  BY <1>1, <1>2, BetweenIs, BetweenUpdated
<1> HIDE DEF f
<1>4. Updated(g, list["char"], cond["char"])
  BY <1>3, FixAllUpdated
<1> HIDE DEF g
<1>5. heap'[at["kept"]] = g /\ heap'[at["char"]] = f
  BY <1>1, BetweenIs DEF f
<1>6. /\ cond' \in [Owner -> Characteristic]
      /\ cond'["kept"] = cond["char"] /\ cond'["char"] = cond["char"]
      /\ list'["kept"] = list["char"] /\ list'["char"] = list["char"]
  BY <1>1, BetweenIs, BetweenCharacteristics DEF Shared
<1>7. ~ Trying' /\ ~ (Running \/ pc = "held")' /\ pc' # "held" /\ pc' # "refused"
  BY <1>1 DEF Trying, Running
<1>8. EquationsEntered' /\ ClosureStays' /\ TrialsMean'
  BY <1>1, <1>2 DEF EquationsEntered, ClosureStays, TrialsMean
<1>9. /\ Updated(heap'[at'["kept"]], list'["kept"], cond'["kept"])
      /\ Updated(heap'[at'["char"]], list'["char"], cond'["char"])
  BY <1>1, <1>3, <1>4, <1>5, <1>6
<1>10. call'.cond \in Characteristic
  BY <1>1 DEF ClosureInv
<1> QED BY <1>6, <1>7, <1>8, <1>9, <1>10 DEF ClosureInv

\* The search goes back to the copy that is kept.
LEMMA RestartCloses ==
    ASSUME PropInv, ReducedInv, ClosureInv, Restart PROVE ClosureInv'
<1> DEFINE f == heap[at["kept"]]
           g == FixAll(f)
<1>1. /\ pc \in {"ready", "lost"} /\ Return("ready") /\ at' = at
      /\ cond' = Shared(cond, "char", "kept") /\ list' = Shared(list, "char", "kept")
      /\ heap' = [heap EXCEPT ![at["char"]] = g]
  BY DEF Restart, Ready, EachMatrix, CopyOf, FixAll
<1>2. f \in StepMatrices /\ Updated(f, list["kept"], cond["kept"])
  <2>1. call.name # "all"
    BY <1>1, BetweenIs
  <2> QED BY <2>1, BetweenIs, BetweenUpdated
<1> HIDE DEF f
<1>3. Updated(g, list["kept"], cond["kept"])
  BY <1>2, FixAllUpdated
<1> HIDE DEF g
<1>4. heap'[at["char"]] = g /\ heap'[at["kept"]] = f
  BY <1>1, BetweenIs DEF f
<1>5. /\ cond' \in [Owner -> Characteristic]
      /\ cond'["kept"] = cond["kept"] /\ cond'["char"] = cond["kept"]
      /\ list'["kept"] = list["kept"] /\ list'["char"] = list["kept"]
  BY <1>1, BetweenIs, BetweenCharacteristics DEF Shared
<1>6. /\ Updated(heap'[at'["kept"]], list'["kept"], cond'["kept"])
      /\ Updated(heap'[at'["char"]], list'["char"], cond'["char"])
      /\ "ready" \in {"ready", "lost"}
  BY <1>1, <1>2, <1>3, <1>4, <1>5
<1> QED BY <1>1, <1>5, <1>6, ReturnCloses

\* A choice is tried on a copy of what the stack keeps.
LEMMA BackTrackCloses ==
    ASSUME PropInv, ReducedInv, ClosureInv,
           NEW b \in Bit, NEW i \in {1, 2}, BackTrack(b, i)
    PROVE  ClosureInv'
<1> DEFINE f == heap[at["kept"]]
           g == FixAll(f)
           c == FreeCell
           old == cond["kept"][b]
           bc == CHOICES(old)[i]
           conds == [cond EXCEPT !["char"] = cond["kept"]]
           lists == [list EXCEPT !["char"] = list["kept"]]
<1>1. /\ pc \in {"ready", "lost"} /\ IsOpen(old)
      /\ at' = [at EXCEPT !["char"] = c] /\ heap' = [heap EXCEPT ![c] = g]
      /\ SetAndUpdate("back", "char", TRUE, conds, lists, b, bc)
  BY DEF BackTrack, EachMatrix, CopyOf, FixAll, Shared
<1>2. c \in Cell /\ c # at["kept"]
  <2>1. \E x \in Cell : x \notin {at["kept"], at["tmp"]}
    <3>1. 1 \in Cell /\ 2 \in Cell /\ 3 \in Cell
      BY DEF Cell
    <3> QED BY <3>1
  <2> QED BY <2>1 DEF FreeCell
<1>3. /\ f \in StepMatrices /\ Exact(f, cond["kept"])
      /\ Updated(f, list["kept"], cond["kept"])
  <2>1. call.name # "all"
    BY <1>1, BetweenIs
  <2> QED BY <2>1, BetweenIs, BetweenUpdated
<1>4. bc \subseteq old /\ bc # {}
  <2>1. old \in Condition
    BY BetweenIs
  <2> HIDE DEF old
  <2> QED BY <1>1, <2>1, ChoicesNarrow, ChoicesDivide
<1> HIDE DEF f, c, bc
<1>5. g \in StepMatrices /\ Exact(g, cond["kept"]) /\ Updated(g, list["kept"], cond["kept"])
  BY <1>3, FixAllIs, FixAllUpdated
<1> HIDE DEF g
<1>6. heap'[c] = g /\ heap'[at["kept"]] = f
  BY <1>1, <1>2, BetweenIs DEF f
<1>7. at'["kept"] = at["kept"] /\ at'["char"] = c
  BY <1>1, <1>2, BetweenIs
<1>8. /\ conds \in [Owner -> Characteristic] /\ lists \in [Owner -> SUBSET Entries]
      /\ conds["kept"] = cond["kept"] /\ conds["char"] = cond["kept"]
      /\ lists["kept"] = list["kept"] /\ lists["char"] = list["kept"]
  BY BetweenIs, BetweenCharacteristics
<1> HIDE DEF conds, lists
<1>9. /\ "back" \in Names \ {"none", "all"} /\ "back" \notin Tries /\ "char" \in Owner
      /\ "char" = IF "back" \in {"second", "try one", "try two"} THEN "tmp" ELSE "char"
  BY DEF Names, Tries, Owner
<1>10. TrialsMean'
  <2>1. call'.name = "back"
    BY <1>1 DEF SetAndUpdate
  <2> QED BY <2>1 DEF TrialsMean
<1>11. bc \subseteq conds["char"][b]
  BY <1>4, <1>8
<1> QED BY <1>1, <1>3, <1>4, <1>5, <1>6, <1>7, <1>8, <1>9, <1>10, <1>11, CallCloses

\* The search starts with copies of what the first Update has reached.
LEMMA SearchStartsCloses ==
    ASSUME PropInv, ReducedInv, ClosureInv, SearchStarts PROVE ClosureInv'
<1> DEFINE f == heap[at["char"]]
           g == FixAll(f)
<1>1. /\ pc = "held" /\ call.name = "all" /\ Return("ready") /\ at' = at
      /\ cond' = [x \in Owner |-> cond["char"]] /\ list' = [x \in Owner |-> list["char"]]
      /\ heap' = [x \in Cell |-> g]
  BY DEF SearchStarts, Returned, Ready, EachMatrix, CopyOf, FixAll
<1>2. who = "char"
  BY <1>1, BetweenIs
<1>3. f \in StepMatrices /\ Updated(f, list["char"], cond["char"])
  BY <1>1, <1>2, BetweenIs, BetweenUpdated
<1> HIDE DEF f
<1>4. Updated(g, list["char"], cond["char"])
  BY <1>3, FixAllUpdated
<1> HIDE DEF g
<1>5. /\ Updated(heap'[at'["kept"]], list'["kept"], cond'["kept"])
      /\ Updated(heap'[at'["char"]], list'["char"], cond'["char"])
      /\ cond' \in [Owner -> Characteristic] /\ "ready" \in {"ready", "lost"}
  BY <1>1, <1>4, BetweenIs, BetweenCharacteristics
<1> QED BY <1>1, <1>5, ReturnCloses

-----------------------------------------------------------------------------
(* Every step *)

\* All entries of a step are in the worklist that the main program starts with.
LEMMA AllEntriesWait ==
    ASSUME NEW l, l = UNION {StepsToUpdate(b) : b \in Bit},
           NEW s \in DOMAIN StepList, NEW p \in Places(s)
    PROVE  <<s, p>> \in l
<1> DEFINE e == <<s, p>>
<1>1. e \in Entries /\ e[1] = s /\ e[2] = p
  BY DEF Entries
<1>2. CASE s \in LinearSteps
  <2>1. StepList[s].bits[p + 1] \in Bit
    BY <1>2, PlacesAre
  <2>2. e \in StepsToUpdate(StepList[s].bits[p + 1])
    BY <1>1, <1>2 DEF StepsToUpdate
  <2> QED BY <2>1, <2>2
<1>3. CASE s \notin LinearSteps
  <2>1. PICK b \in Bit : b \in StepList[s].bits
    BY <1>3, BitsliceIs
  <2>2. e \in StepsToUpdate(b)
    BY <1>1, <1>3, <2>1 DEF StepsToUpdate
  <2> QED BY <2>2
<1> QED BY <1>2, <1>3

\* A new matrix has no rows but those that are to be looked at.
LEMMA NewMatrixIsMarked ==
    ASSUME NEW s \in LinearSteps
    PROVE  DOMAIN NewMatrices[s].data \ NewMatrices[s].extract = {}
<1> DEFINE m == InitialMatrix(StepList[s].inputs, StepList[s].outputs, StepList[s].depends)
           rows == 0..(2 * StepList[s].outputs - 1)
<1>1. NewMatrices[s] = m
  BY DEF NewMatrices
<1>2. DOMAIN m.data = rows /\ m.extract = rows
  BY DEF InitialMatrix
<1> HIDE DEF m, rows
<1> QED BY <1>1, <1>2

\* Everything waits when the main program starts.
LEMMA InitCloses == ASSUME Init PROVE ClosureInv
<1> DEFINE l == UNION {StepsToUpdate(b) : b \in Bit}
<1>1. /\ cond = [x \in Owner |-> Start] /\ list = [x \in Owner |-> l]
      /\ heap = [c \in Cell |-> NewMatrices] /\ pc = "update"
      /\ call = [name |-> "all", who |-> "char", log |-> FALSE, cond |-> Start]
  BY DEF Init
<1>2. PropInv
  BY InitHolds
<1>3. Start \in Characteristic /\ ~ Contradictory(Start)
  BY StartType, StartIsChecked
<1>4. Below(Reached(Start), Start) /\ Below(Start, Start)
  BY <1>3, ReachedType, BelowIsOrder
<1>5. who = "char" /\ "char" \in Owner
  BY <1>1 DEF who, Owner
<1>6. cond[who] = Start /\ list[who] = l
  BY <1>1, <1>5
<1>7. heap[at[who]] = NewMatrices
  BY <1>1, <1>2, WhoIs
<1>8. WorkWaits(NewMatrices, l, Start)
  <2>1. SUFFICES ASSUME NEW s \in DOMAIN StepList
                 PROVE  IF s \in LinearSteps THEN LinearWaits(NewMatrices[s], s, l, Start)
                        ELSE BitsliceWaits(s, l, Start)
    BY DEF WorkWaits
  <2>2. Through(s, l) = {}
    BY AllEntriesWait DEF Through
  <2> HIDE DEF l
  <2>3. CASE s \in LinearSteps
    <3>1. Places(s) # {}
      <4>1. Len(StepList[s].bits) \in Nat /\ Len(StepList[s].bits) >= 1
            /\ Places(s) = 0..(Len(StepList[s].bits) - 1)
        BY <2>3, PlacesAre
      <4>2. 0 \in Places(s)
        BY <4>1
      <4> QED BY <4>2
    <3>2. Entered(NewMatrices[s], s, Through(s, l), Start)
      BY <2>2 DEF Entered
    <3>3. RowsKnown(NewMatrices[s], s, DOMAIN NewMatrices[s].data \ NewMatrices[s].extract, Start)
      BY <2>3, NewMatrixIsMarked DEF RowsKnown
    <3> QED BY <2>2, <2>3, <3>1, <3>2, <3>3 DEF LinearWaits
  <2>4. CASE s \notin LinearSteps
    <3>1. 0 \in Places(s) /\ 0 \notin Through(s, l)
      BY <2>2, <2>4, BitsliceIs
    <3>2. <<s, 0>> \in l
      BY <3>1 DEF Through
    <3> QED BY <2>4, <3>2 DEF BitsliceWaits
  <2> QED BY <2>3, <2>4
<1> HIDE DEF l
<1>9. ~ Trying /\ call.name = "all" /\ call.cond = Start
  BY <1>1 DEF Trying
<1>10. cond \in [Owner -> Characteristic]
  BY <1>1, <1>3
<1>11. EquationsEntered /\ TrialsMean
  BY <1>1 DEF EquationsEntered, TrialsMean
<1>12. ClosureStays
  BY <1>1, <1>4, <1>6, <1>9 DEF ClosureStays
<1> QED BY <1>1, <1>3, <1>6, <1>7, <1>8, <1>9, <1>10, <1>11, <1>12 DEF ClosureInv

\* No step breaks the invariant.
LEMMA StepCloses ==
    ASSUME PropInv, ReducedInv, ClosureInv, [Next]_vars
    PROVE  ClosureInv'
<1>1. CASE UpdateStep
  BY <1>1, UpdateStepCloses
<1>2. CASE \E b \in Bit : \/ \E i \in {1, 2} : \/ GuessBit("first", b, i)
                                               \/ GuessBit("evaluate", b, i)
                                               \/ BackTrack(b, i)
                          \/ CompleteBit(b)
  BY <1>2, GuessBitCloses, BackTrackCloses, CompleteBitCloses
<1>3. CASE FirstTried \/ SecondTried \/ Evaluated \/ OneTried \/ TwoTried \/ Kept
  BY <1>3, FirstTriedCloses, SecondTriedCloses, EvaluatedCloses, OneTriedCloses,
     TwoTriedCloses, KeptCloses
<1>4. CASE SearchStarts \/ Keep \/ Restart \/ BackTracked
  BY <1>4, SearchStartsCloses, KeepCloses, RestartCloses, BackTrackedCloses
<1>5. CASE UNCHANGED vars
  <2>1. /\ cond' = cond /\ list' = list /\ at' = at /\ heap' = heap /\ pc' = pc /\ call' = call
        /\ guess' = guess /\ results' = results /\ equations' = equations
    BY <1>5 DEF vars
  <2>2. who' = who
    BY <2>1 DEF who
  <2>3. Entry' = Entry
    BY <2>1, <2>2 DEF Entry
  <2>4. Matrix' = Matrix
    BY <2>1, <2>2, <2>3 DEF Matrix
  <2>5. (Trying' <=> Trying) /\ Untouched' = Untouched /\ (Running' <=> Running)
    BY <2>1, <2>2 DEF Trying, Untouched, Running
  <2>6. EquationsEntered'
    BY <2>1, <2>2, <2>3, <2>4 DEF ClosureInv, EquationsEntered
  <2>7. ClosureStays'
    BY <2>1, <2>2 DEF ClosureInv, ClosureStays
  <2>8. TrialsMean'
    BY <2>1 DEF ClosureInv, TrialsMean, Trial
  <2> QED BY <2>1, <2>2, <2>5, <2>6, <2>7, <2>8 DEF ClosureInv
<1> QED BY <1>1, <1>2, <1>3, <1>4, <1>5 DEF Next

\* If no bit of a linear step starts with more than two pairs, none ever has three.
LEMMA LinearFollows == ASSUME StartIsLinear, ClosureInv PROVE ConditionsAreLinear
<1>1. SUFFICES ASSUME NEW x \in Owner, NEW s \in LinearSteps, NEW b \in BitsOf(StepList[s]),
                      NEW v \in Pair, cond[x][b] = Pair \ {v}
               PROVE  FALSE
  BY DEF ConditionsAreLinear, IsLinear
<1>2. b \in Bit
  BY BitsliceIs DEF LinearSteps
<1>3. cond[x] \in Characteristic
  BY DEF ClosureInv
<1>4. cond[x][b] \subseteq Start[b]
  BY <1>2, <1>3, CharacteristicType
<1> QED BY <1>1, <1>4 DEF StartIsLinear

(***************************************************************************)
(* What Update has still to do is in the worklist, and it takes away only  *)
(* what the steps forbid of the conditions it was called with; so it is    *)
(* for every characteristic that is kept, shared or copied.                *)
(***************************************************************************)
THEOREM ClosureInvariant == Spec => []PropagationInv
<1>1. Init => PropagationInv
  BY InitHolds, InitReduced, InitCloses DEF PropagationInv
<1>2. PropagationInv /\ [Next]_vars => PropagationInv'
  BY StepKeeps, ClosureKeeps, StepReduces, StepCloses DEF PropagationInv
<1> QED BY <1>1, <1>2, PTL DEF Spec

(***************************************************************************)
(* What Update reaches does not depend on the order of the worklist, on    *)
(* the rows of the matrices and on who has used them before: it is the     *)
(* largest characteristic that no step narrows.                            *)
(***************************************************************************)
THEOREM UpdateReachesOne == Spec => []UpdateIsReached
<1>1. PropInv /\ ReducedInv /\ ClosureInv => UpdateIsReached
  BY HeldIsUpdated DEF UpdateIsReached, ClosureInv, ClosureStays
<1> QED BY <1>1, ClosureInvariant, PTL DEF PropagationInv

(***************************************************************************)
(* What Complete keeps, a choice that held on the other characteristic,    *)
(* never fails: what holds depends on the conditions alone.                *)
(***************************************************************************)
THEOREM CompleteKeepsOnlyWhatHolds == Spec => []KeepNeverFails
<1>1. ClosureInv => KeepNeverFails
  BY ClosureKeeps
<1> QED BY <1>1, ClosureInvariant, PTL DEF PropagationInv

(***************************************************************************)
(* Between two equations the matrices that are worked with, kept, or led   *)
(* back to by a log are in reduced form; while one is eliminated, all but  *)
(* the rows that are marked.                                               *)
(***************************************************************************)
THEOREM ReducedInvariant == Spec => []ReducedInv
BY ClosureInvariant, PTL DEF PropagationInv

(***************************************************************************)
(* The assertions of DEBUG_LINEARMATRIX hold before and after every        *)
(* equation: reduced row echelon form, stored pivots and positions that    *)
(* are right, and no row that waits.                                       *)
(***************************************************************************)
THEOREM MatricesAreReduced == Spec => []MatrixIsReduced
<1>1. PropInv /\ ReducedInv => MatrixIsReduced
  BY ReducedMatrices
<1> QED BY <1>1, ClosureInvariant, PTL DEF PropagationInv

(***************************************************************************)
(* Wherever an Update that tries a guess stops, Undo makes of the shared   *)
(* matrices what the other characteristic needs: reduced matrices that fit *)
(* its conditions, which know nothing of the guess.                        *)
(***************************************************************************)
THEOREM UndoAlwaysRestores == Spec => []UndoRestores
<1>1. PropInv /\ ReducedInv => UndoRestores
  BY ReducedUndo
<1> QED BY <1>1, ClosureInvariant, PTL DEF PropagationInv

\* If all conditions of linear steps have equations, what is reached is the closure.
LEMMA ReachedIsClosure ==
    ASSUME PropInv, ReducedInv, ClosureInv, ConditionsAreLinear
    PROVE  UpdateIsClosure
<1> DEFINE c == cond[who]
           u == Update(call.cond)
<1>1. call.cond \in Characteristic /\ c \in Characteristic /\ who \in Owner
  BY WhoIs DEF ClosureInv
<1>2. u \in Characteristic /\ Below(u, Reached(call.cond))
  BY <1>1, UpdateType, ClosureBelowReached
<1> HIDE DEF u, c
<1>3. ASSUME pc = "held" PROVE c = u
  <2>1. c = Reached(call.cond) /\ Below(c, call.cond)
    BY <1>3, HeldIsUpdated DEF ClosureInv, ClosureStays, c
  <2>2. Closed(c)
    BY <1>1, <2>1, ReachedIsClosed DEF ClosedOnes
  <2>3. \A s \in LinearSteps : \A b \in BitsOf(StepList[s]) : IsLinear(c[b])
    BY <1>1 DEF ConditionsAreLinear, c
  <2>4. c \in Fixpoints
    BY <1>1, <2>2, <2>3, ClosedIsPropagated
  <2>5. Below(c, u)
    BY <1>1, <2>1, <2>4, UpdateIsLargest DEF u
  <2> QED BY <1>1, <1>2, <2>1, <2>5, BelowIsOrder
<1>4. ASSUME pc = "refused" PROVE Contradictory(u)
  <2>1. Contradictory(Reached(call.cond))
    BY <1>4 DEF ClosureInv, ClosureStays
  <2> QED BY <1>2, <2>1, ContradictionBelow
<1> QED BY <1>3, <1>4 DEF UpdateIsClosure, c, u

(***************************************************************************)
(* What Update reaches is what the conditions and the relations alone      *)
(* determine, the closure of module Search, wherever the conditions of the *)
(* bits of linear steps have equations.                                    *)
(***************************************************************************)
THEOREM UpdateReachesClosure == Spec => [](ConditionsAreLinear => UpdateIsClosure)
<1>1. PropInv /\ ReducedInv /\ ClosureInv => (ConditionsAreLinear => UpdateIsClosure)
  BY ReachedIsClosure
<1> QED BY <1>1, ClosureInvariant, PTL DEF PropagationInv

(***************************************************************************)
(* If no bit of a linear step starts with more than two pairs, none ever   *)
(* has three: every Update reaches the closure.                            *)
(***************************************************************************)
THEOREM LinearStartSuffices ==
    ASSUME StartIsLinear
    PROVE  Spec => [](ConditionsAreLinear /\ UpdateIsClosure)
<1>1. PropInv /\ ReducedInv /\ ClosureInv => ConditionsAreLinear /\ UpdateIsClosure
  BY LinearFollows, ReachedIsClosure
<1> QED BY <1>1, ClosureInvariant, PTL DEF PropagationInv

=============================================================================
