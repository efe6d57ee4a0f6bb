-------------------------- MODULE RefinementProofs --------------------------
(***************************************************************************)
(* The search implements DecisionStack: a proof for every set of bits and  *)
(* bitslices, every frequency of snapshots and every configuration whose   *)
(* completeness checks have nothing to decide.                             *)
(***************************************************************************)
EXTENDS SolutionProofs, SearchRefinement, FoldLemmas

-----------------------------------------------------------------------------
(* The decisions of a stack *)

\* The operators of the abstract specification that it shares with the search.
LEMMA SameOperators ==
    /\ \A c : Decisions!Update(c) = Update(c)
    /\ \A c : Decisions!Contradictory(c) = Contradictory(c)
    /\ Decisions!Condition = Condition /\ Decisions!Contradiction = Contradiction
<1>1. /\ Decisions!Condition = Condition /\ Decisions!Contradiction = Contradiction
      /\ Decisions!Pair = Pair
  BY DEF Decisions!Condition, Condition, Decisions!Contradiction, Contradiction,
         Decisions!Pair, Pair
<1>2. ASSUME NEW c PROVE Decisions!Contradictory(c) = Contradictory(c)
  BY <1>1 DEF Decisions!Contradictory, Contradictory
<1>3. Decisions!Characteristic = Characteristic
  BY <1>1 DEF Decisions!Characteristic, Characteristic
<1>4. Decisions!Fixpoints = Fixpoints
  BY <1>3 DEF Decisions!Fixpoints, Fixpoints, Decisions!Propagated, Propagated,
              Decisions!Combinations, Combinations
<1>5. Decisions!Closure = Closure
  BY <1>3, <1>4 DEF Decisions!Closure, Closure, Decisions!Below, Below
<1> QED BY <1>1, <1>2, <1>5 DEF Decisions!Update, Update

\* A decision for some of the pairs that the start has.
Narrowing == {d \in Decisions!Decision : d.taken \cup d.other \subseteq Start[d.pos]}

\* The decisions of an element are a sequence of its length.
LEMMA DecisionsType ==
    ASSUME NEW el \in StackElement
    PROVE  /\ DecisionsOf(el) \in Seq(Narrowing)
           /\ Len(DecisionsOf(el)) = Len(el.guesses)
           /\ el.guesses = <<>> => DecisionsOf(el) = <<>>
<1>1. el.guesses \in Seq(Guess) /\ el.phase \in Nat
  BY PhaseNumbers DEF StackElement
<1>2. DOMAIN el.guesses = 1..Len(el.guesses) /\ Len(el.guesses) \in Nat
  BY <1>1, LenProperties
<1>3. ASSUME NEW j \in DOMAIN el.guesses
      PROVE  DecisionOf(el.guesses[j], el.phase) \in Narrowing
  <2>1. el.guesses[j] \in Guess
    BY GuessType
  <2> QED BY <1>1, <2>1, SameOperators DEF Guess, DecisionOf, Narrowing, Decisions!Decision
<1>4. DecisionsOf(el) \in [1..Len(el.guesses) -> Narrowing]
  BY <1>2, <1>3 DEF DecisionsOf
<1>5. DecisionsOf(el) \in Seq(Narrowing)
  BY <1>2, <1>4
<1>6. Len(DecisionsOf(el)) = Len(el.guesses)
  BY <1>2, <1>4, <1>5, LenProperties
<1>7. ASSUME el.guesses = <<>> PROVE DecisionsOf(el) = <<>>
  <2>1. Len(DecisionsOf(el)) = 0
    BY <1>6, <1>7
  <2> QED BY <1>5, <2>1, EmptySeq
<1> QED BY <1>5, <1>6, <1>7

\* One element more: its decisions come behind those of the others.
LEMMA BeforeNext ==
    ASSUME NEW st \in Seq(StackElement), NEW n \in 1..Len(st)
    PROVE  Before(st, n) = Before(st, n - 1) \o DecisionsOf(st[n])
<1> DEFINE ss == [i \in 1..n |-> DecisionsOf(st[i])]
           tt == [i \in 1..(n - 1) |-> DecisionsOf(st[i])]
<1>1. n \in Nat \ {0} /\ Len(ss) = n /\ st[n] \in StackElement
  BY LenProperties, ElementOfSeq
<1>2. PICK f : f = Flat(ss, n, f) /\ FlattenSeq(ss) = f[n]
  BY <1>1, FlattenIs
<1>3. f[n] = IF n = 1 THEN DecisionsOf(st[n]) ELSE f[n - 1] \o DecisionsOf(st[n])
  <2>1. n \in 1..n /\ ss[n] = DecisionsOf(st[n])
    BY <1>1
  <2> HIDE DEF ss
  <2>2. f[n] = IF n = 1 THEN ss[n] ELSE f[n - 1] \o ss[n]
    BY <1>2, <2>1 DEF Flat
  <2> QED BY <2>1, <2>2
<1>4. CASE n = 1
  <2>1. tt = <<>>
    BY <1>4
  <2>2. Before(st, n - 1) = <<>>
    BY <2>1 DEF Before, FlattenSeq
  <2>3. <<>> \o DecisionsOf(st[n]) = DecisionsOf(st[n])
    BY <1>1, DecisionsType, ConcatEmptySeq
  <2> QED BY <1>2, <1>3, <1>4, <2>2, <2>3 DEF Before
<1>5. CASE n # 1
  <2>1. n - 1 \in Nat \ {0} /\ Len(tt) = n - 1 /\ n - 1 <= n
    BY <1>1, <1>5
  <2>2. PICK g : g = Flat(tt, n - 1, g) /\ FlattenSeq(tt) = g[n - 1]
    BY <2>1, FlattenIs
  <2>3. \A i \in 1..(n - 1) : tt[i] = ss[i]
    BY <1>1
  <2>4. n - 1 \in 1..(n - 1)
    BY <2>1
  <2> HIDE DEF tt, ss
  <2>5. \A i \in 1..(n - 1) : g[i] = f[i]
    BY <1>1, <1>2, <2>1, <2>2, <2>3, FlatAgrees
  <2>6. FlattenSeq(tt) = f[n - 1]
    BY <2>2, <2>4, <2>5
  <2> QED BY <1>2, <1>3, <1>5, <2>6 DEF Before, ss, tt
<1> QED BY <1>4, <1>5

\* No element, no decision.
LEMMA BeforeNone ==
    ASSUME NEW st
    PROVE  Before(st, 0) = <<>>
<1>1. [i \in 1..0 |-> DecisionsOf(st[i])] = <<>>
  OBVIOUS
<1> QED BY <1>1 DEF Before, FlattenSeq

\* The decisions of the first elements are a sequence of decisions.
LEMMA BeforeType ==
    ASSUME NEW st \in Seq(StackElement), NEW n \in 0..Len(st)
    PROVE  Before(st, n) \in Seq(Narrowing)
<1> DEFINE T == {k \in 0..Len(st) : Before(st, k) \notin Seq(Narrowing)}
<1>1. SUFFICES ASSUME T # {} PROVE FALSE
  OBVIOUS
<1>2. T \in SUBSET Nat
  BY LenProperties
<1>3. PICK k \in T : \A i \in T : k <= i
  <2> HIDE DEF T
  <2> QED BY <1>1, <1>2, LeastIndex
<1>4. k \in 0..Len(st) /\ Len(st) \in Nat /\ Before(st, k) \notin Seq(Narrowing)
  BY LenProperties
<1>5. CASE k = 0
  <2>1. <<>> \in Seq(Narrowing)
    OBVIOUS
  <2> QED BY <1>4, <1>5, <2>1, BeforeNone
<1>6. CASE k # 0
  <2>1. k \in 1..Len(st) /\ k - 1 \in 0..Len(st) /\ ~ (k <= k - 1)
    BY <1>4, <1>6
  <2>2. Before(st, k - 1) \in Seq(Narrowing)
    BY <1>3, <2>1
  <2>3. DecisionsOf(st[k]) \in Seq(Narrowing)
    BY <2>1, DecisionsType, ElementOfSeq
  <2>4. Before(st, k) = Before(st, k - 1) \o DecisionsOf(st[k])
    BY <2>1, BeforeNext
  <2> QED BY <1>4, <2>2, <2>3, <2>4, ConcatProperties
<1> QED BY <1>5, <1>6

\* Stacks that begin with the same elements begin with the same decisions.
LEMMA BeforeSame ==
    ASSUME NEW st, NEW tt, NEW n \in Nat, \A i \in 1..n : st[i] = tt[i]
    PROVE  Before(st, n) = Before(tt, n)
BY DEF Before

-----------------------------------------------------------------------------
(* What decisions make of the start *)

\* The characteristic before its propagation.
Made(t) == [b \in Bit |-> Decisions!Decided(t, b)]

\* i is the last place of b in a sequence.
LastPlace(t, b, i) ==
    i \in DOMAIN t /\ t[i].pos = b /\ \A j \in DOMAIN t : j > i => t[j].pos # b

\* A bit that is decided has a last decision.
LEMMA HasLastPlace ==
    ASSUME NEW S, NEW t \in Seq(S), NEW b, \E i \in DOMAIN t : t[i].pos = b
    PROVE  \E i : LastPlace(t, b, i)
<1> DEFINE T == {i \in DOMAIN t : t[i].pos = b}
<1>1. DOMAIN t = 1..Len(t) /\ Len(t) \in Nat
  BY LenProperties
<1>2. T \in SUBSET (1..Len(t)) /\ T # {}
  BY <1>1
<1>3. PICK m \in T : \A k \in T : k <= m
  <2> HIDE DEF T
  <2> QED BY <1>1, <1>2, LastIndex
<1>4. \A j \in DOMAIN t : j > m => t[j].pos # b
  BY <1>1, <1>3
<1> QED BY <1>3, <1>4 DEF LastPlace

\* That one decides; without it the bit has the condition of the start.
LEMMA DecidedValue ==
    ASSUME NEW S, NEW t \in Seq(S), NEW b \in Bit
    PROVE  /\ \A i : LastPlace(t, b, i) => Made(t)[b] = t[i].taken
           /\ (\A i \in DOMAIN t : t[i].pos # b) => Made(t)[b] = Start[b]
<1> DEFINE at == {i \in DOMAIN t : t[i].pos = b}
           last == CHOOSE i \in at : \A j \in at : j <= i
<1>1. Made(t)[b] = IF at = {} THEN Start[b] ELSE t[last].taken
  BY DEF Made, Decisions!Decided
<1>2. DOMAIN t = 1..Len(t) /\ Len(t) \in Nat
  BY LenProperties
<1>3. ASSUME NEW i, LastPlace(t, b, i) PROVE Made(t)[b] = t[i].taken
  <2>1. i \in at /\ \A j \in at : j <= i
    BY <1>2, <1>3 DEF LastPlace
  <2>2. \A k \in at : (\A j \in at : j <= k) => k = i
    BY <1>2, <2>1
  <2>3. last = i
    <3> HIDE DEF at
    <3> QED BY <2>1, <2>2
  <2> HIDE DEF last
  <2> QED BY <1>1, <2>1, <2>3
<1> QED BY <1>1, <1>3

\* Decisions for pairs of the start make a characteristic.
LEMMA MadeType ==
    ASSUME NEW t \in Seq(Narrowing)
    PROVE  Made(t) \in Characteristic
<1>1. ASSUME NEW b \in Bit PROVE Made(t)[b] \in Condition /\ Made(t)[b] \subseteq Start[b]
  <2>1. CASE \E i \in DOMAIN t : t[i].pos = b
    <3>1. PICK i : LastPlace(t, b, i)
      BY <2>1, HasLastPlace
    <3>2. t[i] \in Narrowing /\ t[i].pos = b
      BY <3>1, ElementOfSeq, LenProperties DEF LastPlace
    <3> QED BY <3>1, <3>2, DecidedValue, SameOperators DEF Narrowing, Decisions!Decision
  <2>2. CASE \A i \in DOMAIN t : t[i].pos # b
    BY <2>2, DecidedValue, StartAssumption
  <2> QED BY <2>1, <2>2
<1>2. Made(t) \in [Bit -> Condition]
  BY <1>1 DEF Made
<1> QED BY <1>1, <1>2, CharacteristicType

\* Without a decision it is the start.
LEMMA MadeNone == Made(<<>>) = Start
<1>1. ASSUME NEW b \in Bit PROVE Made(<<>>)[b] = Start[b]
  <2>1. <<>> \in Seq(Narrowing) /\ \A i \in DOMAIN <<>> : <<>>[i].pos # b
    OBVIOUS
  <2> QED BY <2>1, DecidedValue
<1>2. Made(<<>>) \in Characteristic
  <2>1. <<>> \in Seq(Narrowing)
    OBVIOUS
  <2> QED BY <2>1, MadeType
<1> QED BY <1>1, <1>2, CharacteristicType, StartAssumption

\* What comes later decides; what comes before it is left for the other bits.
LEMMA MadeConcat ==
    ASSUME NEW t \in Seq(Narrowing), NEW ds \in Seq(Narrowing), NEW b \in Bit
    PROVE  /\ \A i : LastPlace(ds, b, i) => Made(t \o ds)[b] = ds[i].taken
           /\ (\A i \in DOMAIN ds : ds[i].pos # b) => Made(t \o ds)[b] = Made(t)[b]
<1> DEFINE n == Len(t)
           m == Len(ds)
           c == t \o ds
<1>1. /\ n \in Nat /\ m \in Nat /\ DOMAIN t = 1..n /\ DOMAIN ds = 1..m
      /\ c \in Seq(Narrowing) /\ Len(c) = n + m /\ DOMAIN c = 1..(n + m)
      /\ \A i \in 1..(n + m) : c[i] = IF i <= n THEN t[i] ELSE ds[i - n]
  BY ConcatProperties, LenProperties
<1> HIDE DEF n, m, c
<1>2. \A i \in 1..m : i + n \in 1..(n + m) /\ ~ (i + n <= n) /\ (i + n) - n = i
  BY <1>1
<1>3. \A i \in 1..(n + m) : i > n => i - n \in 1..m
  BY <1>1
<1>4. ASSUME NEW i, LastPlace(ds, b, i) PROVE Made(c)[b] = ds[i].taken
  <2>1. i \in 1..m /\ ds[i].pos = b /\ c[i + n] = ds[i] /\ i + n \in 1..(n + m)
    BY <1>1, <1>2, <1>4 DEF LastPlace
  <2>2. ASSUME NEW j \in 1..(n + m), j > i + n PROVE c[j].pos # b
    <3>1. j > n /\ j - n \in 1..m /\ j - n > i /\ ~ (j <= n)
      BY <1>1, <1>3, <2>1, <2>2
    <3> QED BY <1>1, <1>4, <3>1 DEF LastPlace
  <2>3. LastPlace(c, b, i + n)
    BY <1>1, <2>1, <2>2 DEF LastPlace
  <2> QED BY <1>1, <2>1, <2>3, DecidedValue
<1>5. ASSUME \A i \in DOMAIN ds : ds[i].pos # b PROVE Made(c)[b] = Made(t)[b]
  <2>1. \A j \in 1..(n + m) : j > n => c[j].pos # b
    BY <1>1, <1>3, <1>5
  <2>2. \A j \in 1..n : j \in 1..(n + m) /\ c[j] = t[j]
    BY <1>1
  <2>3. CASE \E i \in DOMAIN t : t[i].pos = b
    <3>1. PICK i : LastPlace(t, b, i)
      BY <2>3, HasLastPlace
    <3>2. ASSUME NEW j \in 1..(n + m), j > i PROVE c[j].pos # b
      <4>1. CASE j > n
        BY <2>1, <4>1
      <4>2. CASE j \in 1..n
        BY <1>1, <2>2, <3>1, <3>2, <4>2 DEF LastPlace
      <4> QED BY <1>1, <4>1, <4>2
    <3>3. LastPlace(c, b, i) /\ c[i] = t[i]
      BY <1>1, <2>2, <3>1, <3>2 DEF LastPlace
    <3> QED BY <1>1, <3>1, <3>3, DecidedValue
  <2>4. CASE \A i \in DOMAIN t : t[i].pos # b
    <3>1. \A j \in 1..(n + m) : c[j].pos # b
      <4>1. \A j \in 1..(n + m) : j > n \/ j \in 1..n
        BY <1>1
      <4> QED BY <1>1, <2>1, <2>2, <2>4, <4>1
    <3> QED BY <1>1, <2>4, <3>1, DecidedValue
  <2> QED BY <2>3, <2>4
<1> QED BY <1>4, <1>5 DEF c

\* One decision more sets the condition of its bit.
LEMMA MadeAppend ==
    ASSUME NEW t \in Seq(Narrowing), NEW d \in Narrowing
    PROVE  Made(Append(t, d)) = SetBitCondition(Made(t), d.pos, d.taken)
<1> DEFINE one == <<d>>
<1>1. /\ one \in Seq(Narrowing) /\ Append(t, d) = t \o one
      /\ DOMAIN one = {1} /\ one[1] = d
  BY AppendIsConcat
<1> HIDE DEF one
<1>2. d.pos \in Bit
  BY DEF Narrowing, Decisions!Decision
<1>3. LastPlace(one, d.pos, 1)
  BY <1>1 DEF LastPlace
<1>4. Made(t \o one)[d.pos] = d.taken
  BY <1>1, <1>2, <1>3, MadeConcat
<1>5. ASSUME NEW b \in Bit, b # d.pos PROVE Made(t \o one)[b] = Made(t)[b]
  <2>1. \A i \in DOMAIN one : one[i].pos # b
    BY <1>1, <1>5
  <2> QED BY <1>1, <2>1, MadeConcat
<1>6. Append(t, d) \in Seq(Narrowing)
  BY AppendProperties
<1>7. Made(t) \in [Bit -> Condition] /\ Made(Append(t, d)) \in [Bit -> Condition]
  BY <1>6, MadeType, CharacteristicType
<1> QED BY <1>1, <1>2, <1>4, <1>5, <1>7 DEF SetBitCondition

\* What a trail stands for.
LEMMA StateIs == \A t : Decisions!State(t) = Update(Made(t))
BY SameOperators DEF Decisions!State, Made

-----------------------------------------------------------------------------
(* Snapshots and what is repeated on them *)

(***************************************************************************)
(* Between a characteristic and what Update makes of it nothing is lost:   *)
(* propagation from there, also after a further choice, reaches the same.  *)
(***************************************************************************)
LEMMA BetweenUpdates ==
    ASSUME NEW c \in Characteristic, NEW d \in Characteristic,
           Below(c, d), Below(Update(d), c)
    PROVE  /\ Update(c) = Update(d)
           /\ \A b \in Bit : \A x \in SUBSET c[b] : Choose(c, b, x) = Choose(d, b, x)
<1>1. ASSUME NEW e \in Characteristic, NEW f \in Characteristic,
             Below(e, f), Below(Update(f), e)
      PROVE  Update(e) = Update(f)
  <2>1. Update(e) \in Characteristic /\ Update(f) \in Characteristic
    BY UpdateType
  <2>2. Below(Update(e), Update(f))
    BY <1>1, UpdateMonotone
  <2>3. Below(Update(Update(f)), Update(e))
    BY <1>1, <2>1, UpdateMonotone
  <2>4. Below(Update(f), Update(e))
    BY <2>3, UpdateIdempotent
  <2> QED BY <2>1, <2>2, <2>4, BelowIsOrder
<1>2. ASSUME NEW b \in Bit, NEW x \in SUBSET c[b]
      PROVE  Choose(c, b, x) = Choose(d, b, x)
  <2> DEFINE e == SetBitCondition(c, b, x)
             f == SetBitCondition(d, b, x)
  <2>1. /\ x \subseteq Start[b] /\ x \subseteq d[b]
        /\ c \in [Bit -> Condition] /\ d \in [Bit -> Condition]
    BY CharacteristicType DEF Below
  <2>2. e \in Characteristic /\ f \in Characteristic
    BY <2>1, SetType
  <2>3. Below(e, f) /\ Below(f, d)
    BY <2>1, SetBelow, BelowIsOrder
  <2>4. Update(f) \in Characteristic /\ Below(Update(f), f) /\ Below(Update(f), Update(d))
    BY <2>2, <2>3, UpdateType, UpdateMonotone
  <2>5. ASSUME NEW k \in Bit PROVE Update(f)[k] \subseteq e[k]
    <3>1. CASE k = b
      <4>1. f[k] = x /\ e[k] = x
        BY <2>1, <3>1 DEF SetBitCondition
      <4> QED BY <2>4, <4>1 DEF Below
    <3>2. CASE k # b
      <4>1. e[k] = c[k]
        BY <2>1, <3>2 DEF SetBitCondition
      <4>2. Update(f)[k] \subseteq Update(d)[k] /\ Update(d)[k] \subseteq c[k]
        BY <2>4 DEF Below
      <4> QED BY <4>1, <4>2
    <3> QED BY <3>1, <3>2
  <2>6. Below(Update(f), e)
    BY <2>5 DEF Below
  <2> HIDE DEF e, f
  <2>7. Update(e) = Update(f)
    BY <1>1, <2>2, <2>3, <2>6
  <2> QED BY <2>7 DEF Choose, e, f
<1> QED BY <1>1, <1>2

(***************************************************************************)
(* Repeating the guesses of an element on its snapshot lies between all    *)
(* decisions made at once on the start and what Update makes of these.     *)
(***************************************************************************)
LEMMA ReplayTraced ==
    ASSUME NEW el \in StackElement, GuessesFit(el), NEW t \in Seq(Narrowing),
           el.characteristic = Update(Made(t))
    PROVE  /\ Made(t \o DecisionsOf(el)) \in Characteristic
           /\ Below(Replay(el), Made(t \o DecisionsOf(el)))
           /\ Below(Update(Made(t \o DecisionsOf(el))), Replay(el))
<1> DEFINE ds == DecisionsOf(el)
           d == Made(t \o ds)
           gs == el.guesses
           ch == el.characteristic
<1>1. /\ ds \in Seq(Narrowing) /\ t \o ds \in Seq(Narrowing)
      /\ Made(t) \in Characteristic /\ d \in Characteristic
  BY DecisionsType, ConcatProperties, MadeType
<1>2. ch \in Characteristic /\ Below(ch, Made(t))
  BY <1>1, UpdateType
<1>3. /\ DOMAIN ds = DOMAIN gs
      /\ \A i \in DOMAIN gs : ds[i].pos = gs[i].pos /\ ds[i].taken = gs[i].first
  BY DEF DecisionsOf, DecisionOf
<1>4. DOMAIN gs = 1..Len(gs) /\ Len(gs) \in Nat
  BY LenProperties DEF StackElement
<1>5. \A b \in Bit : Replay(el)[b] = {v \in ch[b] :
                        \A k \in DOMAIN gs : gs[k].pos = b => v \in gs[k].first}
  BY ReplayNarrows
<1>6. \A b \in Bit : /\ \A i : LastPlace(ds, b, i) => d[b] = ds[i].taken
                     /\ (\A i \in DOMAIN ds : ds[i].pos # b) => d[b] = Made(t)[b]
  BY <1>1, MadeConcat
<1> HIDE DEF ds, d
<1>7. ASSUME NEW b \in Bit, NEW i, LastPlace(ds, b, i)
      PROVE  /\ d[b] \subseteq ch[b]
             /\ Replay(el)[b] = d[b]
  <2>1. i \in DOMAIN gs /\ gs[i].pos = b /\ d[b] = gs[i].first
    BY <1>3, <1>6, <1>7 DEF LastPlace
  <2>2. GuessFits(el, i)
    BY <2>1 DEF GuessesFit
  <2>3. d[b] \subseteq ch[b]
    BY <2>1, <2>2 DEF GuessFits
  <2>4. ASSUME NEW k \in DOMAIN gs, gs[k].pos = b PROVE d[b] \subseteq gs[k].first
    <3>1. k <= i
      BY <1>3, <1>4, <1>7, <2>1, <2>4 DEF LastPlace
    <3>2. CASE k = i
      BY <2>1, <3>2
    <3>3. CASE k # i
      <4>1. k \in 1..(i - 1)
        BY <1>4, <2>1, <3>1, <3>3
      <4> QED BY <2>1, <2>2, <2>4, <4>1 DEF GuessFits
    <3> QED BY <3>2, <3>3
  <2>5. \A v : v \in Replay(el)[b] <=> v \in d[b]
    BY <1>5, <2>1, <2>3, <2>4
  <2> QED BY <2>3, <2>5
<1>8. ASSUME NEW b \in Bit, \A i \in DOMAIN ds : ds[i].pos # b
      PROVE  d[b] = Made(t)[b] /\ Replay(el)[b] = ch[b]
  <2>1. d[b] = Made(t)[b]
    BY <1>6, <1>8
  <2>2. \A k \in DOMAIN gs : gs[k].pos # b
    BY <1>3, <1>8
  <2>3. \A v : v \in Replay(el)[b] <=> v \in ch[b]
    <3> HIDE DEF ch, gs
    <3> QED BY <1>5, <2>2
  <2> QED BY <2>1, <2>3
<1>9. \A b \in Bit : (\E i : LastPlace(ds, b, i)) \/ \A i \in DOMAIN ds : ds[i].pos # b
  BY <1>1, HasLastPlace
<1>10. Below(Replay(el), d)
  <2>1. \A b \in Bit : ch[b] \subseteq Made(t)[b]
    BY <1>2 DEF Below
  <2> QED BY <1>7, <1>8, <1>9, <2>1 DEF Below
<1>11. Below(d, Made(t))
  <2>1. \A b \in Bit : ch[b] \subseteq Made(t)[b]
    BY <1>2 DEF Below
  <2>2. ASSUME NEW b \in Bit PROVE d[b] \subseteq Made(t)[b]
    <3>1. CASE \E i : LastPlace(ds, b, i)
      BY <1>7, <2>1, <3>1
    <3>2. CASE \A i \in DOMAIN ds : ds[i].pos # b
      BY <1>8, <3>2
    <3> QED BY <1>9, <3>1, <3>2
  <2> QED BY <2>2 DEF Below
<1>12. Below(Update(d), ch) /\ Below(Update(d), d)
  BY <1>1, <1>11, UpdateMonotone, UpdateType
<1>13. Below(Update(d), Replay(el))
  <2>1. ASSUME NEW b \in Bit PROVE Update(d)[b] \subseteq Replay(el)[b]
    <3>1. Update(d)[b] \subseteq ch[b] /\ Update(d)[b] \subseteq d[b]
      BY <1>12 DEF Below
    <3>2. CASE \E i : LastPlace(ds, b, i)
      BY <1>7, <3>1, <3>2
    <3>3. CASE \A i \in DOMAIN ds : ds[i].pos # b
      BY <1>8, <3>1, <3>3
    <3> QED BY <1>9, <3>2, <3>3
  <2> QED BY <2>1 DEF Below
<1> QED BY <1>1, <1>10, <1>13 DEF ds, d

-----------------------------------------------------------------------------
(* The trail of a stack *)

\* All guesses are the guesses of the top element behind those of the others.
LEMMA TrailType ==
    ASSUME NEW st \in Seq(StackElement), st # <<>>
    PROVE  /\ Trail(st) \in Seq(Narrowing)
           /\ Before(st, Len(st) - 1) \in Seq(Narrowing)
           /\ Trail(st) = Before(st, Len(st) - 1) \o DecisionsOf(Last(st))
           /\ Len(Trail(st)) = Len(Before(st, Len(st) - 1)) + Len(Last(st).guesses)
<1> DEFINE n == Len(st)
<1>1. n \in Nat \ {0} /\ Last(st) \in StackElement /\ Last(st) = st[n]
  BY FrontLastType DEF Last
<1>2. n \in 1..n /\ n \in 0..n /\ n - 1 \in 0..n
  <2> HIDE DEF n
  <2> QED BY <1>1
<1>3. /\ Before(st, n) \in Seq(Narrowing) /\ Before(st, n - 1) \in Seq(Narrowing)
      /\ Before(st, n) = Before(st, n - 1) \o DecisionsOf(st[n])
  BY <1>2, BeforeType, BeforeNext
<1>4. DecisionsOf(st[n]) \in Seq(Narrowing) /\ Len(DecisionsOf(st[n])) = Len(st[n].guesses)
  BY <1>1, DecisionsType
<1> HIDE DEF n
<1>5. Len(Before(st, n)) = Len(Before(st, n - 1)) + Len(st[n].guesses)
  <2>1. Len(Before(st, n - 1) \o DecisionsOf(st[n]))
            = Len(Before(st, n - 1)) + Len(DecisionsOf(st[n]))
    BY <1>3, <1>4, ConcatProperties
  <2> QED BY <1>3, <1>4, <2>1
<1> QED BY <1>1, <1>3, <1>5 DEF Trail, n

\* Other guesses in the top element change the end of the trail only.
LEMMA ExchangedTrail ==
    ASSUME NEW st \in Seq(StackElement), st # <<>>, SnapshotsTraced(st),
           NEW el \in StackElement, el.characteristic = Last(st).characteristic
    PROVE  /\ SnapshotsTraced([st EXCEPT ![Len(st)] = el])
           /\ Trail([st EXCEPT ![Len(st)] = el]) = Before(st, Len(st) - 1) \o DecisionsOf(el)
<1> DEFINE n == Len(st)
           new == [st EXCEPT ![n] = el]
<1>1. n \in Nat \ {0} /\ DOMAIN st = 1..n /\ Last(st) = st[n]
  BY FrontLastType, LenProperties DEF Last
<1>2. /\ new \in Seq(StackElement) /\ DOMAIN new = 1..n
      /\ \A i \in 1..n : i # n => new[i] = st[i]
  <2>1. DOMAIN new = DOMAIN st /\ \A i \in DOMAIN st : i # n => new[i] = st[i]
    OBVIOUS
  <2>2. new \in Seq(StackElement)
    BY <1>1
  <2> QED BY <1>1, <2>1, <2>2
<1>3. new[n] = el /\ Len(new) = n
  BY <1>1
<1>4. n \in 1..n
  <2> HIDE DEF n
  <2> QED BY <1>1
<1> HIDE DEF new, n
<1>5. new # <<>> /\ Last(new) = el
  BY <1>1, <1>2, <1>3, <1>4, EmptySeq DEF Last
<1>6. ASSUME NEW i \in 1..n PROVE Before(new, i - 1) = Before(st, i - 1)
  <2>1. i - 1 \in Nat /\ \A k \in 1..(i - 1) : k \in 1..n /\ k # n
    BY <1>1
  <2> QED BY <1>2, <2>1, BeforeSame
<1>7. SnapshotsTraced(new)
  BY <1>1, <1>2, <1>3, <1>6 DEF SnapshotsTraced
<1>8. Trail(new) = Before(new, n - 1) \o DecisionsOf(el)
  BY <1>2, <1>3, <1>5, TrailType
<1> QED BY <1>4, <1>6, <1>7, <1>8 DEF new, n

\* An element without guesses changes nothing of the trail.
LEMMA AppendedTrail ==
    ASSUME NEW st \in Seq(StackElement), SnapshotsTraced(st),
           NEW e \in StackElement, e.guesses = <<>>,
           e.characteristic = Decisions!State(Trail(st))
    PROVE  /\ SnapshotsTraced(Append(st, e))
           /\ Trail(Append(st, e)) = Trail(st)
<1> DEFINE n == Len(st)
           new == Append(st, e)
<1>1. /\ n \in Nat /\ DOMAIN st = 1..n
      /\ new \in Seq(StackElement) /\ Len(new) = n + 1 /\ new[n + 1] = e
      /\ \A i \in 1..n : new[i] = st[i]
      /\ DOMAIN new = 1..(n + 1)
  BY AppendProperties, LenProperties
<1>2. n \in 0..n
  BY <1>1
<1>3. Before(st, n) \in Seq(Narrowing)
  BY <1>2, BeforeType
<1> HIDE DEF n, new
<1>4. ASSUME NEW i \in 1..(n + 1) PROVE Before(new, i - 1) = Before(st, i - 1)
  <2>1. i - 1 \in Nat /\ \A k \in 1..(i - 1) : k \in 1..n
    BY <1>1
  <2> QED BY <1>1, <2>1, BeforeSame
<1>5. \A i \in 1..(n + 1) : i \in 1..n \/ (i = n + 1 /\ i - 1 = n)
  BY <1>1
<1>6. SnapshotsTraced(new)
  BY <1>1, <1>4, <1>5 DEF SnapshotsTraced, Trail, n
<1>7. n + 1 \in 1..(n + 1) /\ (n + 1) - 1 = n
  BY <1>1
<1>8. Before(new, n + 1) = Before(new, n) \o DecisionsOf(e)
  BY <1>1, <1>7, BeforeNext
<1>9. Before(new, n) = Before(st, n)
  BY <1>4, <1>7
<1>10. Before(st, n) \o <<>> = Before(st, n)
  BY <1>3, ConcatEmptySeq
<1>11. DecisionsOf(e) = <<>>
  BY DecisionsType
<1> QED BY <1>1, <1>6, <1>8, <1>9, <1>10, <1>11 DEF Trail, new, n

\* Without its top element a stack has the decisions of the others.
LEMMA DroppedTrail ==
    ASSUME NEW st \in Seq(StackElement), st # <<>>, SnapshotsTraced(st)
    PROVE  /\ SnapshotsTraced(Front(st))
           /\ Trail(Front(st)) = Before(st, Len(st) - 1)
<1> DEFINE n == Len(st)
           f == Front(st)
<1>1. /\ n \in Nat \ {0} /\ DOMAIN st = 1..n
      /\ f \in Seq(StackElement) /\ Len(f) = n - 1
      /\ \A i \in 1..(n - 1) : f[i] = st[i]
      /\ DOMAIN f = 1..Len(f)
  BY FrontLastType, LenProperties
<1> HIDE DEF n, f
<1>2. n - 1 \in Nat /\ \A i \in 1..(n - 1) : i \in 1..n
  BY <1>1
<1>3. ASSUME NEW i \in 1..(n - 1) PROVE Before(f, i - 1) = Before(st, i - 1)
  <2>1. i - 1 \in Nat /\ \A k \in 1..(i - 1) : k \in 1..(n - 1)
    BY <1>1
  <2> QED BY <1>1, <2>1, BeforeSame
<1>4. SnapshotsTraced(f)
  BY <1>1, <1>2, <1>3 DEF SnapshotsTraced
<1>5. Before(f, n - 1) = Before(st, n - 1)
  BY <1>1, <1>2, BeforeSame
<1> QED BY <1>1, <1>4, <1>5 DEF Trail, f, n

\* A guess is a decision at the end of the trail, whether it starts an element or not.
LEMMA GuessTrail ==
    ASSUME NEW st \in Seq(StackElement), st # <<>>, SnapshotsTraced(st), NEW g \in Guess,
           NEW c \in Characteristic,
           c = Decisions!State(Append(Trail(st), DecisionOf(g, Last(st).phase)))
    PROVE  /\ SnapshotsTraced(WithGuess(st, c, g))
           /\ Trail(WithGuess(st, c, g)) = Append(Trail(st), DecisionOf(g, Last(st).phase))
<1> DEFINE t == Last(st)
           w == WithAnother(t, g)
           added == [st EXCEPT ![Len(st)].guesses = Append(@, g)]
           e == Element(c, t.phase)
           d == DecisionOf(g, t.phase)
           ds == DecisionsOf(t)
           below == Before(st, Len(st) - 1)
<1>1. /\ t \in StackElement /\ t = st[Len(st)] /\ Len(st) \in DOMAIN st
      /\ t.phase \in PhaseNumber /\ t.guesses \in Seq(Guess)
  BY TopType DEF Last
<1>2. /\ Append(t.guesses, g) \in Seq(Guess)
      /\ Len(Append(t.guesses, g)) = Len(t.guesses) + 1
      /\ \A j \in 1..Len(t.guesses) : Append(t.guesses, g)[j] = t.guesses[j]
      /\ Append(t.guesses, g)[Len(t.guesses) + 1] = g
      /\ Len(t.guesses) \in Nat
  BY <1>1, AppendProperties, LenProperties
<1>3. /\ w \in StackElement /\ w.characteristic = t.characteristic /\ w.phase = t.phase
      /\ w.guesses = Append(t.guesses, g)
  BY <1>1, <1>2 DEF WithAnother, StackElement
<1>4. added = [st EXCEPT ![Len(st)] = w]
  BY <1>1 DEF WithAnother
<1>5. d \in Narrowing
  <2>1. DecisionsOf(w) \in Seq(Narrowing) /\ Len(DecisionsOf(w)) = Len(t.guesses) + 1
    BY <1>2, <1>3, DecisionsType
  <2>2. Len(t.guesses) + 1 \in DOMAIN w.guesses
    BY <1>2, <1>3, LenProperties
  <2>3. DecisionsOf(w)[Len(t.guesses) + 1] = d
    BY <1>2, <1>3, <2>2 DEF DecisionsOf
  <2>4. Len(t.guesses) + 1 \in 1..Len(DecisionsOf(w))
    BY <1>2, <2>1
  <2> QED BY <2>1, <2>3, <2>4, ElementOfSeq
<1>6. DecisionsOf(w) = Append(ds, d)
  <2>1. DecisionsOf(w) \in Seq(Narrowing) /\ Len(DecisionsOf(w)) = Len(t.guesses) + 1
    BY <1>2, <1>3, DecisionsType
  <2>2. ds \in Seq(Narrowing) /\ Len(ds) = Len(t.guesses)
    BY <1>1, DecisionsType
  <2>3. /\ Append(ds, d) \in Seq(Narrowing) /\ Len(Append(ds, d)) = Len(ds) + 1
        /\ Append(ds, d)[Len(ds) + 1] = d
        /\ \A j \in 1..Len(ds) : Append(ds, d)[j] = ds[j]
    BY <1>5, <2>2, AppendProperties
  <2>4. ASSUME NEW j \in 1..(Len(t.guesses) + 1)
        PROVE  DecisionsOf(w)[j] = Append(ds, d)[j]
    <3>1. j \in DOMAIN w.guesses
      BY <1>2, <1>3, LenProperties
    <3>2. DecisionsOf(w)[j] = DecisionOf(w.guesses[j], t.phase)
      BY <1>3, <3>1 DEF DecisionsOf
    <3>3. CASE j = Len(t.guesses) + 1
      BY <1>2, <1>3, <2>2, <2>3, <3>2, <3>3
    <3>4. CASE j \in 1..Len(t.guesses)
      <4>1. j \in DOMAIN t.guesses
        BY <1>1, <3>4, LenProperties
      <4>2. ds[j] = DecisionOf(t.guesses[j], t.phase)
        BY <4>1 DEF DecisionsOf
      <4> QED BY <1>2, <1>3, <2>2, <2>3, <3>2, <3>4, <4>2
    <3>5. j \in 1..Len(t.guesses) \/ j = Len(t.guesses) + 1
      BY <1>2
    <3> QED BY <3>3, <3>4, <3>5
  <2> HIDE DEF ds, d, w
  <2> QED BY <2>1, <2>2, <2>3, <2>4, SeqEqual
<1> HIDE DEF w
<1>7. /\ below \in Seq(Narrowing) /\ ds \in Seq(Narrowing) /\ Trail(st) = below \o ds
      /\ Trail(st) \in Seq(Narrowing)
  BY <1>1, TrailType, DecisionsType
<1>8. SnapshotsTraced(added) /\ Trail(added) = below \o Append(ds, d)
  BY <1>1, <1>3, <1>4, <1>6, ExchangedTrail
<1>9. below \o Append(ds, d) = Append(below \o ds, d)
  <2> HIDE DEF below, ds, d
  <2>1. <<d>> \in Seq(Narrowing)
    BY <1>5
  <2>2. Append(ds, d) = ds \o <<d>> /\ Append(below \o ds, d) = (below \o ds) \o <<d>>
    BY <1>5, <1>7, AppendIsConcat
  <2> QED BY <1>7, <2>1, <2>2, ConcatAssociative
<1>10. Trail(added) = Append(Trail(st), d)
  BY <1>7, <1>8, <1>9
<1>11. added \in Seq(StackElement) /\ Last(added).phase = t.phase
  <2> DEFINE other == [st EXCEPT ![Len(st)] = w]
  <2>0. other \in Seq(StackElement) /\ Len(other) = Len(st)
    BY <1>1, <1>3
  <2>1. added \in Seq(StackElement) /\ Len(added) = Len(st)
    BY <1>4, <2>0
  <2>2. added[Len(st)] = w
    BY <1>1, <1>4
  <2> HIDE DEF added
  <2> QED BY <1>3, <2>1, <2>2 DEF Last
<1> HIDE DEF added, d
<1>12. e \in StackElement /\ e.guesses = <<>> /\ e.characteristic = c
  BY <1>1, EmptySeq DEF Element, StackElement
<1>13. SnapshotsTraced(Append(added, e)) /\ Trail(Append(added, e)) = Trail(added)
  BY <1>8, <1>10, <1>11, <1>12, AppendedTrail DEF d
<1>14. WithGuess(st, c, g) = added \/ WithGuess(st, c, g) = Append(added, e)
  BY <1>11 DEF WithGuess, added
<1> QED BY <1>8, <1>10, <1>13, <1>14 DEF d

\* The first part of a sequence, behind a whole one.
LEMMA FirstOfConcat ==
    ASSUME NEW S, NEW s \in Seq(S), NEW t \in Seq(S), NEW n \in 0..Len(t)
    PROVE  s \o SubSeq(t, 1, n) = SubSeq(s \o t, 1, Len(s) + n)
<1> DEFINE m == Len(s)
           l == Len(t)
           a == s \o t
           b == SubSeq(t, 1, n)
           c == SubSeq(a, 1, m + n)
<1>1. /\ m \in Nat /\ l \in Nat /\ n \in Nat /\ n <= l
      /\ \A i \in 1..m : s[i] \in S /\ \A j \in 1..l : t[j] \in S
  BY LenProperties, ElementOfSeq
<1>2. /\ a \in Seq(S) /\ Len(a) = m + l
      /\ \A i \in 1..(m + l) : a[i] = IF i <= m THEN s[i] ELSE t[i - m]
  BY ConcatProperties
<1>3. b \in Seq(S) /\ Len(b) = n /\ \A i \in 1..n : b[i] = t[i]
  <2> HIDE DEF l
  <2>1. \A i \in 1..n : t[i] \in S
    BY <1>1 DEF l
  <2>2. /\ b \in Seq(S)
        /\ Len(b) = IF 1 <= n THEN n - 1 + 1 ELSE 0
        /\ \A i \in 1..(n - 1 + 1) : b[i] = t[1 + i - 1]
    BY <2>1, <1>1, SubSeqProperties
  <2>3. \A i \in 1..n : 1 + i - 1 = i /\ i \in 1..(n - 1 + 1)
    BY <1>1
  <2> HIDE DEF b
  <2> QED BY <1>1, <2>2, <2>3
<1> HIDE DEF m, l, a, b
<1>4. c \in Seq(S) /\ Len(c) = m + n /\ \A i \in 1..(m + n) : c[i] = a[i]
  <2> DEFINE k == m + n
  <2>1. k \in Nat /\ k <= m + l
    BY <1>1
  <2>2. \A i \in 1..k : i \in 1..Len(a) /\ a[i] \in S
    BY <1>2, <2>1, ElementOfSeq, LenProperties
  <2> HIDE DEF k
  <2>3. /\ SubSeq(a, 1, k) \in Seq(S)
        /\ Len(SubSeq(a, 1, k)) = IF 1 <= k THEN k - 1 + 1 ELSE 0
        /\ \A i \in 1..(k - 1 + 1) : SubSeq(a, 1, k)[i] = a[1 + i - 1]
    BY <2>1, <2>2, SubSeqProperties
  <2>4. \A i \in 1..k : 1 + i - 1 = i /\ i \in 1..(k - 1 + 1)
    BY <2>1
  <2>5. Len(SubSeq(a, 1, k)) = k
    BY <2>1, <2>3
  <2> QED BY <2>3, <2>4, <2>5 DEF k
<1>5. /\ s \o b \in Seq(S) /\ Len(s \o b) = m + n
      /\ \A i \in 1..(m + n) : (s \o b)[i] = IF i <= m THEN s[i] ELSE b[i - m]
  BY <1>3, ConcatProperties DEF m
<1> HIDE DEF c
<1>6. ASSUME NEW i \in 1..(m + n) PROVE (s \o b)[i] = c[i]
  <2>1. i \in 1..(m + l) /\ (~ (i <= m) => i - m \in 1..n)
    BY <1>1
  <2> QED BY <1>2, <1>3, <1>4, <1>5, <2>1
<1>7. s \o b = c
  BY <1>4, <1>5, <1>6, SeqEqual
<1> QED BY <1>7 DEF m, a, b, c

(***************************************************************************)
(* Keeping the first guesses of the top element keeps as much of the trail *)
(* and discards as many decisions as guesses.                              *)
(***************************************************************************)
LEMMA PrefixTrail ==
    ASSUME NEW st \in Seq(StackElement), st # <<>>, SnapshotsTraced(st),
           GuessesFit(Last(st)), NEW k \in 0..Len(Last(st).guesses)
    PROVE  /\ SnapshotsTraced([st EXCEPT ![Len(st)] = Prefix(Last(st), k)])
           /\ Trail([st EXCEPT ![Len(st)] = Prefix(Last(st), k)]) =
                 SubSeq(Trail(st), 1, Len(Trail(st)) - (Len(Last(st).guesses) - k))
<1> DEFINE t == Last(st)
           gs == t.guesses
           el == Prefix(t, k)
           below == Before(st, Len(st) - 1)
           ds == DecisionsOf(t)
<1>1. t \in StackElement /\ gs \in Seq(Guess) /\ Len(gs) \in Nat /\ DOMAIN gs = 1..Len(gs)
  BY TopType, LenProperties
<1>2. k \in Nat /\ k <= Len(gs)
  BY <1>1
<1>3. /\ el \in StackElement /\ Len(el.guesses) = k
      /\ \A j \in 1..k : el.guesses[j] = gs[j]
      /\ el.characteristic = t.characteristic /\ el.phase = t.phase
  <2>1. el.characteristic = t.characteristic /\ el.phase = t.phase
    BY <1>1 DEF Prefix, StackElement
  <2> QED BY <1>1, <1>2, <2>1, PrefixFits
<1> HIDE DEF el
<1>4. DOMAIN el.guesses = 1..k
  BY <1>3, LenProperties DEF StackElement
<1>5. DecisionsOf(el) = SubSeq(ds, 1, k)
  <2>1. DecisionsOf(el) = [j \in 1..k |-> DecisionOf(gs[j], t.phase)]
    BY <1>3, <1>4 DEF DecisionsOf
  <2>2. \A j \in 1..k : ds[j] = DecisionOf(gs[j], t.phase)
    BY <1>1, <1>2 DEF DecisionsOf
  <2>3. SubSeq(ds, 1, k) = [j \in 1..k |-> ds[j]]
    <3> HIDE DEF ds
    <3> QED BY <1>2
  <2> HIDE DEF ds
  <2> QED BY <2>1, <2>2, <2>3
<1>6. /\ below \in Seq(Narrowing) /\ ds \in Seq(Narrowing) /\ Trail(st) = below \o ds
      /\ Len(ds) = Len(gs) /\ Len(Trail(st)) = Len(below) + Len(gs)
      /\ Len(below) \in Nat
  BY <1>1, TrailType, DecisionsType, LenProperties
<1>7. /\ SnapshotsTraced([st EXCEPT ![Len(st)] = el])
      /\ Trail([st EXCEPT ![Len(st)] = el]) = below \o DecisionsOf(el)
  BY <1>3, ExchangedTrail
<1>8. below \o SubSeq(ds, 1, k) = SubSeq(below \o ds, 1, Len(below) + k)
  <2>1. k \in 0..Len(ds)
    BY <1>6
  <2> HIDE DEF below, ds
  <2> QED BY <1>6, <2>1, FirstOfConcat
<1>9. Len(below) + k = Len(Trail(st)) - (Len(gs) - k)
  <2> DEFINE x == Len(below)
             y == Len(gs)
             z == Len(Trail(st))
  <2>1. x \in Nat /\ y \in Nat /\ z = x + y
    BY <1>1, <1>6
  <2> HIDE DEF x, y, z
  <2>2. x + k = z - (y - k)
    BY <1>2, <2>1
  <2> QED BY <2>2 DEF x, y, z
<1> HIDE DEF below, ds, gs
<1>10. Trail([st EXCEPT ![Len(st)] = el]) = SubSeq(Trail(st), 1, Len(Trail(st)) - (Len(gs) - k))
  BY <1>5, <1>6, <1>7, <1>8, <1>9
<1> QED BY <1>7, <1>10 DEF el, gs

\* The last decision is the last guess of the top element.
LEMMA LastDecision ==
    ASSUME NEW st \in Seq(StackElement), st # <<>>, Last(st).guesses # <<>>
    PROVE  /\ Trail(st) # <<>>
           /\ Last(Trail(st)) = DecisionOf(Last(Last(st).guesses), Last(st).phase)
           /\ Front(Trail(st)) = SubSeq(Trail(st), 1, Len(Trail(st)) - 1)
<1> DEFINE t == Last(st)
           gs == t.guesses
           below == Before(st, Len(st) - 1)
           ds == DecisionsOf(t)
           n == Len(gs)
           m == Len(below)
<1>1. t \in StackElement /\ gs \in Seq(Guess) /\ n \in Nat /\ DOMAIN gs = 1..n /\ n # 0
  BY TopType, LenProperties, EmptySeq
<1>2. /\ below \in Seq(Narrowing) /\ ds \in Seq(Narrowing) /\ Trail(st) = below \o ds
      /\ Len(ds) = n /\ Len(Trail(st)) = m + n /\ m \in Nat
      /\ Trail(st) \in Seq(Narrowing)
  BY <1>1, TrailType, DecisionsType, LenProperties
<1>3. n \in DOMAIN gs /\ gs[n] = Last(gs)
  <2>1. n \in 1..n
    <3> HIDE DEF n
    <3> QED BY <1>1
  <2> QED BY <1>1, <2>1 DEF Last
<1>4. ds[n] = DecisionOf(Last(gs), t.phase)
  BY <1>3 DEF DecisionsOf
<1> HIDE DEF below, ds, n, m
<1>5. (below \o ds)[m + n] = ds[n]
  <2>1. m + n \in 1..(m + n) /\ ~ (m + n <= m) /\ (m + n) - m = n
    BY <1>1, <1>2
  <2>2. \A i \in 1..(Len(below) + Len(ds)) :
            (below \o ds)[i] = IF i <= Len(below) THEN below[i] ELSE ds[i - Len(below)]
    BY <1>2, ConcatProperties
  <2> QED BY <1>2, <2>1, <2>2 DEF m
<1>6. Last(Trail(st)) = ds[n]
  BY <1>2, <1>5 DEF Last
<1>7. Trail(st) # <<>>
  <2>1. m + n # 0
    BY <1>1, <1>2
  <2> QED BY <1>2, <2>1, EmptySeq
<1> QED BY <1>4, <1>6, <1>7 DEF Front

(***************************************************************************)
(* What the guesses of the top element make of its snapshot lies between   *)
(* the trail made at once and its propagation.                             *)
(***************************************************************************)
LEMMA TopTraced ==
    ASSUME NEW st \in Seq(StackElement), st # <<>>, SnapshotsTraced(st), GuessesFit(Last(st))
    PROVE  /\ Trail(st) \in Seq(Narrowing)
           /\ Made(Trail(st)) \in Characteristic
           /\ Replay(Last(st)) \in Characteristic
           /\ Below(Replay(Last(st)), Made(Trail(st)))
           /\ Below(Update(Made(Trail(st))), Replay(Last(st)))
<1> DEFINE t == Last(st)
           below == Before(st, Len(st) - 1)
<1>1. t \in StackElement /\ t = st[Len(st)] /\ Len(st) \in DOMAIN st
  BY TopType DEF Last
<1>2. below \in Seq(Narrowing) /\ Trail(st) = below \o DecisionsOf(t) /\ Trail(st) \in Seq(Narrowing)
  BY TrailType
<1>3. t.characteristic = Update(Made(below))
  BY <1>1, StateIs DEF SnapshotsTraced
<1> HIDE DEF t, below
<1>4. /\ Made(below \o DecisionsOf(t)) \in Characteristic
      /\ Below(Replay(t), Made(below \o DecisionsOf(t)))
      /\ Below(Update(Made(below \o DecisionsOf(t))), Replay(t))
  BY <1>1, <1>2, <1>3, ReplayTraced DEF t
<1>5. Replay(t) \in Characteristic
  BY <1>1, ReplayType DEF t
<1> QED BY <1>2, <1>4, <1>5 DEF t


-----------------------------------------------------------------------------
(* How many decisions there are, and in which phases *)

\* The places of the guesses in the first n elements.
FirstPositions(st, n) == UNION {{i} \X DOMAIN st[i].guesses : i \in 1..n}

\* Each place has a decision.
LEMMA PositionsCount ==
    ASSUME NEW st \in Seq(StackElement), NEW n \in 0..Len(st)
    PROVE  /\ IsFiniteSet(FirstPositions(st, n))
           /\ Cardinality(FirstPositions(st, n)) = Len(Before(st, n))
<1> DEFINE Right(k) == /\ IsFiniteSet(FirstPositions(st, k))
                       /\ Cardinality(FirstPositions(st, k)) = Len(Before(st, k))
           T == {k \in 0..Len(st) : ~ Right(k)}
<1>1. SUFFICES ASSUME T # {} PROVE FALSE
  OBVIOUS
<1>2. T \in SUBSET Nat
  BY LenProperties
<1>3. PICK k \in T : \A i \in T : k <= i
  <2> HIDE DEF T
  <2> QED BY <1>1, <1>2, LeastIndex
<1>4. k \in 0..Len(st) /\ Len(st) \in Nat /\ ~ Right(k)
  BY LenProperties
<1>5. CASE k = 0
  <2>1. FirstPositions(st, k) = {}
    BY <1>5 DEF FirstPositions
  <2>2. Before(st, k) = <<>>
    BY <1>5, BeforeNone
  <2> QED BY <1>4, <2>1, <2>2, FS_EmptySet
<1>6. CASE k # 0
  <2> DEFINE old == FirstPositions(st, k - 1)
             row == {k} \X DOMAIN st[k].guesses
             m == Len(st[k].guesses)
  <2>1. k \in 1..Len(st) /\ k - 1 \in 0..Len(st) /\ ~ (k <= k - 1)
    BY <1>4, <1>6
  <2>2. k - 1 \notin T
    BY <1>3, <2>1
  <2>3. IsFiniteSet(old) /\ Cardinality(old) = Len(Before(st, k - 1))
    BY <2>1, <2>2
  <2>4. st[k] \in StackElement /\ st[k].guesses \in Seq(Guess)
    <3>1. st[k] \in StackElement
      BY <2>1, ElementOfSeq
    <3> QED BY <3>1 DEF StackElement
  <2>5. m \in Nat /\ DOMAIN st[k].guesses = 1..m
    BY <2>4, LenProperties
  <2>6. IsFiniteSet(1..m) /\ Cardinality(1..m) = m
    <3>1. 1 \in Int /\ m \in Int
      BY <2>5
    <3>2. IsFiniteSet(1..m) /\ Cardinality(1..m) = IF 1 > m THEN 0 ELSE m - 1 + 1
      BY <3>1, FS_Interval
    <3> HIDE DEF m
    <3> QED BY <2>5, <3>2
  <2>7. IsFiniteSet(row) /\ Cardinality(row) = m
    <3>1. IsFiniteSet({k}) /\ Cardinality({k}) = 1
      BY FS_Singleton
    <3>2. IsFiniteSet({k} \X (1..m)) /\ Cardinality({k} \X (1..m)) = 1 * m
      <4> HIDE DEF m
      <4>1. Cardinality({k} \X (1..m)) = 1 * Cardinality(1..m)
        BY <2>6, <3>1, FS_Product
      <4> QED BY <2>6, <3>1, <4>1, FS_Product
    <3> HIDE DEF m
    <3> QED BY <2>5, <3>2
  <2>8. FirstPositions(st, k) = old \cup row
    <3>1. \A i : i \in 1..k <=> i \in 1..(k - 1) \/ i = k
      BY <2>1
    <3>2. \A x : x \in FirstPositions(st, k) <=> \E i \in 1..k : x \in {i} \X DOMAIN st[i].guesses
      BY DEF FirstPositions
    <3>3. \A x : x \in old <=> \E i \in 1..(k - 1) : x \in {i} \X DOMAIN st[i].guesses
      BY DEF FirstPositions
    <3> HIDE DEF old
    <3>4. \A x : x \in FirstPositions(st, k) <=> x \in old \/ x \in row
      BY <3>1, <3>2, <3>3
    <3> QED BY <3>4
  <2>9. old \cap row = {}
    <3>1. ASSUME NEW x, x \in old, x \in row PROVE FALSE
      <4>1. PICK i \in 1..(k - 1) : x \in {i} \X DOMAIN st[i].guesses
        BY <3>1 DEF FirstPositions
      <4>2. x[1] = i /\ x[1] = k
        BY <3>1, <4>1
      <4> QED BY <2>1, <4>2
    <3> QED BY <3>1
  <2>10. Before(st, k) = Before(st, k - 1) \o DecisionsOf(st[k])
    BY <2>1, BeforeNext
  <2>11. Len(Before(st, k)) = Len(Before(st, k - 1)) + m
    <3>1. Before(st, k - 1) \in Seq(Narrowing)
      BY <2>1, BeforeType
    <3>2. DecisionsOf(st[k]) \in Seq(Narrowing) /\ Len(DecisionsOf(st[k])) = m
      BY <2>4, DecisionsType
    <3> HIDE DEF m
    <3> QED BY <2>10, <3>1, <3>2, ConcatProperties
  <2>12. Cardinality(old \cap row) = 0
    BY <2>9, FS_EmptySet
  <2> HIDE DEF old, row, m
  <2>13. /\ IsFiniteSet(old \cup row)
         /\ Cardinality(old \cup row) = Cardinality(old) + Cardinality(row) - Cardinality(old \cap row)
    BY <2>3, <2>7, FS_Union
  <2>14. Cardinality(old) \in Nat
    BY <2>3, FS_CardinalityType
  <2>15. Cardinality(old \cup row) = Len(Before(st, k - 1)) + m
    BY <2>3, <2>5, <2>7, <2>12, <2>13, <2>14 DEF m
  <2>16. Right(k)
    BY <2>8, <2>11, <2>13, <2>15
  <2> QED BY <1>4, <2>16
<1> QED BY <1>5, <1>6

\* size() is the number of decisions; a stack without guesses has none.
LEMMA SizeIsLength ==
    ASSUME stack \in Seq(StackElement)
    PROVE  /\ Size = Len(Trail(stack))
           /\ NoGuesses(stack) => Trail(stack) = <<>>
<1>1. Len(stack) \in 0..Len(stack) /\ DOMAIN stack = 1..Len(stack)
  BY LenProperties
<1>2. Positions = FirstPositions(stack, Len(stack))
  BY <1>1 DEF Positions, FirstPositions
<1>3. Size = Len(Trail(stack))
  BY <1>1, <1>2, PositionsCount DEF Size, Trail
<1>4. ASSUME NoGuesses(stack) PROVE Trail(stack) = <<>>
  <2>1. Positions = {}
    BY <1>4 DEF NoGuesses, Positions
  <2>2. Len(Trail(stack)) = 0
    BY <1>3, <2>1, FS_EmptySet DEF Size
  <2>3. Trail(stack) \in Seq(Narrowing)
    BY <1>1, BeforeType DEF Trail
  <2> QED BY <2>2, <2>3, EmptySeq
<1> QED BY <1>3, <1>4

\* A decision belongs to the phase of its element, which is not behind that of the last.
LEMMA PhasesOfTrail ==
    ASSUME NEW st \in Seq(StackElement), PhasesAscend(st), NEW n \in 1..Len(st)
    PROVE  \A j \in DOMAIN Before(st, n) : Before(st, n)[j].phase <= st[n].phase
<1> DEFINE Right(k) == \A j \in DOMAIN Before(st, k) : Before(st, k)[j].phase <= st[k].phase
           T == {k \in 1..Len(st) : ~ Right(k)}
<1>1. SUFFICES ASSUME T # {} PROVE FALSE
  OBVIOUS
<1>2. T \in SUBSET Nat
  BY LenProperties
<1>3. PICK k \in T : \A i \in T : k <= i
  <2> HIDE DEF T
  <2> QED BY <1>1, <1>2, LeastIndex
<1>4. k \in 1..Len(st) /\ Len(st) \in Nat /\ ~ Right(k) /\ DOMAIN st = 1..Len(st)
  BY LenProperties
<1> DEFINE a == Before(st, k - 1)
           ds == DecisionsOf(st[k])
<1>5. /\ Before(st, k) = a \o ds
      /\ a \in Seq(Narrowing) /\ ds \in Seq(Narrowing)
      /\ st[k] \in StackElement /\ st[k].phase \in Nat
  <2>1. k - 1 \in 0..Len(st)
    BY <1>4
  <2>2. st[k] \in StackElement
    BY <1>4, ElementOfSeq
  <2>3. st[k].phase \in Nat
    BY <2>2, PhaseNumbers DEF StackElement
  <2> QED BY <1>4, <2>1, <2>2, <2>3, BeforeNext, BeforeType, DecisionsType
<1>6. \A j \in DOMAIN ds : ds[j].phase = st[k].phase
  BY DEF DecisionsOf, DecisionOf
<1>7. \A j \in DOMAIN a : a[j].phase <= st[k].phase
  <2>1. CASE k = 1
    <3>1. a = <<>>
      BY <2>1, BeforeNone
    <3> QED BY <3>1
  <2>2. CASE k # 1
    <3>1. k - 1 \in 1..Len(st) /\ ~ (k <= k - 1) /\ k - 1 <= k
      BY <1>4, <2>2
    <3>2. k - 1 \notin T
      BY <1>3, <3>1
    <3>3. \A j \in DOMAIN a : a[j].phase <= st[k - 1].phase
      BY <3>1, <3>2
    <3>4. st[k - 1].phase <= st[k].phase
      BY <1>4, <3>1 DEF PhasesAscend
    <3>5. st[k - 1].phase \in Nat
      <4>1. st[k - 1] \in StackElement
        BY <3>1, ElementOfSeq
      <4> QED BY <4>1, PhaseNumbers, SMTT(30) DEF StackElement
    <3>6. \A j \in DOMAIN a : a[j].phase \in Nat
      <4>1. \A j \in DOMAIN a : a[j] \in Narrowing
        BY <1>5, ElementOfSeq, LenProperties
      <4> QED BY <4>1 DEF Narrowing, Decisions!Decision
    <3> HIDE DEF a
    <3> QED BY <1>5, <3>3, <3>4, <3>5, <3>6, SMTT(30)
  <2> QED BY <2>1, <2>2
<1> HIDE DEF a, ds
<1>8. /\ Len(a) \in Nat /\ Len(ds) \in Nat /\ DOMAIN a = 1..Len(a) /\ DOMAIN ds = 1..Len(ds)
      /\ DOMAIN (a \o ds) = 1..(Len(a) + Len(ds))
      /\ \A j \in 1..(Len(a) + Len(ds)) : (a \o ds)[j] = IF j <= Len(a) THEN a[j] ELSE ds[j - Len(a)]
  BY <1>5, ConcatProperties, LenProperties
<1>9. ASSUME NEW j \in DOMAIN (a \o ds) PROVE (a \o ds)[j].phase <= st[k].phase
  <2>1. CASE j <= Len(a)
    <3>1. j \in DOMAIN a
      BY <1>8, <2>1
    <3> QED BY <1>7, <1>8, <2>1, <3>1
  <2>2. CASE ~ (j <= Len(a))
    <3>1. j - Len(a) \in DOMAIN ds
      BY <1>8, <2>2
    <3> QED BY <1>5, <1>6, <1>8, <2>2, <3>1, SMTT(30)
  <2> QED BY <2>1, <2>2
<1> QED BY <1>4, <1>5, <1>9

-----------------------------------------------------------------------------
(* The state of the abstract specification *)

MappedTrail == SubSeq(Guesses, 1, Len(Guesses) - steps)

MappedChar == IF Settled THEN char ELSE Start

MappedPhase == IF op = "done" THEN back ELSE phase

MappedMode == IF Settled THEN "forward" ELSE IF op = "jump" THEN "leap" ELSE "back"

\* The instance has operators on sequences of its own.
LEMMA SameEnds == \A s : Decisions!Front(s) = Front(s) /\ Decisions!Last(s) = Last(s)
BY DEF Decisions!Front, Front, Decisions!Last, Last

\* Its actions, in these terms.
LEMMA MappedActions ==
    /\ Decisions!Init <=> /\ MappedTrail = <<>> /\ MappedChar = Start
                          /\ MappedPhase = 1 /\ MappedMode = "forward"
    /\ Decisions!Restart <=>
          /\ MappedMode = "forward" /\ MappedTrail' = <<>> /\ MappedChar' = Start
          /\ MappedPhase' = 1 /\ MappedMode' = MappedMode
    /\ Decisions!Decide <=>
          /\ MappedMode = "forward"
          /\ \E d \in [pos : Bit, taken : Condition \ {Contradiction}, other : Condition,
                       phase : {MappedPhase}] :
                /\ d.taken \cup d.other \subseteq MappedChar[d.pos]
                /\ d.taken \cap d.other = {}
                /\ MappedTrail' = Append(MappedTrail, d)
          /\ MappedChar' = Decisions!State(MappedTrail') /\ ~ Contradictory(MappedChar')
          /\ MappedPhase' = MappedPhase /\ MappedMode' = MappedMode
    /\ Decisions!EnterPhase <=>
          /\ MappedMode = "forward" /\ MappedPhase' = MappedPhase + 1
          /\ MappedTrail' = MappedTrail /\ MappedChar' = MappedChar /\ MappedMode' = MappedMode
    /\ Decisions!Fail <=>
          /\ MappedMode = "forward" /\ MappedMode' = "back" /\ MappedChar' = Start
          /\ MappedTrail' = MappedTrail /\ MappedPhase' = MappedPhase
<1> USE SameOperators DEF MappedTrail, MappedChar, MappedPhase, MappedMode
<1>1. Decisions!Init <=> /\ MappedTrail = <<>> /\ MappedChar = Start
                         /\ MappedPhase = 1 /\ MappedMode = "forward"
  BY DEF Decisions!Init
<1>2. Decisions!Restart <=>
          /\ MappedMode = "forward" /\ MappedTrail' = <<>> /\ MappedChar' = Start
          /\ MappedPhase' = 1 /\ MappedMode' = MappedMode
  BY DEF Decisions!Restart
<1>3. Decisions!Decide <=>
          /\ MappedMode = "forward"
          /\ \E d \in [pos : Bit, taken : Condition \ {Contradiction}, other : Condition,
                       phase : {MappedPhase}] :
                /\ d.taken \cup d.other \subseteq MappedChar[d.pos]
                /\ d.taken \cap d.other = {}
                /\ MappedTrail' = Append(MappedTrail, d)
          /\ MappedChar' = Decisions!State(MappedTrail') /\ ~ Contradictory(MappedChar')
          /\ MappedPhase' = MappedPhase /\ MappedMode' = MappedMode
  BY DEF Decisions!Decide
<1>4. Decisions!EnterPhase <=>
          /\ MappedMode = "forward" /\ MappedPhase' = MappedPhase + 1
          /\ MappedTrail' = MappedTrail /\ MappedChar' = MappedChar /\ MappedMode' = MappedMode
  BY DEF Decisions!EnterPhase
<1>5. Decisions!Fail <=>
          /\ MappedMode = "forward" /\ MappedMode' = "back" /\ MappedChar' = Start
          /\ MappedTrail' = MappedTrail /\ MappedPhase' = MappedPhase
  BY DEF Decisions!Fail, Decisions!Unspecified
<1> QED BY <1>1, <1>2, <1>3, <1>4, <1>5

\* The last decision of a trail with its other choice.
OtherWayOf(t) == Append(Front(t), Decisions!Flipped(Last(t)))

\* The actions of going back, in the same terms.
LEMMA MappedBackActions ==
    /\ Decisions!Discard <=>
          /\ MappedMode = "back" /\ MappedTrail # <<>>
          /\ ~ (/\ Last(MappedTrail).other # Contradiction
                /\ ~ Contradictory(Decisions!State(OtherWayOf(MappedTrail))))
          /\ MappedTrail' = Front(MappedTrail) /\ MappedChar' = MappedChar
          /\ MappedPhase' = MappedPhase /\ MappedMode' = MappedMode
    /\ Decisions!Flip <=>
          /\ MappedMode = "back" /\ MappedTrail # <<>>
          /\ Last(MappedTrail).other # Contradiction
          /\ ~ Contradictory(Decisions!State(OtherWayOf(MappedTrail)))
          /\ MappedTrail' = OtherWayOf(MappedTrail)
          /\ MappedChar' = Decisions!State(OtherWayOf(MappedTrail))
          /\ MappedPhase' = Last(MappedTrail).phase /\ MappedMode' = "forward"
    /\ Decisions!Leap <=>
          /\ MappedMode = "back" /\ MappedMode' = "leap"
          /\ MappedTrail' = SubSeq(MappedTrail, 1,
                                   Len(MappedTrail) - (Len(MappedTrail) \div BackFraction))
          /\ MappedChar' = MappedChar /\ MappedPhase' = MappedPhase
    /\ Decisions!Resume <=>
          /\ MappedMode = "leap" \/ (MappedTrail = <<>> /\ MappedMode = "back")
          /\ MappedChar' = Decisions!State(MappedTrail)
          /\ MappedPhase' \in (IF MappedTrail = <<>> THEN 1 ELSE Last(MappedTrail).phase)..MappedPhase
          /\ MappedMode' = "forward" /\ MappedTrail' = MappedTrail
    /\ UNCHANGED Decisions!decisionVars <=>
          /\ MappedTrail' = MappedTrail /\ MappedChar' = MappedChar
          /\ MappedPhase' = MappedPhase /\ MappedMode' = MappedMode
<1> USE SameOperators, SameEnds DEF MappedTrail, MappedChar, MappedPhase, MappedMode
<1>1. Decisions!OtherWay = OtherWayOf(MappedTrail)
  BY DEF Decisions!OtherWay, OtherWayOf
<1>2. Decisions!Open <=> /\ MappedTrail # <<>> /\ Last(MappedTrail).other # Contradiction
                         /\ ~ Contradictory(Decisions!State(OtherWayOf(MappedTrail)))
  BY <1>1 DEF Decisions!Open
<1>3. Decisions!Discard <=>
          /\ MappedMode = "back" /\ MappedTrail # <<>>
          /\ ~ (/\ Last(MappedTrail).other # Contradiction
                /\ ~ Contradictory(Decisions!State(OtherWayOf(MappedTrail))))
          /\ MappedTrail' = Front(MappedTrail) /\ MappedChar' = MappedChar
          /\ MappedPhase' = MappedPhase /\ MappedMode' = MappedMode
  BY <1>2 DEF Decisions!Discard
<1>4. Decisions!Flip <=>
          /\ MappedMode = "back" /\ MappedTrail # <<>>
          /\ Last(MappedTrail).other # Contradiction
          /\ ~ Contradictory(Decisions!State(OtherWayOf(MappedTrail)))
          /\ MappedTrail' = OtherWayOf(MappedTrail)
          /\ MappedChar' = Decisions!State(OtherWayOf(MappedTrail))
          /\ MappedPhase' = Last(MappedTrail).phase /\ MappedMode' = "forward"
  BY <1>1, <1>2 DEF Decisions!Flip
<1>5. Decisions!Leap <=>
          /\ MappedMode = "back" /\ MappedMode' = "leap"
          /\ MappedTrail' = SubSeq(MappedTrail, 1,
                                   Len(MappedTrail) - (Len(MappedTrail) \div BackFraction))
          /\ MappedChar' = MappedChar /\ MappedPhase' = MappedPhase
  BY DEF Decisions!Leap
<1>6. Decisions!Resume <=>
          /\ MappedMode = "leap" \/ (MappedTrail = <<>> /\ MappedMode = "back")
          /\ MappedChar' = Decisions!State(MappedTrail)
          /\ MappedPhase' \in (IF MappedTrail = <<>> THEN 1 ELSE Last(MappedTrail).phase)..MappedPhase
          /\ MappedMode' = "forward" /\ MappedTrail' = MappedTrail
  BY DEF Decisions!Resume
<1>7. UNCHANGED Decisions!decisionVars <=>
          /\ MappedTrail' = MappedTrail /\ MappedChar' = MappedChar
          /\ MappedPhase' = MappedPhase /\ MappedMode' = MappedMode
  BY DEF Decisions!decisionVars
<1> QED BY <1>3, <1>4, <1>5, <1>6, <1>7

-----------------------------------------------------------------------------
(* Steps that leave the stack alone *)

\* The whole of a sequence.
LEMMA WholeSeq ==
    ASSUME NEW S, NEW s \in Seq(S)
    PROVE  SubSeq(s, 1, Len(s) - 0) = s
<1> DEFINE n == Len(s)
<1>1. n \in Nat /\ s \in [1..n -> S]
  BY LenProperties
<1>2. n - 0 = n
  <2> HIDE DEF n
  <2> QED BY <1>1
<1>3. SubSeq(s, 1, n) = [i \in 1..n |-> s[i]]
  <2> HIDE DEF n
  <2> QED BY <1>1
<1> QED BY <1>1, <1>2, <1>3

\* Nothing is to be discarded outside a leap: the trail is that of all guesses.
LEMMA WholeTrail ==
    ASSUME Inv, TraceInv
    PROVE  /\ Guesses \in Seq(Narrowing) /\ Len(Guesses) \in Nat /\ steps \in Nat
           /\ op # "jump" => steps = 0 /\ MappedTrail = Guesses
<1>1. stack \in Seq(StackElement) /\ stack # <<>> /\ steps \in Nat
  BY DEF Inv, TypeOK, StackTypeOK
<1>2. Guesses \in Seq(Narrowing)
  BY <1>1, TrailType DEF Guesses
<1>3. op # "jump" => steps = 0
  BY DEF TraceInv
<1>4. SubSeq(Guesses, 1, Len(Guesses) - 0) = Guesses
  BY <1>2, WholeSeq
<1> QED BY <1>1, <1>2, <1>3, <1>4, LenProperties DEF MappedTrail

\* The same after a step.
LEMMA WholeTrailNext ==
    ASSUME Inv', TraceInv'
    PROVE  op' # "jump" => MappedTrail' = Guesses'
<1>1. stack' \in Seq(StackElement) /\ stack' # <<>>
  BY DEF Inv, TypeOK, StackTypeOK
<1>2. Guesses' \in Seq(Narrowing)
  BY <1>1, TrailType DEF Guesses
<1>3. op' # "jump" => steps' = 0
  BY DEF TraceInv
<1>4. SubSeq(Guesses', 1, Len(Guesses') - 0) = Guesses'
  BY <1>2, WholeSeq
<1> QED BY <1>3, <1>4 DEF MappedTrail

\* A step that changes neither the stack nor whether its client can use it.
LEMMA QuietTraces ==
    ASSUME TraceInv, UNCHANGED <<stackVars, phase>>,
           pc' \in {"backtrack", "unwind", "abort"} <=> pc \in {"backtrack", "unwind", "abort"},
           pc' \in {"check", "probe"} => clean' /\ Phases[phase].twobit,
           pc' = "probe" => todo' = {},
           caller' # "complete"
    PROVE  TraceInv' /\ UNCHANGED Decisions!decisionVars
<1>1. /\ stack' = stack /\ char' = char /\ back' = back /\ op' = op /\ steps' = steps
      /\ phase' = phase /\ Settled' = Settled
  BY DEF stackVars, Settled
<1>2. Guesses' = Guesses
  BY <1>1 DEF Guesses
<1>3. SnapshotsTraced(stack)' = SnapshotsTraced(stack)
  BY <1>1
<1>4. TraceInv'
  BY <1>1, <1>2, <1>3 DEF TraceInv
<1>5. /\ MappedTrail' = MappedTrail /\ MappedChar' = MappedChar
      /\ MappedPhase' = MappedPhase /\ MappedMode' = MappedMode
  BY <1>1, <1>2 DEF MappedTrail, MappedChar, MappedPhase, MappedMode
<1> QED BY <1>4, <1>5, MappedBackActions

\* The search is about to go back.
LEMMA FailTraces ==
    ASSUME TraceInv, stack' = stack, op' = op, steps' = steps, phase' = phase, op = "idle",
           pc \notin {"backtrack", "unwind", "abort"}, pc' = "backtrack", caller' # "complete"
    PROVE  TraceInv' /\ Decisions!Fail
<1>1. Settled /\ ~ Settled'
  BY DEF Settled
<1>2. Guesses' = Guesses
  BY DEF Guesses
<1>3. SnapshotsTraced(stack)' = SnapshotsTraced(stack)
  OBVIOUS
<1>4. TraceInv'
  BY <1>1, <1>2, <1>3 DEF TraceInv
<1>5. /\ MappedTrail' = MappedTrail /\ MappedChar' = Start
      /\ MappedPhase' = MappedPhase /\ MappedMode = "forward" /\ MappedMode' = "back"
  BY <1>1, <1>2 DEF MappedTrail, MappedChar, MappedPhase, MappedMode
<1> QED BY <1>4, <1>5, MappedActions

\* The stack of a search that starts has no decisions.
LEMMA StartTrail ==
    /\ SnapshotsTraced(<<Element(Start, 1)>>)
    /\ Trail(<<Element(Start, 1)>>) = <<>>
    /\ Decisions!State(<<>>) = Start
<1>1. Update(Start) = Start
  BY StartConsistent DEF Updated
<1>2. Decisions!State(<<>>) = Start
  BY <1>1, StateIs, MadeNone
<1> DEFINE e == Element(Start, 1)
           none == <<>>
<1>3. none \in Seq(StackElement) /\ Len(none) = 0 /\ DOMAIN none = {}
  OBVIOUS
<1>4. e \in StackElement /\ e.guesses = <<>> /\ e.characteristic = Start
  BY StartType, PhaseNumbers DEF Element, StackElement
<1>5. SnapshotsTraced(none)
  BY <1>3 DEF SnapshotsTraced
<1>6. Trail(none) = <<>>
  BY <1>3, BeforeNone DEF Trail
<1>7. <<e>> = Append(none, e)
  OBVIOUS
<1> HIDE DEF e, none
<1>8. SnapshotsTraced(Append(none, e)) /\ Trail(Append(none, e)) = Trail(none)
  BY <1>2, <1>3, <1>4, <1>5, <1>6, AppendedTrail
<1> QED BY <1>2, <1>6, <1>7, <1>8 DEF e

\* The first state is the first one of the abstract specification.
LEMMA InitTraces == Init => TraceInv /\ Decisions!Init
<1> SUFFICES ASSUME Init PROVE TraceInv /\ Decisions!Init
  OBVIOUS
<1>1. /\ stack = <<Element(Start, 1)>> /\ char = Start /\ op = "idle" /\ steps = 0
      /\ pc = "loop" /\ phase = 1 /\ caller = "bit"
  BY DEF Init
<1>2. Guesses = <<>> /\ SnapshotsTraced(stack)
  BY <1>1, StartTrail DEF Guesses
<1>3. Len(Guesses) = 0 /\ SubSeq(Guesses, 1, 0 - 0) = <<>>
  BY <1>2
<1>4. TraceInv
  BY <1>1, <1>2, <1>3, StartTrail DEF TraceInv
<1>5. MappedTrail = <<>> /\ MappedChar = Start /\ MappedPhase = 1 /\ MappedMode = "forward"
  BY <1>1, <1>3 DEF MappedTrail, MappedChar, MappedPhase, MappedMode, Settled
<1> QED BY <1>4, <1>5, MappedActions

\* So is that of a restart.
LEMMA RestartTraces ==
    ASSUME TraceInv, RestartSearch, op = "idle", pc \notin {"backtrack", "unwind", "abort"}
    PROVE  TraceInv' /\ Decisions!Restart
<1>1. /\ stack' = <<Element(Start, 1)>> /\ char' = Start /\ op' = "idle" /\ steps' = steps
      /\ pc' = "loop" /\ phase' = 1 /\ caller' = caller
  BY DEF RestartSearch, taskVars
<1>2. steps' = 0 /\ caller' # "complete"
  BY <1>1 DEF TraceInv
<1>3. Guesses' = <<>> /\ SnapshotsTraced(stack')
  BY <1>1, StartTrail DEF Guesses
<1>4. Len(Guesses') = 0 /\ SubSeq(Guesses', 1, Len(Guesses') - steps') = <<>>
  BY <1>2, <1>3
<1>5. TraceInv'
  BY <1>1, <1>2, <1>3, StartTrail DEF TraceInv
<1>6. /\ MappedTrail' = <<>> /\ MappedChar' = Start /\ MappedPhase' = 1
      /\ MappedMode = "forward" /\ MappedMode' = "forward"
  BY <1>1, <1>4 DEF MappedTrail, MappedChar, MappedPhase, MappedMode, Settled
<1> QED BY <1>5, <1>6, MappedActions

-----------------------------------------------------------------------------
(* Guesses *)

\* A choice on what lies between a trail and its propagation is a decision more.
LEMMA ChosenState ==
    ASSUME NEW t \in Seq(Narrowing), NEW d \in Narrowing, NEW c \in Characteristic,
           Below(c, Made(t)), Below(Update(Made(t)), c), d.taken \subseteq c[d.pos]
    PROVE  Choose(c, d.pos, d.taken) = Decisions!State(Append(t, d))
<1>1. d.pos \in Bit /\ Made(t) \in Characteristic
  BY MadeType DEF Narrowing, Decisions!Decision
<1>2. Choose(c, d.pos, d.taken) = Choose(Made(t), d.pos, d.taken)
  BY <1>1, BetweenUpdates
<1>3. Choose(Made(t), d.pos, d.taken) = Update(Made(Append(t, d)))
  BY MadeAppend DEF Choose
<1> QED BY <1>2, <1>3, StateIs

\* A guess, as a decision, belongs to a phase.
LEMMA DecisionType ==
    ASSUME NEW g \in Guess, NEW p \in PhaseNumber
    PROVE  DecisionOf(g, p) \in Narrowing
<1>1. p \in Nat
  BY PhaseNumbers
<1>2. /\ g.pos \in Bit /\ g.first \in Condition /\ g.second \in Condition
      /\ g.first \cup g.second \subseteq Start[g.pos]
  BY DEF Guess
<1> QED BY <1>1, <1>2, SameOperators DEF DecisionOf, Narrowing, Decisions!Decision

\* A choice that holds is a decision for the phase of the search.
LEMMA PushTraces ==
    ASSUME Inv, StackInv, TraceInv, op = "idle", pc = "guess", Inv',
           NEW b \in Bit, NEW first, NEW second,
           first \cap second = {}, first \cup second \subseteq char[b],
           ~ Contradictory(Choose(char, b, first)), Push(Choose(char, b, first), b, first, second),
           UNCHANGED <<back, op, steps, pc, phase, caller>>
    PROVE  TraceInv' /\ Decisions!Decide
<1> DEFINE g == [pos |-> b, first |-> first, second |-> second]
           c == Choose(char, b, first)
           d == DecisionOf(g, phase)
<1>1. /\ stack \in Seq(StackElement) /\ stack # <<>> /\ char \in Characteristic
      /\ phase \in PhaseNumber /\ Top.phase = phase /\ Settled
  BY DEF Inv, TypeOK, StackTypeOK, SearchTypeOK, StackInv, OpInv, Settled
<1>2. char = Decisions!State(Guesses) /\ SnapshotsTraced(stack) /\ steps = 0
      /\ caller # "complete"
  BY <1>1 DEF TraceInv
<1>3. char \in [Bit -> Condition] /\ char[b] \subseteq Start[b]
  BY <1>1, CharacteristicType
<1>4. g \in Guess
  <2>1. first \in Condition /\ second \in Condition
    BY <1>3 DEF Condition
  <2> QED BY <1>3, <2>1 DEF Guess
<1>5. d \in Narrowing /\ d.pos = b /\ d.taken = first /\ d.other = second /\ d.phase = phase
  <2>1. d \in Narrowing
    BY <1>1, <1>4, DecisionType
  <2> QED BY <2>1 DEF DecisionOf
<1>6. Guesses \in Seq(Narrowing)
  BY WholeTrail
<1>7. Made(Guesses) \in Characteristic
  BY <1>6, MadeType
<1>8. Below(char, Made(Guesses)) /\ Below(Update(Made(Guesses)), char)
  <2>1. char = Update(Made(Guesses))
    BY <1>2, StateIs
  <2> QED BY <1>1, <1>7, <2>1, UpdateType, BelowIsOrder
<1> HIDE DEF d
<1>9. c = Decisions!State(Append(Guesses, d))
  <2>1. d.taken \subseteq char[d.pos]
    BY <1>5
  <2>2. Choose(char, d.pos, d.taken) = Decisions!State(Append(Guesses, d))
    BY <1>1, <1>5, <1>6, <1>8, <2>1, ChosenState
  <2> QED BY <1>5, <2>2
<1>10. c \in Characteristic /\ Below(c, SetBitCondition(char, b, first))
  <2>1. first \subseteq Start[b]
    BY <1>3
  <2>2. SetBitCondition(char, b, first) \in Characteristic
    BY <1>1, <2>1, SetType
  <2> QED BY <2>2, UpdateType DEF Choose
<1>11. stack' = WithGuess(stack, c, g) /\ char' = c
  BY DEF Push
<1>12. /\ SnapshotsTraced(WithGuess(stack, c, g))
       /\ Trail(WithGuess(stack, c, g)) = Append(Trail(stack), d)
  <2> HIDE DEF c, g
  <2>1. d = DecisionOf(g, Last(stack).phase)
    BY <1>1 DEF d, Top
  <2> QED BY <1>1, <1>2, <1>4, <1>9, <1>10, <2>1, GuessTrail DEF Guesses
<1>13. Guesses' = Append(Guesses, d)
  BY <1>11, <1>12 DEF Guesses
<1>14. SnapshotsTraced(stack)'
  BY <1>11, <1>12
<1>15. TraceInv'
  <2> HIDE DEF c
  <2> QED BY <1>2, <1>9, <1>11, <1>13, <1>14 DEF TraceInv
<1>16. MappedTrail = Guesses /\ MappedTrail' = Guesses'
  BY <1>15, WholeTrail, WholeTrailNext
<1>17. /\ MappedMode = "forward" /\ MappedMode' = MappedMode /\ MappedPhase = phase
       /\ MappedPhase' = MappedPhase /\ MappedChar = char /\ MappedChar' = c
  BY <1>1, <1>11 DEF MappedMode, MappedPhase, MappedChar, Settled
<1>18. first # Contradiction
  <2>1. SetBitCondition(char, b, first)[b] = first
    BY <1>3 DEF SetBitCondition
  <2>2. c[b] \subseteq first
    BY <1>10, <2>1 DEF Below
  <2> HIDE DEF c
  <2>3. c[b] # Contradiction
    BY DEF Contradictory, c
  <2> QED BY <2>2, <2>3 DEF Contradiction
<1>19. d \in [pos : Bit, taken : Condition \ {Contradiction}, other : Condition,
              phase : {MappedPhase}]
  BY <1>4, <1>17, <1>18 DEF d, DecisionOf, Guess
<1>20. ~ Contradictory(MappedChar')
  BY <1>17
<1> HIDE DEF c
<1> QED BY <1>5, <1>9, <1>13, <1>15, <1>16, <1>17, <1>19, <1>20, MappedActions

\* A guess is a decision, or both choices of it fail.
LEMMA GuessBitTraces ==
    ASSUME Inv, StackInv, TraceInv, GuessBit, Inv'
    PROVE  TraceInv' /\ (Decisions!Decide \/ Decisions!Fail)
<1>1. /\ pc = "guess" /\ op = "idle" /\ task.pos \in Bit /\ char \in Characteristic
      /\ caller # "complete"
  <2>1. pc = "guess"
    BY DEF GuessBit
  <2>2. task.pos \in Bit /\ char \in Characteristic
    BY DEF Inv, TypeOK, StackTypeOK, SearchTypeOK
  <2> QED BY <2>1, <2>2 DEF StackInv, OpInv, TraceInv
<1>2. UNCHANGED <<back, op, steps, phase, caller>>
  BY DEF GuessBit
<1>3. PICK g \in task.guesses :
        /\ g[1] = char[task.pos]
        /\ \E i \in FirstIndex(g[2]) :
              LET b     == task.pos
                  first == CHOICES(g[1])[i]
                  other == CHOICES(g[1])[3 - i]
                  c1    == Choose(char, b, first)
                  c2    == Choose(char, b, other)
              IN  \/ /\ ~ Contradictory(c1)
                     /\ Push(c1, b, first, Remembered(g[2], other))
                     /\ UNCHANGED <<pc, critical, task>>
                  \/ /\ Contradictory(c1) /\ ~ Contradictory(c2)
                     /\ Push(c2, b, other, Contradiction)
                     /\ UNCHANGED <<pc, critical, task>>
                  \/ /\ Contradictory(c1) /\ Contradictory(c2)
                     /\ char' = c1
                     /\ pc' = "backtrack"
                     /\ critical' = IF caller = "bit" THEN WithCritical(b, phase) ELSE critical
                     /\ task' = NoTask
                     /\ UNCHANGED stack
  BY DEF GuessBit
<1> DEFINE b == task.pos
<1>4. PICK i \in FirstIndex(g[2]) :
        \/ /\ ~ Contradictory(Choose(char, b, CHOICES(g[1])[i]))
           /\ Push(Choose(char, b, CHOICES(g[1])[i]), b, CHOICES(g[1])[i],
                   Remembered(g[2], CHOICES(g[1])[3 - i]))
           /\ UNCHANGED pc
        \/ /\ ~ Contradictory(Choose(char, b, CHOICES(g[1])[3 - i]))
           /\ Push(Choose(char, b, CHOICES(g[1])[3 - i]), b, CHOICES(g[1])[3 - i], Contradiction)
           /\ UNCHANGED pc
        \/ pc' = "backtrack" /\ UNCHANGED stack
  BY <1>3
<1>5. i \in {1, 2} /\ 3 - i \in {1, 2} /\ 3 - i # i
  BY DEF FirstIndex
<1> DEFINE first == CHOICES(g[1])[i]
           other == CHOICES(g[1])[3 - i]
<1>6. /\ first \cap other = {}
      /\ first \cup other \subseteq char[b]
  <2>1. char[b] \in Condition
    BY <1>1, CharacteristicType
  <2>2. IsOpen(char[b])
    BY <1>3 DEF StackInv, TaskInv
  <2>3. /\ CHOICES(char[b])[1] \cup CHOICES(char[b])[2] = char[b]
        /\ CHOICES(char[b])[1] \cap CHOICES(char[b])[2] = {}
    BY <2>1, <2>2, ChoicesDivide
  <2> QED BY <1>3, <1>5, <2>3
<1> HIDE DEF first, other, b
<1>7. CASE ~ Contradictory(Choose(char, b, first))
           /\ Push(Choose(char, b, first), b, first, Remembered(g[2], other))
           /\ UNCHANGED pc
  <2> DEFINE second == Remembered(g[2], other)
  <2>1. second = other \/ second = {}
    BY DEF Remembered, Contradiction
  <2> HIDE DEF second
  <2>2. first \cap second = {} /\ first \cup second \subseteq char[b]
    BY <1>6, <2>1
  <2>3. TraceInv' /\ Decisions!Decide
    BY <1>1, <1>2, <1>7, <2>2, PushTraces DEF second, b
  <2> QED BY <2>3
<1>8. CASE ~ Contradictory(Choose(char, b, other))
           /\ Push(Choose(char, b, other), b, other, Contradiction)
           /\ UNCHANGED pc
  <2>1. other \cap Contradiction = {} /\ other \cup Contradiction \subseteq char[b]
    BY <1>6 DEF Contradiction
  <2>2. TraceInv' /\ Decisions!Decide
    BY <1>1, <1>2, <1>8, <2>1, PushTraces DEF b
  <2> QED BY <2>2
<1>9. CASE pc' = "backtrack" /\ UNCHANGED stack
  BY <1>1, <1>2, <1>9, FailTraces
<1> QED BY <1>4, <1>7, <1>8, <1>9 DEF first, other

-----------------------------------------------------------------------------
(* Back to another choice *)

\* Without its last guess a stack has one decision less.
LEMMA FrontTrail ==
    ASSUME NEW st \in Seq(StackElement), st # <<>>, SnapshotsTraced(st),
           GuessesFit(Last(st)), Last(st).guesses # <<>>
    PROVE  /\ SnapshotsTraced(WithoutGuess(st))
           /\ Trail(WithoutGuess(st)) = Front(Trail(st))
<1> DEFINE t == Last(st)
           n == Len(t.guesses)
           pre == Prefix(t, n - 1)
<1>1. t \in StackElement /\ Len(st) \in DOMAIN st /\ t = st[Len(st)] /\ n \in Nat
  BY TopType, LenProperties DEF Last
<1>2. Front(t.guesses) = SubSeq(t.guesses, 1, n - 1) /\ n - 1 \in Nat
  BY <1>1, LastGuessFits
<1>3. WithoutGuess(st) = [st EXCEPT ![Len(st)] = pre]
  BY <1>1, <1>2 DEF WithoutGuess, Prefix
<1>4. n - 1 \in 0..n /\ n - (n - 1) = 1
  <2> HIDE DEF n
  <2> QED BY <1>1, <1>2
<1>5. /\ SnapshotsTraced([st EXCEPT ![Len(st)] = pre])
      /\ Trail([st EXCEPT ![Len(st)] = pre]) = SubSeq(Trail(st), 1, Len(Trail(st)) - (n - (n - 1)))
  BY <1>4, PrefixTrail
<1>6. Front(Trail(st)) = SubSeq(Trail(st), 1, Len(Trail(st)) - 1)
  BY LastDecision
<1> HIDE DEF n, pre
<1> QED BY <1>3, <1>4, <1>5, <1>6

\* A step of going back ends with the client's characteristic and phase.
LEMMA ReturnTraces ==
    ASSUME TraceInv, pc = "unwind", op \in {"choice", "jump"},
           pc' = pc, phase' = phase, caller' = caller, op' = "done", steps' = 0,
           SnapshotsTraced(stack'), char' = Decisions!State(Guesses')
    PROVE  /\ TraceInv'
           /\ MappedMode' = "forward" /\ MappedChar' = char' /\ MappedPhase' = back'
           /\ MappedMode = (IF op = "jump" THEN "leap" ELSE "back") /\ MappedPhase = phase
<1>1. ~ Settled /\ Settled'
  BY DEF Settled
<1>2. TraceInv'
  BY <1>1 DEF TraceInv
<1> QED BY <1>1, <1>2 DEF MappedMode, MappedChar, MappedPhase

\* A step of going back that goes on.
LEMMA TurnTraces ==
    ASSUME TraceInv, pc = "unwind", op \in {"choice", "jump"},
           pc' = pc, phase' = phase, caller' = caller, op' = op,
           SnapshotsTraced(stack'),
           IF op = "jump" THEN steps' <= Len(Guesses') ELSE steps' = 0
    PROVE  /\ TraceInv'
           /\ MappedMode = (IF op = "jump" THEN "leap" ELSE "back")
           /\ MappedMode' = MappedMode /\ MappedChar' = MappedChar /\ MappedPhase' = MappedPhase
<1>1. ~ Settled /\ ~ Settled'
  BY DEF Settled
<1>2. TraceInv'
  BY <1>1 DEF TraceInv
<1> QED BY <1>1, <1>2 DEF MappedMode, MappedChar, MappedPhase

\* No guess is left: the search resumes at the start.
LEMMA ReturnSnapshotTraces ==
    ASSUME Inv, StackInv, TraceInv, ReturnSnapshot, Inv',
           pc = "unwind", pc' = pc, phase' = phase, caller' = caller
    PROVE  TraceInv' /\ Decisions!Resume
<1>1. /\ op = "choice" /\ NoGuesses(stack) /\ stack' = stack
      /\ char' = Top.characteristic /\ back' = Top.phase /\ op' = "done" /\ steps' = 0
  BY DEF ReturnSnapshot, Return
<1>2. /\ stack \in Seq(StackElement) /\ stack # <<>> /\ Top \in StackElement
      /\ Top = stack[Len(stack)] /\ Len(stack) \in DOMAIN stack /\ SnapshotsTraced(stack)
  BY TopFacts DEF TraceInv
<1>3. Guesses = <<>> /\ Guesses' = Guesses
  BY <1>1, <1>2, SizeIsLength DEF Guesses
<1>4. char' = Decisions!State(<<>>)
  <2>1. /\ Trail(stack) = Before(stack, Len(stack) - 1) \o DecisionsOf(Top)
        /\ Before(stack, Len(stack) - 1) \in Seq(Narrowing)
    BY <1>2, TrailType DEF Top
  <2>2. Top.guesses = <<>>
    BY <1>1, <1>2 DEF NoGuesses
  <2>3. DecisionsOf(Top) = <<>>
    BY <1>2, <2>2, DecisionsType
  <2>4. Trail(stack) = Before(stack, Len(stack) - 1)
    BY <2>1, <2>3, ConcatEmptySeq
  <2>5. Top.characteristic = Decisions!State(Before(stack, Len(stack) - 1))
    BY <1>2 DEF SnapshotsTraced
  <2> QED BY <1>1, <1>3, <2>4, <2>5 DEF Guesses
<1>5. SnapshotsTraced(stack')
  BY <1>1, <1>2
<1>6. /\ TraceInv' /\ MappedMode' = "forward" /\ MappedChar' = char' /\ MappedPhase' = back'
      /\ MappedMode = "back" /\ MappedPhase = phase
  BY <1>1, <1>3, <1>4, <1>5, ReturnTraces
<1>7. MappedTrail = <<>> /\ MappedTrail' = <<>>
  BY <1>1, <1>3, <1>6, WholeTrail, WholeTrailNext
<1>8. back' \in 1..phase
  <2>1. Top.phase \in 1..Len(Phases) /\ phase \in Nat /\ Top.phase <= phase
    BY TopFacts, PhaseNumbers DEF StackInv, OpInv, Inv, TypeOK, SearchTypeOK
  <2> QED BY <1>1, <2>1, PhaseNumbers
<1> QED BY <1>4, <1>6, <1>7, <1>8, MappedBackActions

\* Elements without a guess are not seen.
LEMMA PopElementTraces ==
    ASSUME Inv, StackInv, TraceInv, PopElement, Inv',
           pc = "unwind", pc' = pc, phase' = phase, caller' = caller
    PROVE  TraceInv' /\ UNCHANGED Decisions!decisionVars
<1>1. /\ op = "choice" /\ Top.guesses = <<>> /\ stack' = Front(stack)
      /\ op' = op /\ steps' = steps
  BY DEF PopElement
<1>2. /\ stack \in Seq(StackElement) /\ stack # <<>> /\ Top \in StackElement
      /\ SnapshotsTraced(stack)
  BY TopFacts DEF TraceInv
<1>3. SnapshotsTraced(stack') /\ Trail(stack') = Before(stack, Len(stack) - 1)
  BY <1>1, <1>2, DroppedTrail
<1>4. Trail(stack) = Before(stack, Len(stack) - 1)
  <2>1. /\ Trail(stack) = Before(stack, Len(stack) - 1) \o DecisionsOf(Top)
        /\ Before(stack, Len(stack) - 1) \in Seq(Narrowing)
    BY <1>2, TrailType DEF Top
  <2>2. DecisionsOf(Top) = <<>>
    BY <1>1, <1>2, DecisionsType
  <2> QED BY <2>1, <2>2, ConcatEmptySeq
<1>5. Guesses' = Guesses
  BY <1>3, <1>4 DEF Guesses
<1>6. steps' = 0
  BY <1>1 DEF TraceInv
<1>7. /\ TraceInv'
      /\ MappedMode' = MappedMode /\ MappedChar' = MappedChar /\ MappedPhase' = MappedPhase
  BY <1>1, <1>3, <1>6, TurnTraces
<1>8. MappedTrail' = MappedTrail
  BY <1>1, <1>5, <1>6, WholeTrail DEF MappedTrail
<1> QED BY <1>7, <1>8, MappedBackActions

\* The other choice of a guess, as a decision.
LEMMA FlippedDecision ==
    ASSUME NEW g, NEW p
    PROVE  Decisions!Flipped(DecisionOf(g, p)) =
              DecisionOf([pos |-> g.pos, first |-> g.second, second |-> Contradiction], p)
<1> DEFINE d == DecisionOf(g, p)
<1>1. d = [pos |-> g.pos, taken |-> g.first, other |-> g.second, phase |-> p]
  BY DEF DecisionOf
<1>2. Decisions!Flipped(d) = [d EXCEPT !.taken = d.other, !.other = Contradiction]
  BY SameOperators DEF Decisions!Flipped
<1>3. d.other = g.second
  BY <1>1
<1> DEFINE e == [d EXCEPT !.taken = g.second]
<1>4. e = [pos |-> g.pos, taken |-> g.second, other |-> g.second, phase |-> p]
  BY <1>1
<1>5. Decisions!Flipped(d) = [e EXCEPT !.other = Contradiction]
  BY <1>2, <1>3
<1> HIDE DEF e
<1>6. [e EXCEPT !.other = Contradiction] =
         [pos |-> g.pos, taken |-> g.second, other |-> Contradiction, phase |-> p]
  BY <1>4
<1> HIDE DEF d
<1> QED BY <1>5, <1>6 DEF d, DecisionOf

\* What a guess is dropped for: facts of the two steps that look at the last guess.
LEMMA LastGuessTraced ==
    ASSUME Inv, StackInv, TraceInv, Top.guesses # <<>>, op = "choice"
    PROVE  /\ WithoutGuess(stack) \in Seq(StackElement) /\ WithoutGuess(stack) # <<>>
           /\ Last(WithoutGuess(stack)).phase = Top.phase
           /\ SnapshotsTraced(WithoutGuess(stack))
           /\ Trail(WithoutGuess(stack)) = Front(Guesses)
           /\ Guesses # <<>> /\ MappedTrail = Guesses
           /\ Last(Guesses) = DecisionOf(Last(Top.guesses), Top.phase)
           /\ OtherChoice = Decisions!State(OtherWayOf(Guesses))
           /\ OtherChoice \in Characteristic
<1> DEFINE less == WithoutGuess(stack)
           g == Last(Top.guesses)
           taken == [pos |-> g.pos, first |-> g.second, second |-> Contradiction]
           d == DecisionOf(taken, Top.phase)
           r == Replay(Last(less))
<1>1. /\ stack \in Seq(StackElement) /\ stack # <<>> /\ Top \in StackElement
      /\ GuessesFit(Top) /\ Consistent(stack) /\ SnapshotsTraced(stack)
      /\ Top.phase \in PhaseNumber
  BY TopFacts DEF TraceInv
<1>2. /\ less \in Seq(StackElement) /\ less # <<>> /\ Consistent(less)
      /\ Last(less) = Prefix(Top, Len(Top.guesses) - 1) /\ Last(less).phase = Top.phase
  BY <1>1, DropGuess DEF Top
<1>3. SnapshotsTraced(less) /\ Trail(less) = Front(Guesses)
  BY <1>1, FrontTrail DEF Top, Guesses
<1>4. Guesses # <<>> /\ Last(Guesses) = DecisionOf(g, Top.phase)
  BY <1>1, LastDecision DEF Top, Guesses
<1>5. MappedTrail = Guesses
  BY WholeTrail
<1>6. g \in Guess /\ g.pos \in Bit /\ g.second \subseteq r[g.pos] /\ taken \in Guess
  BY <1>1, <1>2, LastGuessFits DEF Guess, Contradiction, Condition
<1> HIDE DEF less
<1>7. Decisions!Flipped(Last(Guesses)) = d
  BY <1>4, FlippedDecision
<1>8. GuessesFit(Last(less))
  <2>1. Len(less) \in DOMAIN less
    BY <1>2, TopType
  <2> QED BY <1>2, <2>1 DEF Consistent, Last
<1>9. /\ Trail(less) \in Seq(Narrowing) /\ r \in Characteristic
      /\ Below(r, Made(Trail(less))) /\ Below(Update(Made(Trail(less))), r)
  BY <1>2, <1>3, <1>8, TopTraced
<1>10. d \in Narrowing /\ d.pos = g.pos /\ d.taken = g.second
  <2>1. d \in Narrowing
    BY <1>1, <1>6, DecisionType
  <2> QED BY <2>1 DEF DecisionOf
<1>11. OtherChoice = Choose(r, g.pos, g.second)
  BY DEF OtherChoice, less
<1> HIDE DEF d, g, r
<1>12. Choose(r, d.pos, d.taken) = Decisions!State(Append(Trail(less), d))
  BY <1>6, <1>9, <1>10, ChosenState
<1>13. OtherChoice = Decisions!State(OtherWayOf(Guesses))
  BY <1>3, <1>7, <1>10, <1>11, <1>12 DEF OtherWayOf
<1>14. OtherChoice \in Characteristic
  BY <1>6, <1>9, <1>11, ChooseNarrows
<1> QED BY <1>2, <1>3, <1>4, <1>5, <1>13, <1>14 DEF less, g

\* A guess is dropped when its other choice is no way out.
LEMMA DiscardTraces ==
    ASSUME Inv, StackInv, TraceInv, Inv',
           pc = "unwind", pc' = pc, phase' = phase, caller' = caller,
           op = "choice", Top.guesses # <<>>, stack' = WithoutGuess(stack),
           UNCHANGED <<char, back, op, steps>>,
           ~ HasOther(Last(Top.guesses)) \/ Contradictory(OtherChoice)
    PROVE  TraceInv' /\ Decisions!Discard
<1>1. /\ SnapshotsTraced(stack') /\ Guesses' = Front(Guesses)
      /\ Guesses # <<>> /\ MappedTrail = Guesses
      /\ Last(Guesses).other = Last(Top.guesses).second
      /\ OtherChoice = Decisions!State(OtherWayOf(Guesses))
  BY LastGuessTraced DEF Guesses, DecisionOf
<1>2. steps' = 0
  BY DEF TraceInv
<1>3. /\ TraceInv' /\ MappedMode = "back"
      /\ MappedMode' = MappedMode /\ MappedChar' = MappedChar /\ MappedPhase' = MappedPhase
  BY <1>1, <1>2, TurnTraces
<1>4. MappedTrail' = Front(Guesses)
  BY <1>1, <1>3, WholeTrailNext
<1>5. ~ (/\ Last(MappedTrail).other # Contradiction
         /\ ~ Contradictory(Decisions!State(OtherWayOf(MappedTrail))))
  BY <1>1 DEF HasOther
<1> QED BY <1>1, <1>3, <1>4, <1>5, MappedBackActions

\* The other choice is taken, or it is no way out.
LEMMA TakeOtherChoiceTraces ==
    ASSUME Inv, StackInv, TraceInv, TakeOtherChoice, Inv',
           pc = "unwind", pc' = pc, phase' = phase, caller' = caller
    PROVE  TraceInv' /\ (Decisions!Discard \/ Decisions!Flip)
<1> DEFINE g == Last(Top.guesses)
           taken == [pos |-> g.pos, first |-> g.second, second |-> Contradiction]
           less == WithoutGuess(stack)
           c == OtherChoice
           d == DecisionOf(taken, Top.phase)
<1>1. /\ Top.guesses # <<>> /\ op = "choice" /\ HasOther(g)
      /\ \/ /\ Contradictory(c)
            /\ stack' = less
            /\ UNCHANGED <<char, back, op, steps>>
         \/ /\ ~ Contradictory(c)
            /\ stack' = WithGuess(less, c, taken)
            /\ Return(c, Top.phase)
  BY DEF TakeOtherChoice
<1>2. /\ less \in Seq(StackElement) /\ less # <<>> /\ Last(less).phase = Top.phase
      /\ SnapshotsTraced(less) /\ Trail(less) = Front(Guesses)
      /\ Guesses # <<>> /\ MappedTrail = Guesses
      /\ Last(Guesses) = DecisionOf(g, Top.phase)
      /\ c = Decisions!State(OtherWayOf(Guesses)) /\ c \in Characteristic
  BY <1>1, LastGuessTraced
<1>3. taken \in Guess
  <2>1. Top \in StackElement /\ GuessesFit(Top)
    BY TopFacts
  <2>2. g \in Guess
    BY <1>1, <2>1, LastGuessFits
  <2> QED BY <2>2 DEF Guess, Contradiction, Condition
<1>4. OtherWayOf(Guesses) = Append(Trail(less), d)
  <2>1. Decisions!Flipped(Last(Guesses)) = d
    BY <1>2, FlippedDecision
  <2> QED BY <1>2, <2>1 DEF OtherWayOf
<1> HIDE DEF c, less
<1>5. CASE Contradictory(c)
  <2>1. stack' = less /\ UNCHANGED <<char, back, op, steps>>
    BY <1>1, <1>5
  <2> QED BY <1>1, <1>5, <2>1, DiscardTraces DEF c, less
<1>6. CASE ~ Contradictory(c)
  <2>1. /\ stack' = WithGuess(less, c, taken) /\ char' = c /\ back' = Top.phase
        /\ op' = "done" /\ steps' = 0
    BY <1>1, <1>6 DEF Return
  <2> HIDE DEF taken
  <2>2. /\ SnapshotsTraced(WithGuess(less, c, taken))
        /\ Trail(WithGuess(less, c, taken)) = Append(Trail(less), d)
    BY <1>2, <1>3, <1>4, GuessTrail
  <2>3. SnapshotsTraced(stack') /\ Guesses' = OtherWayOf(Guesses)
    BY <1>4, <2>1, <2>2 DEF Guesses
  <2>4. /\ TraceInv' /\ MappedMode' = "forward" /\ MappedChar' = char' /\ MappedPhase' = back'
        /\ MappedMode = "back"
    BY <1>1, <1>2, <2>1, <2>3, ReturnTraces
  <2>5. MappedTrail' = OtherWayOf(Guesses)
    BY <2>1, <2>3, <2>4, WholeTrailNext
  <2>6. Last(Guesses).other # Contradiction /\ Last(Guesses).phase = Top.phase
    BY <1>1, <1>2 DEF DecisionOf, HasOther
  <2> QED BY <1>2, <1>6, <2>1, <2>4, <2>5, <2>6, MappedBackActions
<1> QED BY <1>5, <1>6

-----------------------------------------------------------------------------
(* Back by leaps *)

\* The beginning of a sequence, whatever is behind it.
LEMMA BeginOfConcat ==
    ASSUME NEW S, NEW s \in Seq(S), NEW t \in Seq(S), NEW n \in 0..Len(s)
    PROVE  SubSeq(s \o t, 1, n) = SubSeq(s, 1, n)
<1> DEFINE m == Len(s)
           l == Len(t)
           a == s \o t
<1>1. m \in Nat /\ l \in Nat /\ n \in Nat /\ n <= m
  BY LenProperties
<1>2. \A i \in 1..(m + l) : a[i] = IF i <= m THEN s[i] ELSE t[i - m]
  BY ConcatProperties
<1> HIDE DEF m, l, a
<1>3. \A i \in 1..n : i \in 1..(m + l) /\ i <= m
  BY <1>1
<1>4. SubSeq(a, 1, n) = [i \in 1..n |-> a[i]]
  BY <1>1
<1>5. SubSeq(s, 1, n) = [i \in 1..n |-> s[i]]
  BY <1>1
<1> QED BY <1>2, <1>3, <1>4, <1>5 DEF a

\* The search leaps over a part of the decisions, or goes back choice by choice.
LEMMA BackTrackTraces ==
    ASSUME Inv, StackInv, TraceInv, BackTrack, Inv'
    PROVE  TraceInv' /\ (Decisions!Leap \/ UNCHANGED Decisions!decisionVars)
<1> DEFINE n == Len(Guesses)
           k == Size \div BackFraction
<1>1. /\ pc = "backtrack" /\ pc' = "unwind" /\ stack' = stack /\ char' = char /\ phase' = phase
      /\ back' = back /\ caller' = caller
      /\ (op' = "choice" /\ steps' = 0) \/ (op' = "jump" /\ steps' = k)
  BY DEF BackTrack, taskVars
<1>2. op = "idle" /\ SnapshotsTraced(stack) /\ caller # "complete"
  BY <1>1 DEF StackInv, OpInv, TraceInv
<1>3. /\ Size = n /\ n \in Nat /\ Guesses \in Seq(Narrowing) /\ Guesses' = Guesses
      /\ MappedTrail = Guesses
  <2>1. stack \in Seq(StackElement)
    BY DEF Inv, TypeOK, StackTypeOK
  <2>2. Size = n
    BY <2>1, SizeIsLength DEF Guesses
  <2>3. Guesses' = Guesses
    BY <1>1 DEF Guesses
  <2> QED BY <1>2, <2>2, <2>3, WholeTrail
<1>4. ~ Settled /\ ~ Settled'
  BY <1>1, <1>2 DEF Settled
<1>5. k \in Nat /\ k <= n
  <2> HIDE DEF n
  <2> QED BY <1>3, LimitsAssumption
<1>6. SnapshotsTraced(stack)'
  BY <1>1, <1>2
<1>7. TraceInv'
  <2>1. IF op' = "jump" THEN steps' <= Len(Guesses') ELSE steps' = 0
    BY <1>1, <1>3, <1>5
  <2> HIDE DEF k, n
  <2> QED BY <1>1, <1>2, <1>4, <1>6, <2>1 DEF TraceInv
<1>8. MappedMode = "back" /\ MappedChar' = MappedChar /\ MappedPhase' = MappedPhase
  BY <1>1, <1>2, <1>4 DEF MappedMode, MappedChar, MappedPhase
<1>9. CASE op' = "choice"
  <2>1. MappedTrail' = Guesses /\ MappedMode' = "back"
    BY <1>3, <1>4, <1>7, <1>9, WholeTrailNext DEF MappedMode
  <2> QED BY <1>3, <1>7, <1>8, <2>1, MappedBackActions
<1>10. CASE op' = "jump"
  <2>1. MappedMode' = "leap" /\ steps' = k
    BY <1>1, <1>4, <1>10 DEF MappedMode
  <2>2. MappedTrail' = SubSeq(Guesses, 1, Len(Guesses) - (Len(Guesses) \div BackFraction))
    BY <1>3, <2>1 DEF MappedTrail
  <2> HIDE DEF n, k
  <2> QED BY <1>3, <1>7, <1>8, <2>1, <2>2, MappedBackActions
<1> QED BY <1>1, <1>9, <1>10

\* An element whose guesses are all discarded: its part of the trail was given up before.
LEMMA DropElementTraces ==
    ASSUME Inv, StackInv, TraceInv, DropElement, Inv',
           pc = "unwind", pc' = pc, phase' = phase, caller' = caller
    PROVE  TraceInv' /\ UNCHANGED Decisions!decisionVars
<1> DEFINE below == Before(stack, Len(stack) - 1)
           k == Len(Top.guesses)
           m == Len(below)
           ds == DecisionsOf(Top)
<1>1. /\ op = "jump" /\ steps > k /\ steps' = steps - k /\ stack' = Front(stack) /\ op' = op
  BY DEF DropElement
<1>2. /\ stack \in Seq(StackElement) /\ stack # <<>> /\ Top \in StackElement
      /\ SnapshotsTraced(stack) /\ k \in Nat /\ steps \in Nat
  BY TopFacts DEF TraceInv, Inv, TypeOK, StackTypeOK
<1>3. SnapshotsTraced(stack') /\ Guesses' = below
  BY <1>1, <1>2, DroppedTrail DEF Guesses
<1>4. /\ Guesses = below \o ds /\ below \in Seq(Narrowing) /\ ds \in Seq(Narrowing)
      /\ Len(Guesses) = m + k /\ m \in Nat
  BY <1>2, TrailType, DecisionsType, LenProperties DEF Guesses, Top
<1>5. steps <= Len(Guesses)
  BY <1>1 DEF TraceInv
<1> HIDE DEF below, ds, k, m
<1>6. steps' <= m /\ m - steps' \in 0..m /\ Len(Guesses) - steps = m - steps'
  BY <1>1, <1>2, <1>4, <1>5
<1>7. Len(Guesses') = m
  BY <1>3 DEF m
<1>8. /\ TraceInv'
      /\ MappedMode' = MappedMode /\ MappedChar' = MappedChar /\ MappedPhase' = MappedPhase
  BY <1>1, <1>3, <1>6, <1>7, TurnTraces
<1>9. SubSeq(below \o ds, 1, m - steps') = SubSeq(below, 1, m - steps')
  BY <1>4, <1>6, BeginOfConcat DEF m
<1>10. MappedTrail = SubSeq(below \o ds, 1, m - steps')
  BY <1>4, <1>6 DEF MappedTrail
<1>11. MappedTrail' = SubSeq(below, 1, m - steps')
  BY <1>3, <1>7 DEF MappedTrail
<1> QED BY <1>8, <1>9, <1>10, <1>11, MappedBackActions

\* The rest of the discarded guesses, and the others repeated: the search resumes.
LEMMA JumpTraces ==
    ASSUME Rebuilds, Inv, StackInv, TraceInv, Jump, Inv',
           pc = "unwind", pc' = pc, phase' = phase, caller' = caller
    PROVE  TraceInv' /\ Decisions!Resume
<1> DEFINE gs == Top.guesses
           n == Len(gs) - steps
           el == Prefix(Top, n)
           left == [stack EXCEPT ![Len(stack)] = el]
<1>1. /\ stack \in Seq(StackElement) /\ stack # <<>> /\ Top \in StackElement
      /\ SnapshotsTraced(stack) /\ Len(gs) \in Nat /\ steps \in Nat
      /\ GuessesFit(Top) /\ Doable(Top) /\ Consistent(stack)
      /\ Top = stack[Len(stack)] /\ Len(stack) \in DOMAIN stack
  BY TopFacts DEF TraceInv, Inv, TypeOK, StackTypeOK
<1>2. op = "jump" /\ ~ NDEBUG /\ steps <= Len(Guesses)
  <2>1. op = "jump"
    BY DEF Jump
  <2> QED BY <2>1 DEF StackInv, OpInv, TraceInv, Rebuilds
<1>3. steps <= Len(gs)
  <2>1. CASE Len(stack) = 1
    <3>1. Len(Guesses) = Len(Before(stack, Len(stack) - 1)) + Len(gs)
      BY <1>1, TrailType DEF Guesses, Top
    <3>2. Len(Before(stack, Len(stack) - 1)) = 0
      BY <2>1, BeforeNone
    <3> HIDE DEF gs
    <3> QED BY <1>1, <1>2, <3>1, <3>2
  <2>2. CASE ~ (Len(stack) = 1)
    BY <2>2 DEF Jump
  <2> QED BY <2>1, <2>2
<1>4. n \in Nat /\ n <= Len(gs) /\ n \in 0..Len(gs) /\ Len(gs) - n = steps /\ ~ (steps > Len(gs))
  <2> HIDE DEF gs
  <2> QED BY <1>1, <1>3
<1>5. /\ el \in StackElement /\ GuessesFit(el) /\ Doable(el) /\ Len(el.guesses) = n
      /\ el.characteristic = Top.characteristic /\ el.phase = Top.phase
  <2>1. el.characteristic = Top.characteristic /\ el.phase = Top.phase
    BY <1>1 DEF Prefix, StackElement
  <2> HIDE DEF n
  <2> QED BY <1>1, <1>4, <2>1, PrefixFits
<1>6. left \in Seq(StackElement) \ {<<>>} /\ Consistent(left) /\ Last(left) = el
      /\ Len(left) = Len(stack)
  <2>1. Frequency > 0 => n <= Frequency
    <3>1. Frequency > 0 => Len(gs) <= Frequency
      BY <1>1 DEF Consistent, Short
    <3> HIDE DEF gs
    <3> QED BY <1>1, <1>4, <3>1, FrequencyAssumption
  <2> HIDE DEF el, n
  <2> QED BY <1>1, <1>5, <2>1, ExchangeTop DEF Top
<1>7. stack' = left /\ op' = "done" /\ steps' = 0 /\ back' = Top.phase /\ char' = Update(Replay(el))
  <2> DEFINE was == [stack EXCEPT ![Len(stack)].guesses = Kept(gs, steps)]
  <2>1. was = left
    BY <1>1 DEF Kept, Prefix
  <2> HIDE DEF left
  <2>2. stack' = was /\ Return(Rebuilt(Replay(Last(was))), Top.phase)
    BY <1>4 DEF Jump
  <2> QED BY <1>2, <1>6, <2>1, <2>2 DEF Return, Rebuilt
<1>8. /\ SnapshotsTraced(left)
      /\ Trail(left) = SubSeq(Trail(stack), 1, Len(Trail(stack)) - (Len(gs) - n))
  <2> HIDE DEF n
  <2> QED BY <1>1, <1>4, PrefixTrail DEF Top
<1> HIDE DEF left, el, n
<1>9. Trail(left) = MappedTrail
  BY <1>4, <1>8 DEF MappedTrail, Guesses
<1>10. char' = Decisions!State(Trail(left))
  <2>1. /\ Trail(left) \in Seq(Narrowing) /\ Made(Trail(left)) \in Characteristic
        /\ Replay(el) \in Characteristic
        /\ Below(Replay(el), Made(Trail(left)))
        /\ Below(Update(Made(Trail(left))), Replay(el))
    BY <1>5, <1>6, <1>8, TopTraced
  <2>2. Update(Replay(el)) = Update(Made(Trail(left)))
    BY <2>1, BetweenUpdates
  <2> QED BY <1>7, <2>2, StateIs
<1>11. Guesses' = Trail(left)
  BY <1>7 DEF Guesses
<1>12. SnapshotsTraced(stack')
  BY <1>7, <1>8
<1>13. /\ TraceInv' /\ MappedMode' = "forward" /\ MappedChar' = char' /\ MappedPhase' = back'
       /\ MappedMode = "leap" /\ MappedPhase = phase
  BY <1>2, <1>7, <1>10, <1>11, <1>12, ReturnTraces
<1>14. MappedTrail' = MappedTrail
  BY <1>7, <1>9, <1>11, <1>13, WholeTrailNext
<1>15. Top.phase \in 1..phase
  <2>1. Top.phase \in 1..Len(Phases) /\ phase \in Nat /\ Top.phase <= phase
    <3>1. Top.phase \in PhaseNumber /\ Top.phase <= phase
      BY TopFacts DEF StackInv, OpInv
    <3>2. phase \in PhaseNumber
      BY DEF Inv, TypeOK, SearchTypeOK
    <3> QED BY <3>1, <3>2, PhaseNumbers
  <2> QED BY <2>1, PhaseNumbers
<1>16. MappedTrail # <<>> => /\ Last(MappedTrail).phase \in Nat
                             /\ Last(MappedTrail).phase <= Top.phase
  <2> SUFFICES ASSUME MappedTrail # <<>>
               PROVE  /\ Last(MappedTrail).phase \in Nat
                      /\ Last(MappedTrail).phase <= Top.phase
    OBVIOUS
  <2> DEFINE t == Trail(left)
             l == Len(left)
  <2>1. left \in Seq(StackElement) /\ left # <<>> /\ left[l] = el /\ PhasesAscend(left)
    BY <1>6 DEF Last, Consistent
  <2>2. l \in 1..l
    <3>1. l \in Nat \ {0}
      BY <2>1, FrontLastType
    <3> HIDE DEF l
    <3> QED BY <3>1
  <2>3. \A j \in DOMAIN t : t[j].phase <= el.phase
    BY <2>1, <2>2, PhasesOfTrail DEF Trail
  <2>4. t \in Seq(Narrowing) /\ t # <<>>
    BY <1>9, <2>1, TrailType
  <2> HIDE DEF t
  <2>5. Last(t) \in Narrowing /\ Len(t) \in DOMAIN t /\ Last(t) = t[Len(t)]
    <3>1. Len(t) \in Nat \ {0} /\ DOMAIN t = 1..Len(t) /\ Last(t) \in Narrowing
      BY <2>4, FrontLastType, LenProperties
    <3> QED BY <3>1 DEF Last
  <2>6. Last(t).phase \in Nat
    BY <2>5 DEF Narrowing, Decisions!Decision
  <2> QED BY <1>5, <1>9, <2>3, <2>5, <2>6 DEF t
<1>17. MappedPhase' \in (IF MappedTrail = <<>> THEN 1 ELSE Last(MappedTrail).phase)..MappedPhase
  BY <1>7, <1>13, <1>15, <1>16
<1> QED BY <1>9, <1>10, <1>13, <1>14, <1>17, MappedBackActions

\* One turn of the loops of the stack.
LEMMA UnwindTraces ==
    ASSUME Rebuilds, Inv, StackInv, TraceInv, Unwind, Inv'
    PROVE  TraceInv' /\ [Decisions!Next]_(Decisions!decisionVars)
<1>1. pc = "unwind" /\ StackStep /\ pc' = pc /\ phase' = phase /\ caller' = caller
  BY DEF Unwind, searchVars, taskVars
<1>2. CASE ReturnSnapshot
  BY <1>1, <1>2, ReturnSnapshotTraces DEF Decisions!Next
<1>3. CASE PopElement
  BY <1>1, <1>3, PopElementTraces
<1>4. CASE PopGuess
  <2>1. /\ op = "choice" /\ Top.guesses # <<>> /\ stack' = WithoutGuess(stack)
        /\ UNCHANGED <<char, back, op, steps>> /\ ~ HasOther(Last(Top.guesses))
    BY <1>4 DEF PopGuess
  <2> QED BY <1>1, <2>1, DiscardTraces DEF Decisions!Next
<1>5. CASE TakeOtherChoice
  BY <1>1, <1>5, TakeOtherChoiceTraces DEF Decisions!Next
<1>6. CASE DropElement
  BY <1>1, <1>6, DropElementTraces
<1>7. CASE Jump
  BY <1>1, <1>7, JumpTraces DEF Decisions!Next
<1> QED BY <1>1, <1>2, <1>3, <1>4, <1>5, <1>6, <1>7 DEF StackStep

-----------------------------------------------------------------------------
(* Checks and phases *)

\* A completeness check has no bit with two pairs to try.
LEMMA NothingToTry ==
    ASSUME ChecksDecideNothing, Inv, StackInv, DecidedInv, TraceInv, pc = "check"
    PROVE  TwoPairs(mask, char) = {}
<1>1. op = "idle" /\ clean /\ Phases[phase].twobit /\ phase \in PhaseNumber
  BY DEF StackInv, OpInv, TraceInv, Inv, TypeOK, SearchTypeOK
<1>2. \A b \in Decides(phase) : ~ IsOpen(char[b])
  BY <1>1 DEF DecidedInv
<1>3. \A p \in 1..phase : \A b \in Decides(p) : ~ IsOpen(char[b])
  BY <1>1, <1>2, EarlierDecided, DecidedParts
<1>4. \A b \in Bit : ~ IsOpen(char[b])
  BY <1>1, <1>3 DEF ChecksDecideNothing
<1>5. mask \subseteq Bit
  BY DEF Inv, TypeOK, CheckTypeOK
<1>6. IsOpen(NoDifference) /\ IsOpen(Difference)
  BY DEF IsOpen, NoDifference, Difference
<1>7. \A b \in Bit : char[b] # NoDifference /\ char[b] # Difference
  BY <1>4, <1>6
<1> QED BY <1>5, <1>7 DEF TwoPairs

\* A check begins, ends, and changes nothing that the stack knows of.
LEMMA CheckTraces ==
    ASSUME ChecksDecideNothing, Inv, StackInv, DecidedInv, TraceInv,
           BeginCheck \/ Check \/ Probe \/ ProbesDone
    PROVE  TraceInv' /\ UNCHANGED Decisions!decisionVars
<1>1. caller # "complete"
  BY DEF TraceInv
<1>2. CASE BeginCheck
  <2>1. /\ UNCHANGED <<stackVars, phase>> /\ caller' = caller
        /\ pc = "loop" /\ pc' = "check" /\ clean' /\ Phases[phase].twobit
    BY <1>2 DEF BeginCheck, NothingToGuess, AtHead, taskVars
  <2> QED BY <1>1, <2>1, QuietTraces
<1>3. ASSUME EndCheck, pc \in {"check", "probe"}
      PROVE  TraceInv' /\ UNCHANGED Decisions!decisionVars
  <2>1. clean
    BY <1>3 DEF TraceInv
  <2>2. UNCHANGED <<stackVars, phase>> /\ caller' = caller /\ pc' = "callback"
    BY <1>3, <2>1 DEF EndCheck, CheckPassed, taskVars
  <2> QED BY <1>1, <1>3, <2>2, QuietTraces
<1>4. CASE Check
  <2>1. CASE LeaveLoop /\ EndCheck
    BY <1>3, <1>4, <2>1 DEF Check
  <2>2. CASE ~ LeaveLoop
    <3>1. /\ UNCHANGED <<stackVars, phase>> /\ caller' = caller /\ clean' = clean
          /\ pc = "check" /\ pc' = "probe" /\ todo' = TwoPairs(mask, char)
      BY <1>4, <2>2 DEF Check, searchVars, taskVars
    <3>2. todo' = {} /\ clean' /\ Phases[phase].twobit
      BY <3>1, NothingToTry DEF TraceInv
    <3> QED BY <1>1, <3>1, <3>2, QuietTraces
  <2> QED BY <1>4, <2>1, <2>2 DEF Check
<1>5. CASE Probe
  BY <1>5 DEF Probe, TraceInv
<1>6. CASE ProbesDone
  BY <1>3, <1>6 DEF ProbesDone
<1> QED BY <1>2, <1>4, <1>5, <1>6

\* The next phase starts an element with what the decisions led to.
LEMMA NextPhaseTraces ==
    ASSUME Inv, StackInv, TraceInv, NextPhase, Inv'
    PROVE  TraceInv' /\ Decisions!EnterPhase
<1> DEFINE e == Element(char, phase + 1)
<1>1. /\ pc = "callback" /\ pc' = "loop" /\ phase' = phase + 1 /\ stack' = Append(stack, e)
      /\ char' = char /\ back' = back /\ op' = op /\ steps' = steps /\ caller' = caller
  BY DEF NextPhase, WithPhase, taskVars
<1>2. op = "idle" /\ Settled /\ Settled'
  <2>1. op = "idle"
    BY <1>1 DEF StackInv, OpInv
  <2> QED BY <1>1, <2>1 DEF Settled
<1>3. /\ stack \in Seq(StackElement) /\ char \in Characteristic /\ phase + 1 \in PhaseNumber
      /\ SnapshotsTraced(stack) /\ char = Decisions!State(Trail(stack))
  <2>1. phase' \in PhaseNumber
    BY DEF Inv, TypeOK, SearchTypeOK
  <2> QED BY <1>1, <1>2, <2>1 DEF Inv, TypeOK, StackTypeOK, TraceInv, Guesses
<1>4. e \in StackElement /\ e.guesses = <<>> /\ e.characteristic = char
  BY <1>3 DEF Element, StackElement
<1> HIDE DEF e
<1>5. SnapshotsTraced(Append(stack, e)) /\ Trail(Append(stack, e)) = Trail(stack)
  BY <1>3, <1>4, AppendedTrail
<1>6. SnapshotsTraced(stack') /\ Guesses' = Guesses
  BY <1>1, <1>5 DEF Guesses
<1>7. TraceInv'
  BY <1>1, <1>2, <1>6 DEF TraceInv
<1>8. MappedTrail' = MappedTrail
  BY <1>1, <1>6 DEF MappedTrail
<1>9. /\ MappedMode = "forward" /\ MappedMode' = MappedMode /\ MappedChar' = MappedChar
      /\ MappedPhase' = MappedPhase + 1
  BY <1>1, <1>2 DEF MappedMode, MappedChar, MappedPhase
<1> QED BY <1>7, <1>8, <1>9, MappedActions

\* BackTrack returns to the search, which takes over the phase.
LEMMA SettleTraces ==
    ASSUME Inv, StackInv, TraceInv, Settle
    PROVE  TraceInv' /\ UNCHANGED Decisions!decisionVars
<1>1. /\ pc = "unwind" /\ op = "done" /\ op' = "idle" /\ phase' = back /\ caller # "complete"
      /\ pc' = "loop" /\ stack' = stack /\ char' = char /\ steps' = steps /\ caller' = caller
  BY DEF Settle, PhaseAfter, taskVars, TraceInv
<1>2. Settled /\ Settled'
  BY <1>1 DEF Settled
<1>3. Guesses' = Guesses
  BY <1>1 DEF Guesses
<1>4. SnapshotsTraced(stack)' = SnapshotsTraced(stack)
  BY <1>1
<1>5. TraceInv'
  BY <1>1, <1>2, <1>3, <1>4 DEF TraceInv
<1>6. /\ MappedTrail' = MappedTrail /\ MappedMode' = MappedMode /\ MappedChar' = MappedChar
      /\ MappedPhase' = MappedPhase
  BY <1>1, <1>2, <1>3 DEF MappedTrail, MappedMode, MappedChar, MappedPhase
<1> QED BY <1>5, <1>6, MappedBackActions

\* The steps that leave the stack and its client as they are.
LEMMA OtherTraces ==
    ASSUME Inv, StackInv, TraceInv,
           \/ Stop \/ PickCritical \/ PickBit \/ GuessDone \/ AbortBackTrack
           \/ NoCheck \/ Found \/ (AfterFound /\ EndFound)
    PROVE  TraceInv' /\ UNCHANGED Decisions!decisionVars
<1>1. caller # "complete"
  BY DEF TraceInv
<1>2. UNCHANGED <<stackVars, phase>> /\ caller' # "complete"
  BY <1>1 DEF Stop, PickCritical, PickBit, GuessDone, AbortBackTrack, NoCheck, Found, AfterFound,
              searchVars, taskVars
<1>3. /\ pc \notin {"backtrack", "unwind", "abort"} \/ pc = "backtrack"
      /\ pc = "backtrack" => pc' = "abort"
      /\ pc # "backtrack" => pc' \notin {"backtrack", "unwind", "abort", "check", "probe"}
  BY DEF Stop, PickCritical, PickBit, GuessDone, AbortBackTrack, NoCheck, Found, AfterFound,
         AtHead, NothingToGuess
<1> QED BY <1>2, <1>3, QuietTraces

-----------------------------------------------------------------------------
(* The search implements the stack of decisions *)

\* Every step keeps the trace, and is one of the abstract specification or none.
LEMMA NextTraces ==
    ASSUME Rebuilds, ChecksDecideNothing, Inv, StackInv, DecidedInv, TraceInv, [Next]_vars, Inv'
    PROVE  TraceInv' /\ [Decisions!Next]_(Decisions!decisionVars)
<1>1. CASE UNCHANGED vars
  <2>1. /\ UNCHANGED <<stackVars, phase>> /\ pc' = pc /\ clean' = clean /\ todo' = todo
        /\ caller' = caller
    BY <1>1 DEF vars, searchVars, taskVars, checkVars
  <2>2. caller' # "complete" /\ (pc' \in {"check", "probe"} => clean' /\ Phases[phase].twobit)
        /\ (pc' = "probe" => todo' = {})
    BY <2>1 DEF TraceInv
  <2> QED BY <2>1, <2>2, QuietTraces
<1>2. CASE \/ Stop \/ PickCritical \/ PickBit \/ GuessDone \/ AbortBackTrack
           \/ NoCheck \/ Found \/ (AfterFound /\ EndFound)
  BY <1>2, OtherTraces
<1>3. CASE OutOfCredits \/ TooManyChecks \/ (AfterFound /\ ~ EndFound)
  <2>1. RestartSearch /\ pc \in {"loop", "found"}
    BY <1>3 DEF OutOfCredits, TooManyChecks, AfterFound, NothingToGuess, AtHead
  <2>2. op = "idle"
    BY <2>1 DEF StackInv, OpInv
  <2> QED BY <2>1, <2>2, RestartTraces DEF Decisions!Next
<1>4. CASE GuessBit
  BY <1>4, GuessBitTraces DEF Decisions!Next
<1>5. CASE BackTrack
  BY <1>5, BackTrackTraces DEF Decisions!Next
<1>6. CASE Unwind
  BY <1>6, UnwindTraces
<1>7. CASE Settle
  BY <1>7, SettleTraces
<1>8. CASE BeginCheck \/ Check \/ Probe \/ ProbesDone
  BY <1>8, CheckTraces
<1>9. CASE Reject
  <2>1. /\ pc = "callback" /\ pc' = "backtrack" /\ stack' = stack /\ op' = op /\ steps' = steps
        /\ phase' = phase /\ caller' # "complete"
    BY <1>9 DEF Reject, stackVars, searchVars
  <2>2. op = "idle"
    BY <2>1 DEF StackInv, OpInv
  <2> QED BY <2>1, <2>2, FailTraces DEF Decisions!Next
<1>10. CASE NextPhase
  BY <1>10, NextPhaseTraces DEF Decisions!Next
<1>11. \/ UNCHANGED vars \/ GuessBit \/ BackTrack \/ Unwind \/ Settle \/ Reject \/ NextPhase
       \/ (\/ Stop \/ PickCritical \/ PickBit \/ GuessDone \/ AbortBackTrack
           \/ NoCheck \/ Found \/ (AfterFound /\ EndFound))
       \/ OutOfCredits \/ TooManyChecks \/ (AfterFound /\ ~ EndFound)
       \/ BeginCheck \/ Check \/ Probe \/ ProbesDone
  BY Zenon DEF Next
<1> QED BY <1>1, <1>2, <1>3, <1>4, <1>5, <1>6, <1>7, <1>8, <1>9, <1>10, <1>11, Zenon

(***************************************************************************)
(* With the leaps propagated and nothing left for the completeness checks  *)
(* to decide, the characteristic of the search and each snapshot on its    *)
(* stack are exactly what the guesses make of the start, however many were *)
(* undone, leapt over and taken again.                                     *)
(***************************************************************************)
THEOREM TraceInvariance ==
    ASSUME Rebuilds, ChecksDecideNothing
    PROVE  Spec => []TraceInv
<1>1. Init => TraceInv
  BY InitTraces
<1>2. Inv /\ StackInv /\ DecidedInv /\ TraceInv /\ [Next]_vars /\ Inv' => TraceInv'
  BY NextTraces
<1> QED BY <1>1, <1>2, StackInvariance, DecidedInvariance, PTL DEF Spec

(***************************************************************************)
(* The search implements DecisionStack: its client cannot tell the stack   *)
(* with its elements, snapshots and repeated guesses from a plain list of  *)
(* decisions, and going back by choice gives up a decision only if its     *)
(* other choice fails (add_guess, backtrack_to_other_choice and backtrack  *)
(* of search_stack.cpp, with Search::Guess and Search::BackTrack).         *)
(***************************************************************************)
THEOREM SearchImplementsDecisions ==
    ASSUME Rebuilds, ChecksDecideNothing
    PROVE  Spec => ImplementsDecisionStack
<1>1. Init => Decisions!Init
  BY InitTraces
<1>2. Inv /\ StackInv /\ DecidedInv /\ TraceInv /\ [Next]_vars /\ Inv'
          => [Decisions!Next]_(Decisions!decisionVars)
  BY NextTraces
<1>3. Spec => []TraceInv
  BY TraceInvariance
<1> QED BY <1>1, <1>2, <1>3, StackInvariance, DecidedInvariance, PTL
        DEF Spec, ImplementsDecisionStack, Decisions!Spec
=============================================================================
