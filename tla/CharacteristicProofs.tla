------------------------ MODULE CharacteristicProofs ------------------------
(***************************************************************************)
(* What the operators of Characteristics do, for every set of bits and     *)
(* every set of bitslices: the choices of a condition, the narrowing of a  *)
(* bit, what propagation reaches, and that it keeps every solution.        *)
(***************************************************************************)
EXTENDS Characteristics, TLAPS

-----------------------------------------------------------------------------
(* The table of choices *)

(***************************************************************************)
(* No choice of the table Search::CHOICES allows a pair of values that the *)
(* condition does not.                                                     *)
(***************************************************************************)
LEMMA ChoicesNarrow ==
    ASSUME NEW bc \in Condition, NEW i \in {1, 2}
    PROVE  CHOICES(bc)[i] \subseteq bc /\ CHOICES(bc)[i] \in Condition
<1>1. CHOICES(bc)[1] \subseteq bc /\ CHOICES(bc)[2] \subseteq bc
  BY DEF CHOICES, NoDifference, Difference
<1> QED BY <1>1 DEF Condition

(***************************************************************************)
(* The two choices of an open condition divide its pairs between them, and *)
(* each gets one: this is what makes the search complete (search.h).       *)
(***************************************************************************)
THEOREM ChoicesDivide ==
    ASSUME NEW bc \in Condition, IsOpen(bc)
    PROVE  /\ CHOICES(bc)[1] \cup CHOICES(bc)[2] = bc
           /\ CHOICES(bc)[1] \cap CHOICES(bc)[2] = {}
           /\ CHOICES(bc)[1] # {} /\ CHOICES(bc)[2] # {}
<1>1. bc \subseteq {"0", "u", "n", "1"}
  BY DEF Condition, Pair
<1>2. CASE bc = NoDifference
  BY <1>2 DEF CHOICES, NoDifference, Difference
<1>3. CASE bc = Difference
  BY <1>3 DEF CHOICES, NoDifference, Difference
<1>4. CASE bc # NoDifference /\ bc # Difference
  <2>1. CHOICES(bc) = <<bc \cap NoDifference, bc \cap Difference>>
    BY <1>4 DEF CHOICES
  <2>2. bc \cap NoDifference # {} /\ bc \cap Difference # {}
    BY <1>1, <1>4 DEF IsOpen, NoDifference, Difference
  <2>3. /\ (bc \cap NoDifference) \cup (bc \cap Difference) = bc
        /\ (bc \cap NoDifference) \cap (bc \cap Difference) = {}
    BY <1>1 DEF NoDifference, Difference
  <2> QED BY <2>1, <2>2, <2>3
<1> QED BY <1>2, <1>3, <1>4

-----------------------------------------------------------------------------
(* Characteristics *)

\* A characteristic has a condition below that of the start for every bit.
LEMMA CharacteristicType ==
    ASSUME NEW c
    PROVE  c \in Characteristic <=>
              /\ c \in [Bit -> Condition]
              /\ \A b \in Bit : c[b] \subseteq Start[b]
<1>1. ASSUME c \in Characteristic
      PROVE  c \in [Bit -> Condition] /\ \A b \in Bit : c[b] \subseteq Start[b]
  <2>1. PICK possible \in SUBSET {x \in Bit \X Pair : x[2] \in Start[x[1]]} :
            c = [b \in Bit |-> {v \in Pair : <<b, v>> \in possible}]
    BY <1>1 DEF Characteristic
  <2>2. \A b \in Bit, v \in Pair : <<b, v>> \in possible => v \in Start[b]
    BY <2>1
  <2> QED BY <2>1, <2>2 DEF Condition
<1>2. ASSUME c \in [Bit -> Condition], \A b \in Bit : c[b] \subseteq Start[b]
      PROVE  c \in Characteristic
  <2> DEFINE possible == {x \in Bit \X Pair : x[2] \in c[x[1]]}
  <2>1. possible \in SUBSET {x \in Bit \X Pair : x[2] \in Start[x[1]]}
    BY <1>2
  <2>2. \A b \in Bit : c[b] = {v \in Pair : <<b, v>> \in possible}
    BY <1>2 DEF Condition
  <2>3. c = [b \in Bit |-> {v \in Pair : <<b, v>> \in possible}]
    BY <1>2, <2>2
  <2> HIDE DEF possible
  <2> QED BY <2>1, <2>3 DEF Characteristic
<1> QED BY <1>1, <1>2

\* The characteristic the search starts from is one of the search.
LEMMA StartType == Start \in Characteristic
BY StartAssumption, CharacteristicType

\* Update leads from a characteristic to one that is at least as narrow.
LEMMA UpdateType ==
    ASSUME NEW c \in Characteristic
    PROVE  Update(c) \in Characteristic /\ Below(Update(c), c)
<1> DEFINE below == {d \in Fixpoints : Below(d, c)}
           u == [b \in Bit |-> UNION {d[b] : d \in below}]
<1>1. Update(c) = u
  BY DEF Update, Closure
<1>2. \A b \in Bit : u[b] \subseteq c[b]
  BY DEF Below
<1>3. c \in [Bit -> Condition] /\ \A b \in Bit : c[b] \subseteq Start[b]
  BY CharacteristicType
<1>4. u \in [Bit -> Condition] /\ \A b \in Bit : u[b] \subseteq Start[b]
  BY <1>2, <1>3 DEF Condition
<1>5. u \in Characteristic
  BY <1>4, CharacteristicType
<1> QED BY <1>1, <1>2, <1>5 DEF Below

\* Setting a bit below the start leads to a characteristic again (SetBitCondition).
LEMMA SetType ==
    ASSUME NEW c \in Characteristic, NEW b \in Bit, NEW bc, bc \subseteq Start[b]
    PROVE  SetBitCondition(c, b, bc) \in Characteristic
<1>1. c \in [Bit -> Condition] /\ \A x \in Bit : c[x] \subseteq Start[x]
  BY CharacteristicType
<1>2. Start[b] \subseteq Pair
  BY StartAssumption DEF Condition
<1>3. bc \in Condition
  BY <1>2 DEF Condition
<1>4. /\ SetBitCondition(c, b, bc) \in [Bit -> Condition]
      /\ \A x \in Bit : SetBitCondition(c, b, bc)[x] \subseteq Start[x]
  BY <1>1, <1>3 DEF SetBitCondition
<1> QED BY <1>4, CharacteristicType

\* A choice and its propagation lead to a characteristic again.
LEMMA ChooseType ==
    ASSUME NEW c \in Characteristic, NEW b \in Bit, NEW bc, bc \subseteq Start[b]
    PROVE  Choose(c, b, bc) \in Characteristic
BY SetType, UpdateType DEF Choose

-----------------------------------------------------------------------------
(* The order of the characteristics *)

\* Below is reflexive, transitive and antisymmetric.
LEMMA BelowIsOrder ==
    ASSUME NEW c \in Characteristic, NEW d \in Characteristic, NEW e \in Characteristic
    PROVE  /\ Below(c, c)
           /\ Below(c, d) /\ Below(d, e) => Below(c, e)
           /\ Below(c, d) /\ Below(d, c) => c = d
<1>1. Below(c, c)
  BY DEF Below
<1>2. Below(c, d) /\ Below(d, e) => Below(c, e)
  BY DEF Below
<1>3. ASSUME Below(c, d), Below(d, c) PROVE c = d
  <2>1. c \in [Bit -> Condition] /\ d \in [Bit -> Condition]
    BY CharacteristicType
  <2>2. \A b \in Bit : c[b] = d[b]
    BY <1>3 DEF Below
  <2> QED BY <2>1, <2>2
<1> QED BY <1>1, <1>2, <1>3

\* What lies below a contradiction is one.
LEMMA ContradictionBelow ==
    ASSUME NEW c, NEW d, Below(c, d), Contradictory(d)
    PROVE  Contradictory(c)
BY DEF Below, Contradictory, Contradiction

\* Setting a bit keeps the order, and narrows if the new condition is narrower.
LEMMA SetBelow ==
    ASSUME NEW c \in Characteristic, NEW d \in Characteristic, Below(c, d),
           NEW b \in Bit, NEW x, NEW y, x \subseteq y
    PROVE  /\ Below(SetBitCondition(c, b, x), SetBitCondition(d, b, y))
           /\ x \subseteq c[b] => Below(SetBitCondition(c, b, x), c)
           /\ SetBitCondition(c, b, x)[b] = x
<1>1. c \in [Bit -> Condition] /\ d \in [Bit -> Condition]
  BY CharacteristicType
<1> QED BY <1>1 DEF SetBitCondition, Below

-----------------------------------------------------------------------------
(* Propagation *)

\* A pair of values is left if a fixpoint below has it.
LEMMA UpdateValue ==
    ASSUME NEW c \in Characteristic, NEW b \in Bit, NEW v
    PROVE  v \in Update(c)[b] <=> \E d \in Fixpoints : Below(d, c) /\ v \in d[b]
BY DEF Update, Closure

\* Every fixpoint below a characteristic is below what Update makes of it.
LEMMA UpdateIsLargest ==
    ASSUME NEW c \in Characteristic, NEW d \in Fixpoints, Below(d, c)
    PROVE  Below(d, Update(c))
BY UpdateValue DEF Below

\* The narrower a characteristic is, the narrower is what Update makes of it.
LEMMA UpdateMonotone ==
    ASSUME NEW c \in Characteristic, NEW d \in Characteristic, Below(c, d)
    PROVE  Below(Update(c), Update(d))
<1>1. ASSUME NEW e \in Fixpoints, Below(e, c) PROVE Below(e, d)
  BY <1>1 DEF Below
<1> QED BY <1>1, UpdateValue DEF Below

(***************************************************************************)
(* Update reaches a characteristic that no bitslice narrows any further:   *)
(* the loop of Characteristic::Update ends there, whatever its order is.   *)
(***************************************************************************)
THEOREM UpdateIsPropagated ==
    ASSUME NEW c \in Characteristic
    PROVE  Update(c) \in Fixpoints
<1> DEFINE u == Update(c)
<1>1. u \in Characteristic
  BY UpdateType
<1>2. ASSUME NEW s \in Steps, NEW b \in s.bits
      PROVE  u[b] = {t[b] : t \in Combinations(s, u)}
  <2>0. s.bits \subseteq Bit
    BY StepsAssumption
  <2> HIDE DEF u
  <2>1. ASSUME NEW v \in u[b] PROVE \E t \in Combinations(s, u) : v = t[b]
    <3>1. PICK d \in Fixpoints : Below(d, c) /\ v \in d[b]
      BY <2>0, <2>1, UpdateValue DEF u
    <3>2. PICK t \in Combinations(s, d) : v = t[b]
      BY <3>1 DEF Fixpoints, Propagated
    <3>3. Below(d, u)
      BY <3>1, UpdateIsLargest DEF u
    <3>4. t \in Combinations(s, u)
      BY <2>0, <3>2, <3>3 DEF Combinations, Below
    <3> QED BY <3>2, <3>4
  <2>2. ASSUME NEW t \in Combinations(s, u) PROVE t[b] \in u[b]
    BY <2>2 DEF Combinations
  <2> QED BY <2>1, <2>2
<1> HIDE DEF u
<1>3. Propagated(u)
  BY <1>2 DEF Propagated
<1> QED BY <1>1, <1>3 DEF Fixpoints, u

\* Update leaves a fixpoint as it is, and what it reached as well.
LEMMA UpdateIdempotent ==
    ASSUME NEW c \in Characteristic
    PROVE  /\ c \in Fixpoints => Update(c) = c
           /\ Update(Update(c)) = Update(c)
<1>1. ASSUME NEW d \in Fixpoints PROVE Update(d) = d
  <2>1. d \in Characteristic
    BY DEF Fixpoints
  <2>2. Below(d, Update(d)) /\ Below(Update(d), d)
    BY <2>1, UpdateType, UpdateIsLargest, BelowIsOrder
  <2> QED BY <2>1, <2>2, UpdateType, BelowIsOrder
<1> QED BY <1>1, UpdateIsPropagated

\* A choice narrows the characteristic, and the bit to the choice.
LEMMA ChooseNarrows ==
    ASSUME NEW c \in Characteristic, NEW b \in Bit, NEW x, x \subseteq c[b]
    PROVE  /\ Choose(c, b, x) \in Characteristic
           /\ Below(Choose(c, b, x), c)
           /\ Update(Choose(c, b, x)) = Choose(c, b, x)
<1>1. x \subseteq Start[b]
  BY CharacteristicType
<1>2. SetBitCondition(c, b, x) \in Characteristic
  BY <1>1, SetType
<1>3. Below(SetBitCondition(c, b, x), c)
  BY SetBelow, BelowIsOrder
<1>4. /\ Choose(c, b, x) \in Characteristic
      /\ Below(Choose(c, b, x), SetBitCondition(c, b, x))
  BY <1>2, UpdateType DEF Choose
<1> QED BY <1>2, <1>3, <1>4, BelowIsOrder, UpdateIdempotent DEF Choose

-----------------------------------------------------------------------------
(* Solutions *)

\* A solution has one pair for each bit, and no bitslice narrows it.
LEMMA SolutionType ==
    ASSUME NEW s \in Solution
    PROVE  /\ s \in Characteristic
           /\ \A b \in Bit : \E v : s[b] = {v}
           /\ s \in Fixpoints
<1>1. PICK f \in [Bit -> Pair] :
        /\ \A b \in Bit : f[b] \in Start[b]
        /\ \A st \in Steps : [b \in st.bits |-> f[b]] \in st.relation
        /\ s = [b \in Bit |-> {f[b]}]
  BY DEF Solution
<1>2. s \in [Bit -> Condition] /\ \A b \in Bit : s[b] \subseteq Start[b]
  BY <1>1 DEF Condition
<1>3. s \in Characteristic
  BY <1>2, CharacteristicType
<1>4. ASSUME NEW st \in Steps, NEW b \in st.bits
      PROVE  s[b] = {t[b] : t \in Combinations(st, s)}
  <2> DEFINE r == [x \in st.bits |-> f[x]]
  <2>1. st.bits \subseteq Bit
    BY StepsAssumption
  <2>2. r \in Combinations(st, s)
    BY <1>1, <2>1 DEF Combinations
  <2>3. ASSUME NEW t \in Combinations(st, s) PROVE t[b] = f[b]
    BY <1>1, <2>1, <2>3 DEF Combinations
  <2>4. r[b] = f[b] /\ s[b] = {f[b]}
    BY <1>1, <2>1
  <2> HIDE DEF r
  <2> QED BY <2>2, <2>3, <2>4
<1>5. Propagated(s)
  BY <1>4 DEF Propagated
<1> QED BY <1>1, <1>3, <1>5 DEF Fixpoints

(***************************************************************************)
(* Propagation loses no solution: one that a characteristic allows is      *)
(* still allowed after Update, which therefore finds no contradiction.     *)
(***************************************************************************)
THEOREM UpdateKeepsSolutions ==
    ASSUME NEW c \in Characteristic, NEW s \in Solution, Below(s, c)
    PROVE  Below(s, Update(c)) /\ ~ Contradictory(Update(c))
<1>1. s \in Fixpoints /\ \A b \in Bit : s[b] # {}
  BY SolutionType
<1>2. Below(s, Update(c))
  BY <1>1, UpdateIsLargest
<1>3. ~ Contradictory(s)
  BY <1>1 DEF Contradictory, Contradiction
<1> QED BY <1>2, <1>3, ContradictionBelow

\* The two choices of a condition are together the condition.
LEMMA ChoicesCover ==
    ASSUME NEW bc \in Condition
    PROVE  CHOICES(bc)[1] \cup CHOICES(bc)[2] = bc
<1>1. CASE IsOpen(bc)
  BY <1>1, ChoicesDivide
<1>2. CASE ~ IsOpen(bc)
  BY <1>2 DEF CHOICES
<1> QED BY <1>1, <1>2

(***************************************************************************)
(* A guess divides the solutions: each one that the characteristic allows  *)
(* is left after one of the two choices and the propagation of that.       *)
(***************************************************************************)
THEOREM ChoicesKeepSolutions ==
    ASSUME NEW c \in Characteristic, NEW s \in Solution, Below(s, c), NEW b \in Bit
    PROVE  \E i \in {1, 2} :
              /\ s[b] \subseteq CHOICES(c[b])[i]
              /\ Below(s, Choose(c, b, CHOICES(c[b])[i]))
              /\ ~ Contradictory(Choose(c, b, CHOICES(c[b])[i]))
<1>1. c \in [Bit -> Condition] /\ s \in [Bit -> Condition]
  BY SolutionType, CharacteristicType
<1>2. PICK v : s[b] = {v}
  BY SolutionType
<1>3. v \in c[b]
  BY <1>2 DEF Below
<1>4. PICK i \in {1, 2} : v \in CHOICES(c[b])[i]
  BY <1>1, <1>3, ChoicesCover
<1> DEFINE x == CHOICES(c[b])[i]
           e == SetBitCondition(c, b, x)
<1>5. x \subseteq c[b]
  BY <1>1, ChoicesNarrow
<1>6. s[b] \subseteq x
  BY <1>2, <1>4
<1> HIDE DEF x
<1>7. x \subseteq Start[b]
  BY <1>5, CharacteristicType
<1>8. e \in Characteristic
  BY <1>7, SetType
<1>9. Below(s, e)
  BY <1>1, <1>6 DEF Below, SetBitCondition
<1>10. Below(s, Choose(c, b, x)) /\ ~ Contradictory(Choose(c, b, x))
  BY <1>8, <1>9, UpdateKeepsSolutions DEF Choose
<1> QED BY <1>6, <1>10 DEF x

(***************************************************************************)
(* A characteristic without a contradiction that has one pair left for     *)
(* each bit is a solution, if Update leaves it as it is.                   *)
(***************************************************************************)
THEOREM DecidedIsSolution ==
    ASSUME NEW c \in Characteristic, ~ Contradictory(Update(c)),
           \A b \in Bit : ~ IsOpen(c[b])
    PROVE  c \in Solution
<1> DEFINE u == Update(c)
<1>1. /\ u \in Characteristic /\ Below(u, c) /\ Propagated(u)
      /\ c \in [Bit -> Condition] /\ u \in [Bit -> Condition]
      /\ \A b \in Bit : c[b] \subseteq Start[b]
  BY UpdateType, UpdateIsPropagated, CharacteristicType DEF Fixpoints
<1>2. \A b \in Bit : u[b] # {}
  BY DEF Contradictory, Contradiction
<1> HIDE DEF u
<1> DEFINE f == [b \in Bit |-> CHOOSE v \in Pair : v \in c[b]]
<1>3. \A b \in Bit : f[b] \in Pair /\ c[b] = {f[b]} /\ u[b] = {f[b]}
  <2> TAKE b \in Bit
  <2>1. PICK v \in Pair : v \in u[b]
    BY <1>1, <1>2 DEF Condition
  <2>2. v \in c[b] /\ \A w \in c[b] : w = v
    BY <1>1, <2>1 DEF Below, IsOpen
  <2>3. f[b] \in c[b] /\ f[b] \in Pair
    BY <2>2
  <2> QED BY <1>1, <2>1, <2>2, <2>3 DEF Below
<1>4. f \in [Bit -> Pair] /\ \A b \in Bit : f[b] \in Start[b]
  BY <1>1, <1>3
<1>5. c = [b \in Bit |-> {f[b]}]
  BY <1>1, <1>3
<1> HIDE DEF f
<1>6. ASSUME NEW s \in Steps
      PROVE  [b \in s.bits |-> f[b]] \in s.relation
  <2>1. /\ s.bits # {} /\ s.bits \subseteq Bit
        /\ \A t \in s.relation : t \in [s.bits -> Pair]
    BY StepsAssumption DEF Bitslice
  <2>2. PICK b \in s.bits : TRUE
    BY <2>1
  <2>3. u[b] = {t[b] : t \in Combinations(s, u)}
    BY <1>1 DEF Propagated
  <2>4. PICK t \in Combinations(s, u) : TRUE
    BY <1>2, <2>1, <2>3
  <2>5. t \in s.relation /\ \A x \in s.bits : t[x] = f[x]
    BY <1>3, <2>1 DEF Combinations
  <2> QED BY <2>1, <2>5
<1> QED BY <1>4, <1>5, <1>6 DEF Solution

=============================================================================
