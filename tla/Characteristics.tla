--------------------------- MODULE Characteristics ---------------------------
(***************************************************************************)
(* A characteristic (src/src/characteristic.cpp): a condition for every    *)
(* bit, and the bitslices of the steps that relate the bits.  A bitslice   *)
(* is the set of the values its bits can take together.                    *)
(***************************************************************************)
EXTENDS Conditions

CONSTANTS
    Bit,        \* the bits of the main words
    Steps,      \* the bitslices: records of their bits and of their relation
    Start,      \* the characteristic the search starts from
    Linked      \* the bits of Start that two-bit conditions relate

Bitslice(S) == [bits : {S}, relation : SUBSET [S -> Pair]]

ASSUME BitAssumption == Bit # {}

\* A bitslice has the bit of an output word at least.
ASSUME StepsAssumption ==
    \A s \in Steps : s.bits # {} /\ s.bits \subseteq Bit /\ s \in Bitslice(s.bits)

ASSUME StartAssumption == Start \in [Bit -> Condition]

\* Every characteristic of the search lies below the one it starts from: for each
\* bit it has some of the pairs that are possible there.
Characteristic ==
    {[b \in Bit |-> {v \in Pair : <<b, v>> \in possible}] :
        possible \in SUBSET {x \in Bit \X Pair : x[2] \in Start[x[1]]}}

Below(c, d) == \A b \in Bit : c[b] \subseteq d[b]

-----------------------------------------------------------------------------
(***************************************************************************)
(* Propagation.  Bitslice<>::Compute keeps the combinations of values that *)
(* the conditions allow and hands back, for each bit, the values that      *)
(* occur in one; Characteristic::Update repeats this for the bitslices of  *)
(* every condition that changed, until none changes, or until one has no   *)
(* value left.  What it reaches does not depend on the order: the largest  *)
(* characteristic below the given one that no bitslice narrows further.    *)
(***************************************************************************)
Combinations(s, c) == {t \in s.relation : \A b \in s.bits : t[b] \in c[b]}

Propagated(c) ==
    \A s \in Steps : \A b \in s.bits : c[b] = {t[b] : t \in Combinations(s, c)}

Fixpoints == {c \in Characteristic : Propagated(c)}

Closure ==
    [c \in Characteristic |->
        LET below == {d \in Fixpoints : Below(d, c)}
        IN  [b \in Bit |-> UNION {d[b] : d \in below}]]

Update(c) == Closure[c]

\* Update returned false: some condition became '#'.
Contradictory(c) == \E b \in Bit : c[b] = Contradiction

\* SetBitCondition stores the condition, whatever the bit had before.
SetBitCondition(c, b, bc) == [c EXCEPT ![b] = bc]

\* The characteristic after a choice and its propagation.
Choose(c, b, bc) == Update(SetBitCondition(c, b, bc))

(***************************************************************************)
(* ConfigSearch starts a search only if CheckCharacteristic found no       *)
(* contradiction: the characteristic it hands over is updated, and each    *)
(* bit that two-bit conditions relate can get one of its choices.          *)
(***************************************************************************)
ASSUME StartIsChecked ==
    /\ Propagated(Start) /\ ~ Contradictory(Start)
    /\ \A b \in Linked : Start[b] \in {NoDifference, Difference} =>
          \E i \in {1, 2} : ~ Contradictory(Choose(Start, b, CHOICES(Start[b])[i]))

-----------------------------------------------------------------------------
\* The characteristics with one pair for each bit that every bitslice allows.
Solution ==
    {[b \in Bit |-> {a[b]}] :
        a \in {f \in [Bit -> Pair] :
                  /\ \A b \in Bit : f[b] \in Start[b]
                  /\ \A s \in Steps : [b \in s.bits |-> f[b]] \in s.relation}}

=============================================================================
