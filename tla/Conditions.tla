----------------------------- MODULE Conditions -----------------------------
(***************************************************************************)
(* Generalized conditions of one bit (Condition<1>, src/src/condition.h)   *)
(* and the table of the two choices a guess has (Search::CHOICES,          *)
(* src/src/search.h).  The code keeps a condition in four bits, one for    *)
(* each pair of values that is still possible; here it is the set of these *)
(* pairs, and '#', the condition without a pair, is the empty set.         *)
(***************************************************************************)
EXTENDS FiniteSets, Naturals

\* The values of a bit in the two messages: equal to 0, falling, rising, equal to 1.
Pair == {"0", "u", "n", "1"}

Condition == SUBSET Pair

Contradiction == {}          \* '#'
NoDifference  == {"0", "1"}  \* '-'
Difference    == {"u", "n"}  \* 'x'

\* More than one pair is left: the two choices of the condition differ.
IsOpen(bc) == \E v, w \in bc : v # w

-----------------------------------------------------------------------------

(***************************************************************************)
(* The sixteen rows of the table.  A pair of values without a difference   *)
(* is kept apart from one with a difference; within '-' and within 'x' the *)
(* two values are kept apart; a condition of at most one pair offers       *)
(* itself twice.                                                           *)
(***************************************************************************)
CHOICES(bc) ==
    IF ~ IsOpen(bc) THEN <<bc, bc>>
    ELSE IF bc = NoDifference THEN <<{"0"}, {"1"}>>
    ELSE IF bc = Difference THEN <<{"u"}, {"n"}>>
    ELSE <<bc \cap NoDifference, bc \cap Difference>>

\* Column choice_probability of the table: below, at, or between its limits.
Probability == {"zero", "mid", "one"}

DefaultProbability(bc) ==
    IF ~ IsOpen(bc) THEN "zero"
    ELSE IF bc \in {NoDifference, Difference} THEN "mid"
    ELSE "one"

\* A choice can be put on the stack, as search.cpp does for 0 < p < 1.
PushStack(p) == p = "mid"

(***************************************************************************)
(* Position of the choice that is tried first.  The code compares p with a *)
(* number drawn from [0, 1): for p = 0 the draw can be 0 itself.           *)
(***************************************************************************)
FirstIndex(p) == IF p = "one" THEN {1} ELSE {1, 2}

=============================================================================
