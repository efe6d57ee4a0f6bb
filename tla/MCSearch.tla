------------------------------ MODULE MCSearch ------------------------------
(***************************************************************************)
(* Small instances of the search: three bits without and two with a        *)
(* difference, and bitslices that make guesses of the first phase fail in  *)
(* the second.                                                             *)
(***************************************************************************)
EXTENDS SearchInvariants

Bits == {"a", "b", "c", "d", "e"}

StartDifferences ==
    [x \in Bits |-> IF x \in {"d", "e"} THEN Difference ELSE NoDifference]

\* The bits in S take the values for which P holds.
Rule(S, P(_)) == [bits |-> S, relation |-> {t \in [S -> Pair] : P(t)}]

\* A rising d leaves no values for b and c: at once when a is 1, after the next
\* guess when a is 0.
Rising ==
    {Rule({"a", "b", "d"}, LAMBDA t : t["d"] = "n" /\ t["a"] = "1" => t["b"] = v) :
        v \in NoDifference} \cup
    {Rule({"a", "b", "c", "d"},
          LAMBDA t : t["d"] = "n" /\ t["a"] = "0" => (t["b"] = t["c"]) = equal) :
        equal \in BOOLEAN}

Odd(t) == ((t["a"] = "1") # (t["b"] = "1")) # (t["c"] = "1")

\* Solutions have a falling d; b and c differ if e falls, and a, b and c have an odd
\* number of ones if e rises.  Some values of a, b and c allow both.
Trap ==
    Rising \cup
    {Rule({"b", "c", "d", "e"},
          LAMBDA t : t["d"] = "u" /\ t["e"] = "u" => t["b"] # t["c"]),
     Rule(Bits, LAMBDA t : t["d"] = "u" /\ t["e"] = "n" => Odd(t))}

\* Neither value is possible for d; no two bits are equal or different for it.
DeadEnd ==
    {Rule({"a", "d"}, LAMBDA t : t["d"] = "u" => t["a"] = v) : v \in NoDifference} \cup
    {Rule({"b", "d"}, LAMBDA t : t["d"] = "n" => t["b"] = v) : v \in NoDifference}

Guessing(m, conditions, p) == [mask |-> m, guesses |-> conditions \X {p}]

PhaseOf(twobit, backtrack, settings) ==
    [twobit |-> twobit, backtrack |-> backtrack, settings |-> settings]

\* First the differences, then the values: the order of the examples.
DifferencesFirst ==
    <<PhaseOf(TRUE, "choice", {Guessing({"d", "e"}, {Difference}, "mid")}),
      PhaseOf(TRUE, "choice", {Guessing(Bits, {NoDifference}, "mid")})>>

\* A first phase that keeps no choice for going back, and jumps.
Jumping ==
    <<PhaseOf(FALSE, "10perc", {Guessing({"d", "e"}, {Difference}, "zero")}),
      PhaseOf(TRUE, "10perc", {Guessing(Bits, {NoDifference}, "mid")})>>

\* Everything in one phase.
AllAtOnce ==
    <<PhaseOf(TRUE, "choice", {Guessing(Bits, {Difference, NoDifference}, "mid")})>>

NoSnapshots == -1

SomeOrNoBits == {{}, Bits}

NoBits == {}

\* The proof that what is found is done assumes it; all these phases guess that far.
ASSUME BitsAreDecided == AllDecided
=============================================================================
