------------------------- MODULE MCSearchRefinement -------------------------
(***************************************************************************)
(* The instances of MCSearch together with the stack of decisions that the *)
(* search implements.                                                      *)
(***************************************************************************)
EXTENDS MCSearch, SearchRefinement

\* A phase with nothing to guess, one that goes back choice by choice, and one that leaps.
ChoiceThenJump ==
    <<PhaseOf(FALSE, "choice", {Guessing({"a"}, {Difference}, "mid")}),
      PhaseOf(FALSE, "choice", {Guessing({"d", "e"}, {Difference}, "mid")}),
      PhaseOf(TRUE, "10perc", {Guessing(Bits, {NoDifference}, "mid")})>>

\* What the proof of the refinement asks for: leaps propagate what they repeat, and
\* the phases before a completeness check decide every bit.
ASSUME RefinementAssumption == Rebuilds /\ ChecksDecideNothing

=============================================================================
