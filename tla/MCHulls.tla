------------------------------- MODULE MCHulls -------------------------------
(***************************************************************************)
(* A small instance of propagation in which conditions lack just one pair  *)
(* of values: linear steps, for which these have no equation, then leave   *)
(* more than the closure of module Characteristics does.                   *)
(***************************************************************************)
EXTENDS PropagationInvariants

Four == {"p", "q", "a", "b"}

\* p is the sum of a and b, q is a; where p is 1, a keeps three of its four pairs.
SumAndCopy ==
    <<LinearStep(<<"p", "q", "a", "b">>, 2, (0 :> {0, 1} @@ 1 :> {0})),
      BitsliceStep({"p", "a"}, {t \in [{"p", "a"} -> Pair] : t["p"] = "1" => t["a"] # "0"})>>

SumAndCopyRelations == {[bits |-> BitsOf(s), relation |-> s.relation] : s \in Range(SumAndCopy)}

SumAndCopyStart == [x \in Four |-> IF x = "p" THEN NoDifference ELSE Pair]

NoBits == {}

=============================================================================
