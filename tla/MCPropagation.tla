---------------------------- MODULE MCPropagation ----------------------------
(***************************************************************************)
(* A small instance of propagation with a linear step, in which each       *)
(* condition of the linear step has an equation.                           *)
(***************************************************************************)
EXTENDS PropagationInvariants

Three == {"p", "a", "b"}

\* A sum and an AND of the same bits, the AND first.
SumAndAnd ==
    <<BitsliceStep(Three,
                   {t \in [Three -> Pair] : t["p"] = "1" => t["a"] = "1" /\ t["b"] = "1"}),
      LinearStep(<<"p", "a", "b">>, 1, (0 :> {0, 1}))>>

SumAndAndRelations == {[bits |-> BitsOf(s), relation |-> s.relation] : s \in Range(SumAndAnd)}

SumAndAndStart == [x \in Three |-> NoDifference]

NoBits == {}

\* What the proof that Update reaches the closure asks for; so it is here.
ASSUME PropagationHypothesis == StartIsLinear

=============================================================================
