---------------------------- MODULE DecisionStack ----------------------------
(***************************************************************************)
(* What the stack of the search promises to its client: it is a trail of   *)
(* decisions, each with the choice that was taken and the one that was     *)
(* not, and a characteristic that is what these decisions make of the      *)
(* first one.  There is no element, no snapshot and no frequency here:     *)
(* how much of the way is stored and how much is repeated cannot be seen.  *)
(*                                                                         *)
(* This is the specification of a chronological backtracking search that   *)
(* src/src/search_stack.h describes in its comments; Search implements it, *)
(* see SearchRefinement.                                                   *)
(***************************************************************************)
EXTENDS Characteristics, Sequences, SequencesExt

CONSTANT BackFraction   \* a leap discards this fraction of the decisions

VARIABLES
    trail,  \* the decisions, oldest first
    char,   \* the characteristic, when mode is "forward"
    phase,  \* the phase of the client
    mode    \* "forward", "back": towards another choice, "leap": over some decisions

decisionVars == <<trail, char, phase, mode>>

Decision == [pos : Bit, taken : Condition, other : Condition, phase : Nat]

\* The condition a trail leaves a bit: the last one taken, or that of the start.
Decided(t, b) ==
    LET at == {i \in DOMAIN t : t[i].pos = b}
    IN  IF at = {} THEN Start[b] ELSE t[CHOOSE i \in at : \A j \in at : j <= i].taken

\* The characteristic a trail stands for.
State(t) == Update([b \in Bit |-> Decided(t, b)])

\* Nothing is promised of the characteristic on the way back.
Unspecified == Start

Init ==
    /\ trail = <<>>
    /\ char = Start
    /\ phase = 1
    /\ mode = "forward"

Restart ==
    /\ mode = "forward"
    /\ trail' = <<>>
    /\ char' = Start
    /\ phase' = 1
    /\ UNCHANGED mode

\* A decision narrows the condition of a bit, and the other choice is not part of it.
Decide ==
    /\ mode = "forward"
    /\ \E d \in [pos : Bit, taken : Condition \ {Contradiction}, other : Condition,
                 phase : {phase}] :
          /\ d.taken \cup d.other \subseteq char[d.pos]
          /\ d.taken \cap d.other = {}
          /\ trail' = Append(trail, d)
    /\ char' = State(trail')
    /\ ~ Contradictory(char')
    /\ UNCHANGED <<phase, mode>>

EnterPhase ==
    /\ mode = "forward"
    /\ phase' = phase + 1
    /\ UNCHANGED <<trail, char, mode>>

Fail ==
    /\ mode = "forward"
    /\ mode' = "back"
    /\ char' = Unspecified
    /\ UNCHANGED <<trail, phase>>

-----------------------------------------------------------------------------
Flipped(d) == [d EXCEPT !.taken = d.other, !.other = Contradiction]

\* The trail with the other choice of its last decision.
OtherWay == Append(Front(trail), Flipped(Last(trail)))

Open == trail # <<>> /\ Last(trail).other # Contradiction /\ ~ Contradictory(State(OtherWay))

\* A decision is given up only if its other choice is no way out.
Discard ==
    /\ mode = "back"
    /\ trail # <<>> /\ ~ Open
    /\ trail' = Front(trail)
    /\ UNCHANGED <<char, phase, mode>>

Flip ==
    /\ mode = "back"
    /\ Open
    /\ trail' = OtherWay
    /\ char' = State(OtherWay)
    /\ phase' = Last(trail).phase
    /\ mode' = "forward"

Leap ==
    /\ mode = "back"
    /\ trail' = SubSeq(trail, 1, Len(trail) - (Len(trail) \div BackFraction))
    /\ mode' = "leap"
    /\ UNCHANGED <<char, phase>>

\* The phase is at least the one of the last decision that is left.
Resume ==
    /\ mode = "leap" \/ (trail = <<>> /\ mode = "back")
    /\ char' = State(trail)
    /\ phase' \in (IF trail = <<>> THEN 1 ELSE Last(trail).phase)..phase
    /\ mode' = "forward"
    /\ UNCHANGED trail

Next ==
    \/ Restart
    \/ Decide
    \/ EnterPhase
    \/ Fail
    \/ Discard
    \/ Flip
    \/ Leap
    \/ Resume

Spec == Init /\ [][Next]_decisionVars

=============================================================================
