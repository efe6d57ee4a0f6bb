-------------------------- MODULE SearchRefinement --------------------------
(***************************************************************************)
(* The search without completeness checks implements DecisionStack.  (A    *)
(* check may narrow conditions without a guess; what it found out is lost  *)
(* when the search goes back behind the next snapshot.)                    *)
(***************************************************************************)
EXTENDS SearchInvariants

\* A guess as a decision, with the phase of its element.
DecisionOf(g, p) == [pos |-> g.pos, taken |-> g.first, other |-> g.second, phase |-> p]

DecisionsOf(el) == [j \in DOMAIN el.guesses |-> DecisionOf(el.guesses[j], el.phase)]

\* The decisions of the first n elements.
Before(st, n) == FlattenSeq([i \in 1..n |-> DecisionsOf(st[i])])

\* Those of all elements.
Trail(st) == Before(st, Len(st))

Guesses == Trail(stack)

\* The client can use the characteristic.
Settled == pc \notin {"backtrack", "unwind", "abort"} \/ op = "done"

Decisions == INSTANCE DecisionStack WITH
    trail <- SubSeq(Guesses, 1, Len(Guesses) - steps),
    char  <- IF Settled THEN char ELSE Start,
    phase <- IF op = "done" THEN back ELSE phase,
    mode  <- IF Settled THEN "forward" ELSE IF op = "jump" THEN "leap" ELSE "back"

(***************************************************************************)
(* Whatever the frequency of the snapshots is, the client of the stack     *)
(* sees the characteristic its decisions lead to, and going back by choice *)
(* gives up a decision only if its other choice fails (search_stack.h and  *)
(* search_stack.cpp, add_guess and the two ways back).                     *)
(***************************************************************************)
ImplementsDecisionStack == Decisions!Spec

-----------------------------------------------------------------------------
(* Why it does *)

(***************************************************************************)
(* A completeness check finds nothing to decide: its phase and those       *)
(* before it have guessed every bit down to one pair.                      *)
(***************************************************************************)
ChecksDecideNothing ==
    \A p \in PhaseNumber : Phases[p].twobit =>
        \A b \in Bit : \E q \in 1..p : b \in Decides(q)

\* Each snapshot is what the decisions below it lead to.
SnapshotsTraced(st) ==
    \A i \in DOMAIN st : st[i].characteristic = Decisions!State(Before(st, i - 1))

(***************************************************************************)
(* With that the characteristic is not only below what the guesses make,   *)
(* it is that.  A leap has no more guesses to discard than there are, and  *)
(* a completeness check ends at once.                                      *)
(***************************************************************************)
TraceInv ==
    /\ SnapshotsTraced(stack)
    /\ Settled => char = Decisions!State(Guesses)
    /\ IF op = "jump" THEN steps <= Len(Guesses) ELSE steps = 0
    /\ pc \in {"check", "probe"} => clean /\ Phases[phase].twobit
    /\ pc = "probe" => todo = {}
    /\ caller # "complete"

=============================================================================
