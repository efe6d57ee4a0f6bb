-------------------------- MODULE SearchProperties --------------------------
(***************************************************************************)
(* What the search promises: properties of Search that its runs check.     *)
(* SearchProofs and SolutionProofs prove them.                             *)
(***************************************************************************)
EXTENDS Search

Places == {"loop", "guess", "backtrack", "unwind", "check", "probe", "callback",
           "found", "exit", "abort"}

StackElement == [characteristic : Characteristic, guesses : Seq(Guess), phase : PhaseNumber]

StackTypeOK ==
    /\ stack \in Seq(StackElement) /\ stack # <<>>
    /\ char \in Characteristic
    /\ back \in PhaseNumber
    /\ op \in {"idle", "choice", "jump", "done"}
    /\ steps \in Nat

SearchTypeOK ==
    /\ pc \in Places
    /\ phase \in PhaseNumber
    /\ credits \in -2..Credits
    /\ critical \in Seq(Bit \X PhaseNumber) /\ Len(critical) <= CriticalLimit
    /\ criticalIndex \in 1..(CriticalLimit + 1)
    /\ guessCritical \in BOOLEAN
    /\ switched \in BOOLEAN
    /\ checks \in [PhaseNumber -> Nat]
    /\ passes \in [PhaseNumber -> Nat]
    /\ task \in [pos : Bit, guesses : SUBSET (Condition \X Probability)]
    /\ caller \in {"bit", "critical", "complete", "callback"}

CheckTypeOK ==
    /\ mask \in SUBSET Bit
    /\ todo \in SUBSET mask
    /\ clean \in BOOLEAN

(***************************************************************************)
(* Every variable has its type.  With the types go three bounds: one start *)
(* of the search spends two credits more than it has at most, AddCritical- *)
(* Bit keeps the list of critical bits short, and the index stays within   *)
(* one of its end.                                                         *)
(***************************************************************************)
TypeOK == StackTypeOK /\ SearchTypeOK /\ CheckTypeOK

-----------------------------------------------------------------------------
(* The stack *)

\* The choices on the stack that were not taken yet.
Alternatives == {x \in Positions : HasOther(stack[x[1]].guesses[x[2]])}

\* The characteristic, before propagation, that the search would try for a choice
\* that was not taken yet: the guesses before it in its element, and the choice.
Untried(x) ==
    LET el == stack[x[1]]
        g  == el.guesses[x[2]]
    IN  [b \in Bit |-> {v \in el.characteristic[b] :
            /\ \A k \in 1..(x[2] - 1) : el.guesses[k].pos = b => v \in el.guesses[k].first
            /\ g.pos = b => v \in g.second}]

\* No assignment is possible in both.
Apart(c, d) == \E b \in Bit : c[b] \cap d[b] = {}

\* All guesses are remembered and undone one by one, and no callback interferes.
Exhaustive ==
    /\ ~ MayReject
    /\ \A p \in PhaseNumber :
          /\ Phases[p].backtrack = "choice"
          /\ \A s \in Phases[p].settings : \A g \in SettingGuesses(s) : PushStack(g[2])
          /\ \A g \in BacktrackGuesses(p) : PushStack(g[2])

(***************************************************************************)
(* The search loses no solution: between two restarts each solution is in  *)
(* the current characteristic or in a choice the stack still holds, across *)
(* guesses, completeness checks, snapshots and phases.                     *)
(***************************************************************************)
NoSolutionLost ==
    Exhaustive =>
        LET left == {char} \cup {Untried(x) : x \in Alternatives}
        IN  \A s \in Solution : \E c \in left : Below(s, c)

(***************************************************************************)
(* The search does not look at anything twice: the choices on the stack    *)
(* exclude each other and the current characteristic.                      *)
(***************************************************************************)
NothingTwice ==
    /\ \A x, y \in Alternatives : x # y => Apart(Untried(x), Untried(y))
    /\ pc # "unwind" => \A x \in Alternatives : Apart(Untried(x), char)

(***************************************************************************)
(* "There should only be doable guesses on the stack" (search_stack.cpp):  *)
(* repeating the guesses of any element is not a contradiction.            *)
(***************************************************************************)
StackDoable == \A i \in DOMAIN stack : ~ Contradictory(Update(Replay(stack[i])))

\* A snapshot is at least as narrow as the guesses below it make it.
SnapshotsNested ==
    \A i \in 2..Len(stack) :
        Below(stack[i].characteristic, Update(Replay(stack[i - 1])))

(***************************************************************************)
(* The elements are in the order of the phases, no phase is beyond the     *)
(* current one, and the top element belongs to it; an element holds        *)
(* Frequency guesses at most, and less if it is on top.                    *)
(***************************************************************************)
StackShape ==
    /\ \A i, j \in DOMAIN stack : i <= j => stack[i].phase <= stack[j].phase
    /\ pc # "unwind" => Top.phase = phase
    /\ Top.phase <= phase
    /\ Frequency > 0 =>
          /\ \A i \in DOMAIN stack : Len(stack[i].guesses) <= Frequency
          /\ Len(Top.guesses) < Frequency \/ pc = "unwind"

-----------------------------------------------------------------------------
(* The search *)

\* The assertion in Start that the next critical bit is one of the list.
CriticalInRange ==
    pc = "loop" /\ guessCritical => criticalIndex \in DOMAIN critical

(***************************************************************************)
(* A characteristic that is found can be conformed to, and leaves no bit   *)
(* to guess in any phase, also when phases were left and entered again.    *)
(* (For phases that guess every bit down to one pair, as MCSearch has.)    *)
(***************************************************************************)
FoundIsDone ==
    pc = "found" =>
        /\ \E s \in Solution : Below(s, char)
        /\ \A p \in PhaseNumber : ~ Guessable(p, char)

\* Nothing is left of what was done before.
AtStart ==
    /\ pc = "loop"
    /\ stack = <<Element(Start, 1)>> /\ char = Start
    /\ critical = <<>> /\ credits = Credits

\* The search never gets stuck between two starts (Restart) and the end of the program.
StartsOver == []<>AtStart \/ <>(pc \in {"exit", "abort"})

-----------------------------------------------------------------------------
(* Claims of the code and its documentation that do not hold *)

\* assert(!search_stack_.empty()) in BackTrack (search.cpp).
BackTrackHasGuess == pc = "backtrack" => ~ NoGuesses(stack)

(***************************************************************************)
(* README, <phase>: twobit_complete, "should the twobit conditions be      *)
(* checked for completeness at the end of the phase".  A phase that ends   *)
(* with a bit whose choices both fail was not checked.                     *)
(***************************************************************************)
EndedPhaseIsComplete ==
    pc = "callback" /\ Phases[phase].twobit =>
        \A b \in TwoPairs(mask, char) : \E i \in {1, 2} :
            ~ Contradictory(Choose(char, b, CHOICES(char[b])[i]))

(***************************************************************************)
(* search_stack.h: "The wanted state for pop operations is build back up   *)
(* from the last full state and the guesses following it."                 *)
(***************************************************************************)
StateIsRebuilt == op = "done" => Update(char) = char

=============================================================================
