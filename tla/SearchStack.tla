----------------------------- MODULE SearchStack -----------------------------
(***************************************************************************)
(* The stack of the search (src/src/search_stack.cpp).  It keeps the       *)
(* guesses, not the characteristics they led to: an element is a full      *)
(* characteristic with the guesses made since, and a new element is        *)
(* started after Frequency guesses and whenever a phase begins.  The two   *)
(* ways back rebuild a characteristic from an element and its guesses.     *)
(*                                                                         *)
(* A way back runs in steps, one for each turn of the code's loops.  It    *)
(* begins when the client sets op and ends with op = "done"; the client,   *)
(* Search, then finds the pair that is returned in char and back.          *)
(***************************************************************************)
EXTENDS Characteristics, Sequences, SequencesExt

CONSTANTS
    Frequency,  \* frequency_: an int that is compared with an unsigned size
    NDEBUG      \* TRUE for a build without assertions, CMake's Release

ASSUME FrequencyAssumption == Frequency \in Int

VARIABLES
    stack,  \* search_stack_, bottom first
    char,   \* characteristic_ of the client: the first of the returned pair
    back,   \* the phase that is returned: the second of the pair
    op,     \* what the stack is doing
    steps   \* guesses that backtrack still has to discard

stackVars == <<stack, char, back, op, steps>>

\* The choices of a guess narrow the bit's condition.
Guess ==
    {g \in [pos : Bit, first : Condition, second : Condition] :
        g.first \cup g.second \subseteq Start[g.pos]}

Element(c, p) == [characteristic |-> c, guesses |-> <<>>, phase |-> p]

Top == Last(stack)

\* The places of the guesses: number of the element, number of the guess in it.
Positions == UNION {{i} \X DOMAIN stack[i].guesses : i \in DOMAIN stack}

\* size() and empty(): the number of guesses, not of elements.
Size == Cardinality(Positions)

NoGuesses(st) == \A i \in DOMAIN st : st[i].guesses = <<>>

HasOther(g) == g.second # Contradiction

-----------------------------------------------------------------------------
(***************************************************************************)
(* The characteristic an element's guesses are repeated on, each with the  *)
(* condition that was taken: a bit has the condition of its last guess.    *)
(***************************************************************************)
Replay(el) ==
    [b \in Bit |-> {v \in Pair :
        \/ /\ v \in el.characteristic[b]
           /\ \A j \in DOMAIN el.guesses : el.guesses[j].pos # b
        \/ \E j \in DOMAIN el.guesses :
              /\ el.guesses[j].pos = b
              /\ v \in el.guesses[j].first
              /\ \A k \in DOMAIN el.guesses : k > j => el.guesses[k].pos # b}]

\* A slip: the new element is started for the first phase.
WithGuess_PhaseLost(st, c, g) ==
    LET added == [st EXCEPT ![Len(st)].guesses = Append(@, g)]
    IN  IF Frequency >= 0 /\ Len(Last(added).guesses) >= Frequency
        THEN Append(added, Element(c, 1))
        ELSE added

(***************************************************************************)
(* add_guess: the guess joins the top element; when that is full, the      *)
(* characteristic c that the guess led to starts a new element.            *)
(***************************************************************************)
WithGuess(st, c, g) ==
    LET added == [st EXCEPT ![Len(st)].guesses = Append(@, g)]
    IN  IF Frequency >= 0 /\ Len(Last(added).guesses) >= Frequency
        THEN Append(added, Element(c, Last(added).phase))
        ELSE added

\* A slip: the new element has the snapshot of the one below.
WithPhase_Below(st, c, p) == Append(st, Element(Last(st).characteristic, p))

\* push_back
WithPhase(st, c, p) == Append(st, Element(c, p))

\* pop_back of the last guess of the top element.
WithoutGuess(st) == [st EXCEPT ![Len(st)].guesses = Front(@)]

Return(c, p) ==
    /\ char' = c
    /\ back' = p
    /\ op' = "done"
    /\ steps' = 0

-----------------------------------------------------------------------------
(* backtrack_to_other_choice *)

\* No guess is left: the characteristic of the top element is returned as it is.
ReturnSnapshot ==
    /\ op = "choice"
    /\ NoGuesses(stack)
    /\ Return(Top.characteristic, Top.phase)
    /\ UNCHANGED stack

\* back_guess drops the elements on top that have no guess.
PopElement ==
    /\ op = "choice"
    /\ ~ NoGuesses(stack)
    /\ Top.guesses = <<>>
    /\ stack' = Front(stack)
    /\ UNCHANGED <<char, back, op, steps>>

\* The last guess has no other choice: it is dropped.
PopGuess ==
    /\ op = "choice"
    /\ Top.guesses # <<>>
    /\ ~ HasOther(Last(Top.guesses))
    /\ stack' = WithoutGuess(stack)
    /\ UNCHANGED <<char, back, op, steps>>

\* A slip: the other choice is not propagated.
OtherChoice_NoUpdate ==
    LET g == Last(Top.guesses)
    IN  SetBitCondition(Replay(Last(WithoutGuess(stack))), g.pos, g.second)

\* A slip: the other choice is tried on the characteristic of the element alone.
OtherChoice_NoReplay ==
    LET g == Last(Top.guesses)
    IN  Choose(Last(WithoutGuess(stack)).characteristic, g.pos, g.second)

\* The characteristic after the other choice of the last guess.
OtherChoice ==
    LET g == Last(Top.guesses)
    IN  Choose(Replay(Last(WithoutGuess(stack))), g.pos, g.second)

\* A slip: the guess keeps its other choice when that is taken.
TakeOtherChoice_KeepSecond ==
    /\ op = "choice"
    /\ Top.guesses # <<>>
    /\ HasOther(Last(Top.guesses))
    /\ LET g == Last(Top.guesses)
           c == OtherChoice
       IN  IF Contradictory(c)
           THEN /\ stack' = WithoutGuess(stack)
                /\ UNCHANGED <<char, back, op, steps>>
           ELSE /\ stack' = WithGuess(WithoutGuess(stack), c,
                        [pos |-> g.pos, first |-> g.second, second |-> g.second])
                /\ Return(c, Top.phase)

(***************************************************************************)
(* The last guess has another choice: the guesses before it are repeated   *)
(* and the other choice is taken.  If that is a contradiction as well, the *)
(* loop goes on with the guess before.                                     *)
(***************************************************************************)
TakeOtherChoice ==
    /\ op = "choice"
    /\ Top.guesses # <<>>
    /\ HasOther(Last(Top.guesses))
    /\ LET g == Last(Top.guesses)
           c == OtherChoice
       IN  IF Contradictory(c)
           THEN /\ stack' = WithoutGuess(stack)
                /\ UNCHANGED <<char, back, op, steps>>
           ELSE /\ stack' = WithGuess(WithoutGuess(stack), c,
                        [pos |-> g.pos, first |-> g.second, second |-> Contradiction])
                /\ Return(c, Top.phase)

-----------------------------------------------------------------------------
(* backtrack(steps) *)

\* Not the only element, and fewer guesses than are to be discarded.
DropElement ==
    /\ op = "jump"
    /\ steps > Len(Top.guesses)
    /\ Len(stack) > 1
    /\ steps' = steps - Len(Top.guesses)
    /\ stack' = Front(stack)
    /\ UNCHANGED <<char, back, op>>

\* A slip: the number of guesses that are left is taken for that of those to discard.
Kept_TheOthers(guesses, n) == SubSeq(guesses, 1, n)

\* The guesses that are left when the last n are discarded.
Kept(guesses, n) == SubSeq(guesses, 1, Len(guesses) - n)

\* A slip, that of a build with NDEBUG.
Rebuilt_NotPropagated(c) == c

(***************************************************************************)
(* The propagation of the repeated guesses is the argument of an assert: a *)
(* build with NDEBUG does not execute it.                                  *)
(***************************************************************************)
Rebuilt(c) == IF NDEBUG THEN c ELSE Update(c)

\* The last guesses of the element are discarded and the others repeated.
Jump ==
    /\ op = "jump"
    /\ steps <= Len(Top.guesses) \/ Len(stack) = 1
    /\ LET all  == steps > Len(Top.guesses)
           kept == IF all THEN <<>> ELSE Kept(Top.guesses, steps)
           left == [stack EXCEPT ![Len(stack)].guesses = kept]
           c    == Replay(Last(left))
       IN  /\ stack' = left
           /\ Return(IF all THEN c ELSE Rebuilt(c), Top.phase)

StackStep ==
    \/ ReturnSnapshot
    \/ PopElement
    \/ PopGuess
    \/ TakeOtherChoice
    \/ DropElement
    \/ Jump

=============================================================================
