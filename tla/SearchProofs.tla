---------------------------- MODULE SearchProofs ----------------------------
(***************************************************************************)
(* Proofs about the variables of the search, and about its stack: what     *)
(* its guesses lead to, on the way forward and on the two ways back, for   *)
(* every set of bits, every set of bitslices, every frequency of snapshots *)
(* and every configuration.                                                *)
(***************************************************************************)
EXTENDS SearchInvariants, CharacteristicProofs, SequenceTheorems, FiniteSetTheorems,
        WellFoundedInduction

-----------------------------------------------------------------------------
(* The stack *)

\* The parts of a sequence that is not empty have its type.
LEMMA FrontLastType ==
    ASSUME NEW S, NEW s \in Seq(S), s # <<>>
    PROVE  /\ Front(s) \in Seq(S)
           /\ Len(Front(s)) = Len(s) - 1
           /\ \A i \in 1..(Len(s) - 1) : Front(s)[i] = s[i]
           /\ Last(s) \in S
           /\ Len(s) \in Nat \ {0}
<1> DEFINE n == Len(s)
           f == SubSeq(s, 1, n - 1)
<1>1. n \in Nat \ {0}
  BY EmptySeq, LenProperties
<1>2. Last(s) \in S
  BY <1>1, ElementOfSeq DEF Last
<1>3. \A i \in 1..(n - 1) : s[i] \in S
  BY <1>1, ElementOfSeq
<1>4. /\ f \in Seq(S)
      /\ Len(f) = IF 1 <= n - 1 THEN (n - 1) - 1 + 1 ELSE 0
      /\ \A i \in 1..((n - 1) - 1 + 1) : f[i] = s[1 + i - 1]
  <2> n - 1 \in Int
    BY <1>1
  <2> QED BY <1>3, SubSeqProperties
<1>5. Front(s) = f
  BY DEF Front
<1> HIDE DEF n, f
<1>6. Len(f) = n - 1 /\ \A i \in 1..(n - 1) : f[i] = s[i]
  BY <1>1, <1>4
<1>7. n = Len(s)
  BY DEF n
<1> QED BY <1>1, <1>2, <1>4, <1>5, <1>6, <1>7

\* The stack and its top element have their types in every state.
LEMMA TopType ==
    ASSUME NEW st \in Seq(StackElement), st # <<>>
    PROVE  /\ Last(st) \in StackElement
           /\ Last(st).characteristic \in Characteristic
           /\ Last(st).guesses \in Seq(Guess)
           /\ Last(st).phase \in PhaseNumber
           /\ Len(st) \in DOMAIN st
<1>1. Last(st) \in StackElement /\ Len(st) \in Nat \ {0}
  BY FrontLastType
<1> QED BY <1>1 DEF StackElement

\* The guesses of the top element can be exchanged for others.
LEMMA TopGuessesType ==
    ASSUME NEW st \in Seq(StackElement), st # <<>>, NEW g \in Seq(Guess)
    PROVE  [st EXCEPT ![Len(st)].guesses = g] \in Seq(StackElement) \ {<<>>}
<1>1. Last(st) \in StackElement /\ Len(st) \in DOMAIN st
  BY TopType
<1>2. [st[Len(st)] EXCEPT !.guesses = g] \in StackElement
  BY <1>1 DEF StackElement, Last
<1>3. [st EXCEPT ![Len(st)] = [st[Len(st)] EXCEPT !.guesses = g]] \in Seq(StackElement)
  BY <1>1, <1>2
<1> QED BY <1>1, <1>3

\* Popping a guess keeps the type of the stack (back_guess).
LEMMA WithoutGuessType ==
    ASSUME NEW st \in Seq(StackElement), st # <<>>, Last(st).guesses # <<>>
    PROVE  WithoutGuess(st) \in Seq(StackElement) \ {<<>>}
<1>1. Front(Last(st).guesses) \in Seq(Guess)
  BY TopType, FrontLastType
<1>2. WithoutGuess(st) = [st EXCEPT ![Len(st)].guesses = Front(Last(st).guesses)]
  BY DEF WithoutGuess, Last
<1> QED BY <1>1, <1>2, TopGuessesType

\* add_guess keeps the type of the stack.
LEMMA WithGuessType ==
    ASSUME NEW st \in Seq(StackElement), st # <<>>,
           NEW c \in Characteristic, NEW g \in Guess
    PROVE  WithGuess(st, c, g) \in Seq(StackElement) \ {<<>>}
<1> DEFINE added == [st EXCEPT ![Len(st)].guesses = Append(@, g)]
<1>1. added = [st EXCEPT ![Len(st)].guesses = Append(Last(st).guesses, g)]
  BY DEF Last
<1>2. Append(Last(st).guesses, g) \in Seq(Guess)
  BY TopType
<1>3. added \in Seq(StackElement) \ {<<>>}
  BY <1>1, <1>2, TopGuessesType
<1>4. Element(c, Last(added).phase) \in StackElement
  <2> HIDE DEF added
  <2>1. Last(added).phase \in PhaseNumber
    BY <1>3, TopType
  <2>2. <<>> \in Seq(Guess)
    BY EmptySeq
  <2> QED BY <2>1, <2>2 DEF Element, StackElement
<1>5. Append(added, Element(c, Last(added).phase)) \in Seq(StackElement) \ {<<>>}
  BY <1>3, <1>4
<1> QED BY <1>3, <1>5 DEF WithGuess

\* Repeating the guesses of an element leads to a characteristic.
LEMMA ReplayType ==
    ASSUME NEW el \in StackElement
    PROVE  Replay(el) \in Characteristic
<1>1. el.characteristic \in Characteristic /\ el.guesses \in Seq(Guess)
  BY DEF StackElement
<1>2. \A b \in Bit : el.characteristic[b] \subseteq Start[b]
  BY <1>1, CharacteristicType
<1>3. ASSUME NEW j \in DOMAIN el.guesses
      PROVE  el.guesses[j].first \subseteq Start[el.guesses[j].pos]
  BY <1>1 DEF Guess
<1>4. \A b \in Bit : Replay(el)[b] \subseteq Start[b] /\ Replay(el)[b] \subseteq Pair
  BY <1>2, <1>3 DEF Replay
<1>5. Replay(el) \in [Bit -> Condition]
  BY <1>4 DEF Replay, Condition
<1> QED BY <1>4, <1>5, CharacteristicType

\* size() is a natural number.
LEMMA SizeType ==
    ASSUME stack \in Seq(StackElement)
    PROVE  Size \in Nat
<1> DEFINE row(i) == {i} \X DOMAIN stack[i].guesses
           rows == {row(i) : i \in DOMAIN stack}
           f == [i \in DOMAIN stack |-> row(i)]
<1>1. IsFiniteSet(DOMAIN stack)
  BY FS_Interval, LenProperties
<1>2. f \in Surjection(DOMAIN stack, rows)
  BY DEF Surjection
<1>3. IsFiniteSet(rows)
  BY <1>1, <1>2, FS_Surjection DEF ExistsSurjection
<1>4. ASSUME NEW i \in DOMAIN stack
      PROVE  IsFiniteSet(row(i))
  <2>1. stack[i] \in StackElement
    BY LenProperties
  <2>2. stack[i].guesses \in Seq(Guess)
    BY <2>1 DEF StackElement
  <2>3. /\ DOMAIN stack[i].guesses = 1..Len(stack[i].guesses)
        /\ Len(stack[i].guesses) \in Int
    BY <2>2, LenProperties
  <2>4. IsFiniteSet(DOMAIN stack[i].guesses)
    BY <2>3, FS_Interval
  <2> QED BY <2>4, FS_Product, FS_Singleton
<1>5. IsFiniteSet(UNION rows)
  BY <1>3, <1>4, FS_UNION
<1> QED BY <1>5, FS_CardinalityType DEF Size, Positions

-----------------------------------------------------------------------------
(* The configuration *)

\* The phases are numbered from 1 to their number.
LEMMA PhaseNumbers ==
    /\ Len(Phases) \in Nat \ {0}
    /\ PhaseNumber = 1..Len(Phases)
    /\ 1 \in PhaseNumber
<1> DEFINE n == Len(Phases)
<1>1. n \in Nat \ {0} /\ PhaseNumber = 1..n
  BY PhasesAssumption, EmptySeq, LenProperties DEF PhaseNumber
<1> HIDE DEF n
<1>2. 1 \in 1..n
  BY <1>1
<1>3. n = Len(Phases)
  BY DEF n
<1> QED BY <1>1, <1>2, <1>3

\* A setting guesses conditions with one of the three probabilities.
LEMMA SettingType ==
    ASSUME NEW p \in PhaseNumber, NEW s \in Phases[p].settings
    PROVE  s.mask \subseteq Bit /\ SettingGuesses(s) \subseteq Condition \X Probability
<1>1. Phases[p] \in Phase
  BY PhasesAssumption, LenProperties DEF PhaseNumber
<1>2. s.mask \subseteq Bit /\ s.guesses \subseteq Condition \X Probability
  BY <1>1 DEF Phase, Setting
<1>3. {<<bc, "one">> : bc \in Mixed} \subseteq Condition \X Probability
  BY DEF Mixed, Probability
<1> QED BY <1>2, <1>3 DEF SettingGuesses

\* The guesses of a critical bit have the type of those of a setting.
LEMMA BacktrackGuessesType ==
    ASSUME NEW p \in PhaseNumber
    PROVE  BacktrackGuesses(p) \subseteq Condition \X Probability
<1> DEFINE G == UNION {UNION {SettingGuesses(s) : s \in Phases[q].settings} : q \in 1..p}
<1>1. \A q \in 1..p : q \in PhaseNumber
  BY PhaseNumbers
<1>2. \A g \in G : g \in Condition \X Probability
  BY <1>1, SettingType
<1>3. \A bc : DefaultProbability(bc) \in Probability
  BY DEF DefaultProbability, Probability
<1>4. \A g \in G : <<g[1], DefaultProbability(g[1])>> \in Condition \X Probability
  BY <1>2, <1>3
<1> QED BY <1>4 DEF BacktrackGuesses

\* The task of a search that guesses nothing has the type of a task.
LEMMA NoTaskType == NoTask \in [pos : Bit, guesses : SUBSET (Condition \X Probability)]
BY BitAssumption DEF NoTask

\* The bits with '-' or 'x' in a set are bits of that set.
LEMMA TwoPairsType ==
    ASSUME NEW S, NEW c
    PROVE  TwoPairs(S, c) \subseteq S
BY DEF TwoPairs

\* AddCriticalBit keeps the type and the length of the list.
LEMMA CriticalType ==
    ASSUME critical \in Seq(Bit \X PhaseNumber), Len(critical) <= CriticalLimit,
           NEW b \in Bit, NEW p \in PhaseNumber
    PROVE  /\ WithCritical(b, p) \in Seq(Bit \X PhaseNumber)
           /\ Len(WithCritical(b, p)) <= CriticalLimit
<1> DEFINE added == <<<<b, p>>>> \o critical
<1>1. added \in Seq(Bit \X PhaseNumber) /\ Len(added) = 1 + Len(critical)
  BY ConcatProperties
<1>2. added # <<>>
  BY <1>1, LenProperties, EmptySeq
<1>3. Front(added) \in Seq(Bit \X PhaseNumber) /\ Len(Front(added)) = Len(added) - 1
  BY <1>1, <1>2, FrontLastType
<1>4. Len(critical) \in Nat /\ Len(added) \in Nat /\ CriticalLimit \in Nat
  BY <1>1, LenProperties, LimitsAssumption
<1> HIDE DEF added
<1>5. IF Len(added) > CriticalLimit
      THEN Len(Front(added)) <= CriticalLimit
      ELSE Len(added) <= CriticalLimit
  BY <1>1, <1>3, <1>4
<1> QED BY <1>1, <1>3, <1>5 DEF WithCritical, added

-----------------------------------------------------------------------------
(* The invariant is inductive *)

\* Restart keeps the invariant.
LEMMA RestartInv == Inv /\ pc # "probe" /\ RestartSearch => Inv'
<1> SUFFICES ASSUME Inv, pc # "probe", RestartSearch PROVE Inv'
  OBVIOUS
<1>1. Element(Start, 1) \in StackElement
  BY StartType, PhaseNumbers, EmptySeq DEF Element, StackElement
<1>2. StackTypeOK'
  BY <1>1, StartType DEF RestartSearch, Inv, TypeOK, StackTypeOK
<1>3. SearchTypeOK'
  <2>1. critical' \in Seq(Bit \X PhaseNumber) /\ Len(critical') <= CriticalLimit
    BY EmptySeq, LimitsAssumption DEF RestartSearch
  <2>2. credits' \in -2..Credits /\ criticalIndex' \in 1..(CriticalLimit + 1)
    BY LimitsAssumption DEF RestartSearch
  <2>3. phase' \in PhaseNumber /\ pc' \in Places
    BY PhaseNumbers DEF RestartSearch, Places
  <2>4. checks' \in [PhaseNumber -> Nat] /\ passes' \in [PhaseNumber -> Nat]
    BY DEF RestartSearch
  <2> QED BY <2>1, <2>2, <2>3, <2>4
          DEF RestartSearch, taskVars, Inv, TypeOK, SearchTypeOK
<1>4. CheckTypeOK'
  BY DEF RestartSearch, Inv, TypeOK, CheckTypeOK, checkVars
<1>5. (CriticalInv /\ CreditsInv)'
  BY DEF RestartSearch, CriticalInv, CreditsInv
<1>6. TodoInv'
  BY DEF RestartSearch, Inv, TodoInv, checkVars
<1> QED BY <1>2, <1>3, <1>4, <1>5, <1>6 DEF Inv, TypeOK

\* Taking up a bit, a critical one or another, keeps the invariant.
LEMMA PickInv == Inv /\ (PickCritical \/ PickBit) => Inv'
<1> USE DEF Inv, TypeOK
<1> SUFFICES ASSUME Inv, PickCritical \/ PickBit PROVE Inv'
  OBVIOUS
<1>1. CASE PickCritical
  <2>1. /\ criticalIndex \in DOMAIN critical
        /\ Len(critical) \in Nat /\ CriticalLimit \in Nat
        /\ critical[criticalIndex] \in Bit \X PhaseNumber
    <3>1. criticalIndex \in 1..Len(critical) /\ Len(critical) \in Nat
      BY <1>1, LenProperties DEF SearchTypeOK, CriticalInv, PickCritical, AtHead
    <3> QED BY <3>1, LenProperties, ElementOfSeq, LimitsAssumption DEF SearchTypeOK
  <2>2. task' \in [pos : Bit, guesses : SUBSET (Condition \X Probability)]
    BY <1>1, <2>1, BacktrackGuessesType DEF PickCritical
  <2>3. criticalIndex' \in 1..(CriticalLimit + 1)
    BY <1>1, <2>1, LenProperties DEF PickCritical, SearchTypeOK
  <2>4. StackTypeOK' /\ CheckTypeOK'
    BY <1>1 DEF PickCritical, StackTypeOK, CheckTypeOK, stackVars, checkVars
  <2>5. SearchTypeOK'
    BY <1>1, <2>2, <2>3 DEF PickCritical, SearchTypeOK, Places
  <2>6. (CriticalInv /\ CreditsInv /\ TodoInv)'
    BY <1>1 DEF PickCritical, AtHead, SearchTypeOK, CriticalInv, CreditsInv, TodoInv, checkVars
  <2> QED BY <2>4, <2>5, <2>6
<1>2. CASE PickBit
  <2>1. task' \in [pos : Bit, guesses : SUBSET (Condition \X Probability)]
    BY <1>2, SettingType DEF PickBit, SearchMask, SearchTypeOK
  <2>2. StackTypeOK' /\ CheckTypeOK'
    BY <1>2 DEF PickBit, StackTypeOK, CheckTypeOK, stackVars, checkVars
  <2>3. SearchTypeOK'
    BY <1>2, <2>1 DEF PickBit, SearchTypeOK, Places, searchVars
  <2>4. (CriticalInv /\ CreditsInv /\ TodoInv)'
    BY <1>2 DEF PickBit, AtHead, SearchTypeOK, CriticalInv, CreditsInv, TodoInv,
                searchVars, checkVars
  <2> QED BY <2>2, <2>3, <2>4
<1> QED BY <1>1, <1>2

\* What GuessBit does to the stack, for a guess of the bit's condition.
LEMMA PushType ==
    ASSUME StackTypeOK, NEW c \in Characteristic, NEW b \in Bit,
           NEW first, NEW second,
           first \subseteq char[b], second \subseteq char[b], Push(c, b, first, second)
    PROVE  stack' \in Seq(StackElement) \ {<<>>} /\ char' \in Characteristic
<1> DEFINE g == [pos |-> b, first |-> first, second |-> second]
<1>1. char[b] \subseteq Start[b] /\ Start[b] \subseteq Pair
  BY CharacteristicType, StartAssumption DEF StackTypeOK, Condition
<1>2. g \in Guess
  BY <1>1 DEF Guess, Condition
<1>3. stack' = WithGuess(stack, c, g) /\ char' = c
  BY DEF Push
<1> QED BY <1>2, <1>3, WithGuessType DEF StackTypeOK

\* A guess keeps the invariant: both choices narrow the condition of the bit.
LEMMA GuessBitInv == Inv /\ GuessBit => Inv'
<1> USE DEF Inv, TypeOK
<1> SUFFICES ASSUME Inv, GuessBit PROVE Inv'
  OBVIOUS
<1>1. PICK g \in task.guesses, i \in {1, 2} :
        /\ g[1] = char[task.pos]
        /\ LET b     == task.pos
               first == CHOICES(g[1])[i]
               other == CHOICES(g[1])[3 - i]
               c1    == Choose(char, b, first)
               c2    == Choose(char, b, other)
           IN  \/ /\ Push(c1, b, first, Remembered(g[2], other))
                  /\ UNCHANGED <<pc, critical, task>>
               \/ /\ Push(c2, b, other, Contradiction)
                  /\ UNCHANGED <<pc, critical, task>>
               \/ /\ char' = c1
                  /\ pc' = "backtrack"
                  /\ critical' = IF caller = "bit" THEN WithCritical(b, phase) ELSE critical
                  /\ task' = NoTask
                  /\ UNCHANGED stack
  BY DEF GuessBit, FirstIndex
<1> DEFINE b     == task.pos
           first == CHOICES(g[1])[i]
           other == CHOICES(g[1])[3 - i]
<1>2. b \in Bit /\ char[b] \subseteq Start[b] /\ char[b] \in Condition
  BY CharacteristicType DEF StackTypeOK, SearchTypeOK
<1>3. 3 - i \in {1, 2}
  OBVIOUS
<1>4. first \subseteq char[b] /\ other \subseteq char[b]
  BY <1>1, <1>2, <1>3, ChoicesNarrow
<1>5. Remembered(g[2], other) \subseteq char[b] /\ Contradiction \subseteq char[b]
  BY <1>4 DEF Remembered, Contradiction
<1>6. Choose(char, b, first) \in Characteristic /\ Choose(char, b, other) \in Characteristic
  BY <1>2, <1>4, ChooseType DEF StackTypeOK
<1>7. UNCHANGED <<back, op, steps, phase, credits, criticalIndex, guessCritical,
                  switched, checks, passes, caller, checkVars>> /\ pc = "guess"
  BY DEF GuessBit
<1>8. StackTypeOK'
  <2> HIDE DEF b, first, other
  <2>1. stack' \in Seq(StackElement) \ {<<>>} /\ char' \in Characteristic
    BY <1>1, <1>2, <1>4, <1>5, <1>6, PushType DEF StackTypeOK, b, first, other
  <2> QED BY <1>7, <2>1 DEF StackTypeOK
<1>9. SearchTypeOK'
  <2>1. WithCritical(b, phase) \in Seq(Bit \X PhaseNumber)
        /\ Len(WithCritical(b, phase)) <= CriticalLimit
    BY <1>2, CriticalType DEF SearchTypeOK
  <2> QED BY <1>1, <1>7, <2>1, NoTaskType DEF SearchTypeOK, Places
<1>10. (CheckTypeOK /\ CriticalInv /\ CreditsInv /\ TodoInv)'
  <2>1. pc' \in {"guess", "backtrack"}
    BY <1>1, <1>7
  <2> QED BY <1>7, <2>1 DEF CheckTypeOK, CriticalInv, CreditsInv, TodoInv, checkVars
<1> QED BY <1>8, <1>9, <1>10

\* The two ways back keep the types of the stack and of the pair they return.
LEMMA StackStepType ==
    ASSUME StackTypeOK, StackStep
    PROVE  StackTypeOK'
<1> USE DEF StackTypeOK
<1>1. /\ Top \in StackElement
      /\ Top.characteristic \in Characteristic
      /\ Top.guesses \in Seq(Guess)
      /\ Top.phase \in PhaseNumber
      /\ Len(stack) \in DOMAIN stack
  BY TopType DEF Top
<1>2. CASE ReturnSnapshot
  BY <1>1, <1>2 DEF ReturnSnapshot, Return
<1>3. CASE PopElement
  <2>1. PICK i \in DOMAIN stack : stack[i].guesses # <<>>
    BY <1>3 DEF PopElement, NoGuesses
  <2>2. i # Len(stack)
    BY <1>3, <2>1 DEF PopElement, Top, Last
  <2> DEFINE n == Len(stack)
  <2>3. n \in Nat /\ i \in 1..n /\ i # n
    BY <2>2, LenProperties
  <2>4. Front(stack) \in Seq(StackElement) /\ Len(Front(stack)) = n - 1
    BY FrontLastType
  <2>5. Front(stack) # <<>>
    <3> HIDE DEF n
    <3>1. n - 1 # 0
      BY <2>3
    <3> QED BY <2>4, <3>1, EmptySeq
  <2> QED BY <1>3, <2>4, <2>5 DEF PopElement
<1>4. CASE PopGuess
  BY <1>4, WithoutGuessType DEF PopGuess, Top
<1>5. CASE TakeOtherChoice
  <2> DEFINE g == Last(Top.guesses)
             taken == [pos |-> g.pos, first |-> g.second, second |-> Contradiction]
  <2>1. g \in Guess
    BY <1>1, <1>5, FrontLastType DEF TakeOtherChoice
  <2>2. taken \in Guess
    BY <2>1 DEF Guess, Contradiction, Condition
  <2>3. WithoutGuess(stack) \in Seq(StackElement) \ {<<>>}
    BY <1>5, WithoutGuessType DEF TakeOtherChoice, Top
  <2>4. Replay(Last(WithoutGuess(stack))) \in Characteristic
    BY <2>3, TopType, ReplayType
  <2>5. OtherChoice \in Characteristic
    BY <2>1, <2>4, ChooseType DEF OtherChoice, Guess
  <2>6. WithGuess(WithoutGuess(stack), OtherChoice, taken) \in Seq(StackElement) \ {<<>>}
    BY <2>2, <2>3, <2>5, WithGuessType
  <2> QED BY <1>1, <1>5, <2>3, <2>5, <2>6 DEF TakeOtherChoice, Return
<1>6. CASE DropElement
  <2> DEFINE n == Len(stack)
             k == Len(Top.guesses)
  <2>1. n \in Nat /\ n > 1 /\ k \in Nat /\ steps > k
    BY <1>1, <1>6, LenProperties DEF DropElement
  <2>2. Front(stack) \in Seq(StackElement) /\ Len(Front(stack)) = n - 1
    BY FrontLastType
  <2>3. Front(stack) # <<>> /\ steps - k \in Nat
    <3> HIDE DEF n, k
    <3>1. n - 1 # 0 /\ steps - k \in Nat
      BY <2>1
    <3> QED BY <2>2, <3>1, EmptySeq
  <2> QED BY <1>6, <2>2, <2>3 DEF DropElement
<1>7. CASE Jump
  <2> DEFINE all  == steps > Len(Top.guesses)
             kept == IF all THEN <<>> ELSE Kept(Top.guesses, steps)
             left == [stack EXCEPT ![Len(stack)].guesses = kept]
             c    == Replay(Last(left))
  <2>1. Kept(Top.guesses, steps) \in Seq(Guess) \/ all
    <3> DEFINE k == Len(Top.guesses)
    <3>1. k \in Nat /\ \A i \in 1..k : Top.guesses[i] \in Guess
      BY <1>1, LenProperties
    <3>2. CASE steps <= k
      <4> HIDE DEF k
      <4>1. k - steps \in Int /\ \A i \in 1..(k - steps) : Top.guesses[i] \in Guess
        BY <3>1, <3>2
      <4>2. SubSeq(Top.guesses, 1, k - steps) \in Seq(Guess)
        BY <4>1, SubSeqProperties
      <4> QED BY <4>2 DEF Kept, k
    <3> QED BY <3>1, <3>2
  <2>2. kept \in Seq(Guess)
    BY <2>1, EmptySeq
  <2> HIDE DEF kept
  <2>3. left \in Seq(StackElement) \ {<<>>}
    BY <2>2, TopGuessesType
  <2> HIDE DEF left
  <2>4. c \in Characteristic
    BY <2>3, TopType, ReplayType
  <2> HIDE DEF c
  <2>5. Rebuilt(c) \in Characteristic
    BY <2>4, UpdateType DEF Rebuilt
  <2>6. stack' = left /\ Return(IF all THEN c ELSE Rebuilt(c), Top.phase)
    BY <1>7 DEF Jump, c, left, kept
  <2> QED BY <1>1, <2>3, <2>4, <2>5, <2>6 DEF Return
<1> QED BY <1>2, <1>3, <1>4, <1>5, <1>6, <1>7 DEF StackStep

\* BackTrack, the way back and the return from it keep the invariant.
LEMMA BackInv == Inv /\ (BackTrack \/ Unwind \/ Settle) => Inv'
<1> USE DEF Inv, TypeOK
<1> SUFFICES ASSUME Inv, BackTrack \/ Unwind \/ Settle PROVE Inv'
  OBVIOUS
<1>1. CASE BackTrack
  <2>1. Size \in Nat /\ Size \div BackFraction \in Nat
    BY SizeType, LimitsAssumption DEF StackTypeOK
  <2>2. StackTypeOK'
    BY <1>1, <2>1 DEF BackTrack, StackTypeOK
  <2>3. criticalIndex' \in 1..(CriticalLimit + 1)
    BY <1>1, LimitsAssumption DEF BackTrack
  <2>4. SearchTypeOK' /\ CheckTypeOK'
    BY <1>1, <2>3 DEF BackTrack, SearchTypeOK, CheckTypeOK, Places, HasCritical,
                      taskVars, checkVars
  <2>5. critical # <<>> => 1 <= Len(critical)
    <3> DEFINE n == Len(critical)
    <3>1. n \in Nat /\ (critical # <<>> => n # 0)
      BY LenProperties, EmptySeq DEF SearchTypeOK
    <3> HIDE DEF n
    <3>2. critical # <<>> => 1 <= n
      BY <3>1
    <3> QED BY <3>2 DEF n
  <2>6. (CriticalInv /\ CreditsInv /\ TodoInv)'
    BY <1>1, <2>5 DEF BackTrack, HasCritical, CriticalInv, CreditsInv, TodoInv,
                      taskVars, checkVars
  <2> QED BY <2>2, <2>4, <2>6
<1>2. CASE Unwind
  <2>1. StackTypeOK'
    BY <1>2, StackStepType DEF Unwind
  <2>2. (SearchTypeOK /\ CheckTypeOK /\ CriticalInv /\ CreditsInv /\ TodoInv)'
    BY <1>2 DEF Unwind, SearchTypeOK, CheckTypeOK, CriticalInv, CreditsInv, TodoInv,
                searchVars, taskVars, checkVars
  <2> QED BY <2>1, <2>2
<1>3. CASE Settle
  <2>1. StackTypeOK' /\ CheckTypeOK'
    BY <1>3 DEF Settle, StackTypeOK, CheckTypeOK, checkVars
  <2>2. credits >= 0 /\ (caller # "complete" => credits >= 1)
    BY <1>3 DEF Settle, CreditsInv, SearchTypeOK
  <2>3. credits - 1 \in -2..Credits
    BY <2>2, LimitsAssumption DEF SearchTypeOK
  <2>4. SearchTypeOK'
    BY <1>3, <2>3 DEF Settle, StackTypeOK, SearchTypeOK, Places, PhaseAfter, Spent, taskVars
  <2>5. CriticalInv' /\ TodoInv'
    BY <1>3 DEF Settle, CriticalInv, TodoInv, taskVars, checkVars
  <2>6. CreditsInv'
    <3>1. credits' = credits - 1 /\ caller' = caller /\ clean' = clean
      BY <1>3 DEF Settle, Spent, taskVars, checkVars
    <3>2. CASE caller = "complete"
      <4>1. pc' = "check" /\ ~ clean
        BY <1>3, <3>2 DEF Settle, CreditsInv
      <4>2. credits' >= -1
        BY <2>2, <3>1 DEF SearchTypeOK
      <4> QED BY <3>1, <4>1, <4>2 DEF CreditsInv
    <3>3. CASE caller # "complete"
      <4>1. pc' = "loop"
        BY <1>3, <3>3 DEF Settle
      <4> QED BY <4>1 DEF CreditsInv
    <3> QED BY <3>2, <3>3
  <2> QED BY <2>1, <2>4, <2>5, <2>6
<1> QED BY <1>1, <1>2, <1>3

\* The end of CompleteCheck keeps the invariant.
LEMMA EndCheckInv ==
    ASSUME Inv, EndCheck,
           pc = "check" \/ (pc = "probe" /\ todo = {}),
           UNCHANGED <<stack, char, back, op, steps>>
    PROVE  Inv'
<1> USE DEF Inv, TypeOK
<1>1. CASE clean
  <2>1. CheckPassed /\ credits >= 1
    BY <1>1 DEF EndCheck, CreditsInv
  <2>2. passes' \in [PhaseNumber -> Nat]
    BY <2>1 DEF CheckPassed, SearchTypeOK
  <2>3. SearchTypeOK'
    BY <2>1, <2>2 DEF CheckPassed, SearchTypeOK, Places, taskVars
  <2>4. (StackTypeOK /\ CheckTypeOK)'
    BY <2>1 DEF CheckPassed, StackTypeOK, CheckTypeOK, checkVars
  <2>5. (CriticalInv /\ CreditsInv /\ TodoInv)'
    BY <2>1 DEF CheckPassed, CriticalInv, CreditsInv, TodoInv, checkVars
  <2> QED BY <2>3, <2>4, <2>5
<1>2. CASE ~ clean
  <2>1. CheckFailed
    BY <1>2 DEF EndCheck
  <2>2. credits - 1 \in -2..Credits
    BY LimitsAssumption DEF CreditsInv, SearchTypeOK
  <2>3. SearchTypeOK'
    BY <2>1, <2>2 DEF CheckFailed, SearchTypeOK, Places, taskVars
  <2>4. (StackTypeOK /\ CheckTypeOK)'
    BY <2>1 DEF CheckFailed, StackTypeOK, CheckTypeOK
  <2>5. (CriticalInv /\ CreditsInv /\ TodoInv)'
    BY <2>1 DEF CheckFailed, CriticalInv, CreditsInv, TodoInv
  <2> QED BY <2>3, <2>4, <2>5
<1> QED BY <1>1, <1>2

\* The steps of the completeness check keep the invariant.
LEMMA CheckStepInv == Inv /\ (BeginCheck \/ Check \/ Probe \/ ProbesDone) => Inv'
<1> USE DEF Inv, TypeOK
<1> SUFFICES ASSUME Inv, BeginCheck \/ Check \/ Probe \/ ProbesDone PROVE Inv'
  OBVIOUS
<1>1. CASE BeginCheck
  <2>1. checks' \in [PhaseNumber -> Nat]
    BY <1>1 DEF BeginCheck, SearchTypeOK
  <2>2. SearchTypeOK'
    BY <1>1, <2>1 DEF BeginCheck, SearchTypeOK, Places, taskVars
  <2>3. (StackTypeOK /\ CheckTypeOK)'
    BY <1>1, LimitsAssumption
    DEF BeginCheck, NothingToGuess, AtHead, StackTypeOK, CheckTypeOK, TodoInv, stackVars
  <2>4. (CriticalInv /\ CreditsInv /\ TodoInv)'
    BY <1>1 DEF BeginCheck, NothingToGuess, AtHead, SearchTypeOK, CriticalInv, CreditsInv, TodoInv
  <2> QED BY <2>2, <2>3, <2>4
<1>2. CASE Check
  <2>1. CASE LeaveLoop /\ EndCheck
    <3>1. pc = "check" /\ UNCHANGED stackVars
      BY <1>2, <2>1 DEF Check, EndCheck, CheckPassed, CheckFailed
    <3> QED BY <2>1, <3>1, EndCheckInv DEF stackVars
  <2>2. CASE ~ LeaveLoop /\ ~ EndCheck
    <3>1. (StackTypeOK /\ SearchTypeOK /\ CheckTypeOK)'
      BY <1>2, <2>2, TwoPairsType
      DEF Check, StackTypeOK, SearchTypeOK, CheckTypeOK, Places, stackVars, searchVars, taskVars
    <3>2. credits >= 0
      BY <2>2 DEF LeaveLoop, SearchTypeOK
    <3>3. (CriticalInv /\ CreditsInv /\ TodoInv)'
      BY <1>2, <2>2, <3>2
      DEF Check, CriticalInv, CreditsInv, TodoInv, searchVars, taskVars
    <3> QED BY <3>1, <3>3
  <2>3. CASE ~ LeaveLoop /\ EndCheck
    <3>1. pc' = "probe" /\ pc' # "probe"
      BY <1>2, <2>3 DEF Check, EndCheck, CheckPassed, CheckFailed
    <3> QED BY <3>1
  <2> QED BY <1>2, <2>1, <2>2, <2>3 DEF Check
<1>3. CASE Probe
  <2>1. PICK b \in todo : ProbeBit(b)
    BY <1>3 DEF Probe
  <2>2. b \in Bit /\ char[b] \subseteq Start[b] /\ char[b] \in Condition
    BY CharacteristicType DEF StackTypeOK, CheckTypeOK
  <2>3. \A i \in {1, 2} : Choose(char, b, CHOICES(char[b])[i]) \in Characteristic
    <3> TAKE i \in {1, 2}
    <3>1. CHOICES(char[b])[i] \subseteq Start[b]
      BY <2>2, ChoicesNarrow
    <3> QED BY <2>2, <3>1, ChooseType DEF StackTypeOK
  <2>4. StackTypeOK'
    BY <1>3, <2>1, <2>3 DEF Probe, ProbeBit, StackTypeOK
  <2>5. SearchTypeOK'
    BY <1>3, <2>1 DEF Probe, ProbeBit, SearchTypeOK, Places, searchVars
  <2>6. CheckTypeOK'
    BY <1>3, <2>1, TwoPairsType DEF Probe, ProbeBit, CheckTypeOK
  <2>7. (CriticalInv /\ CreditsInv /\ TodoInv)'
    BY <1>3, <2>1 DEF Probe, ProbeBit, CriticalInv, CreditsInv, TodoInv, searchVars
  <2> QED BY <2>4, <2>5, <2>6, <2>7
<1>4. CASE ProbesDone
  <2>1. UNCHANGED stackVars
    BY <1>4 DEF ProbesDone, EndCheck, CheckPassed, CheckFailed
  <2> QED BY <1>4, <2>1, EndCheckInv DEF ProbesDone, stackVars
<1> QED BY <1>1, <1>2, <1>3, <1>4

\* The end of a phase keeps the invariant.
LEMMA PhaseInv == Inv /\ (NoCheck \/ Reject \/ NextPhase \/ Found \/ AfterFound) => Inv'
<1> USE DEF Inv, TypeOK
<1> SUFFICES ASSUME Inv, NoCheck \/ Reject \/ NextPhase \/ Found \/ AfterFound PROVE Inv'
  OBVIOUS
<1> USE DEF stackVars, searchVars, taskVars, checkVars
<1>1. CASE NoCheck
  <2>1. credits >= 1
    BY <1>1 DEF NoCheck, NothingToGuess, AtHead, SearchTypeOK
  <2> QED BY <1>1, <2>1 DEF NoCheck, NothingToGuess, AtHead, StackTypeOK, SearchTypeOK, CheckTypeOK,
                      Places, CriticalInv, CreditsInv, TodoInv
<1>2. CASE Reject
  BY <1>2 DEF Reject, StackTypeOK, SearchTypeOK, CheckTypeOK,
              Places, CriticalInv, CreditsInv, TodoInv
<1>3. CASE NextPhase
  <2> DEFINE n == Len(Phases)
  <2>1. phase + 1 \in PhaseNumber
    <3>1. n \in Nat /\ PhaseNumber = 1..n /\ phase # n /\ phase \in PhaseNumber
      BY <1>3, PhaseNumbers DEF NextPhase, LastPhase, SearchTypeOK
    <3> HIDE DEF n
    <3> QED BY <3>1
  <2>2. Element(char, phase + 1) \in StackElement
    BY <2>1, EmptySeq DEF Element, StackElement, StackTypeOK
  <2>3. stack' \in Seq(StackElement) /\ stack' # <<>>
    BY <1>3, <2>2 DEF NextPhase, WithPhase, StackTypeOK
  <2>4. StackTypeOK'
    BY <1>3, <2>3 DEF NextPhase, StackTypeOK
  <2>5. SearchTypeOK' /\ CheckTypeOK'
    BY <1>3, <2>1 DEF NextPhase, SearchTypeOK, CheckTypeOK, Places, TodoInv
  <2>6. (CriticalInv /\ CreditsInv /\ TodoInv)'
    BY <1>3 DEF NextPhase, CriticalInv, CreditsInv, TodoInv
  <2> QED BY <2>4, <2>5, <2>6
<1>4. CASE Found
  BY <1>4 DEF Found, StackTypeOK, SearchTypeOK, CheckTypeOK,
              Places, CriticalInv, CreditsInv, TodoInv
<1>5. CASE AfterFound
  <2>1. CASE EndFound
    BY <1>5, <2>1 DEF AfterFound, StackTypeOK, SearchTypeOK, CheckTypeOK,
                      Places, CriticalInv, CreditsInv, TodoInv
  <2>2. CASE ~ EndFound
    BY <1>5, <2>2, RestartInv DEF AfterFound
  <2> QED BY <2>1, <2>2
<1> QED BY <1>1, <1>2, <1>3, <1>4, <1>5

\* The other steps of the loop in Start keep the invariant.
LEMMA LoopInv ==
    Inv /\ (Stop \/ OutOfCredits \/ GuessDone \/ AbortBackTrack \/ TooManyChecks) => Inv'
<1> USE DEF Inv, TypeOK, stackVars, searchVars, taskVars, checkVars
<1> SUFFICES ASSUME Inv, Stop \/ OutOfCredits \/ GuessDone \/ AbortBackTrack \/ TooManyChecks
             PROVE  Inv'
  OBVIOUS
<1>1. CASE Stop
  BY <1>1 DEF Stop, StackTypeOK, SearchTypeOK, CheckTypeOK,
              Places, CriticalInv, CreditsInv, TodoInv
<1>2. CASE OutOfCredits
  BY <1>2, RestartInv DEF OutOfCredits
<1>3. CASE GuessDone
  <2>1. criticalIndex <= Len(critical) \/ ~ guessCritical'
    BY <1>3 DEF GuessDone
  <2>2. SearchTypeOK'
    BY <1>3, NoTaskType DEF GuessDone, SearchTypeOK, Places
  <2>3. (StackTypeOK /\ CheckTypeOK)'
    BY <1>3 DEF GuessDone, StackTypeOK, CheckTypeOK
  <2>4. (CriticalInv /\ CreditsInv /\ TodoInv)'
    BY <1>3, <2>1 DEF GuessDone, CriticalInv, CreditsInv, TodoInv
  <2> QED BY <2>2, <2>3, <2>4
<1>4. CASE AbortBackTrack
  BY <1>4 DEF AbortBackTrack, StackTypeOK, SearchTypeOK, CheckTypeOK,
              Places, CriticalInv, CreditsInv, TodoInv
<1>5. CASE TooManyChecks
  BY <1>5, RestartInv DEF TooManyChecks, NothingToGuess, AtHead
<1> QED BY <1>1, <1>2, <1>3, <1>4, <1>5

\* The invariant holds at the start.
LEMMA InitInv == Init => Inv
<1> SUFFICES ASSUME Init PROVE Inv
  OBVIOUS
<1> USE DEF Init
<1>1. Element(Start, 1) \in StackElement
  BY StartType, PhaseNumbers, EmptySeq DEF Element, StackElement
<1>2. StackTypeOK
  BY <1>1, StartType, PhaseNumbers DEF StackTypeOK
<1>3. Len(critical) = 0 /\ critical \in Seq(Bit \X PhaseNumber)
  BY EmptySeq
<1>4. credits \in -2..Credits /\ criticalIndex \in 1..(CriticalLimit + 1)
      /\ Len(critical) <= CriticalLimit
  BY <1>3, LimitsAssumption
<1>5. SearchTypeOK
  BY <1>3, <1>4, PhaseNumbers, NoTaskType DEF SearchTypeOK, Places
<1>6. CheckTypeOK /\ CriticalInv /\ CreditsInv /\ TodoInv
  BY DEF CheckTypeOK, CriticalInv, CreditsInv, TodoInv
<1> QED BY <1>2, <1>5, <1>6 DEF Inv, TypeOK

\* Every step keeps the invariant.
LEMMA NextInv == Inv /\ [Next]_vars => Inv'
<1>1. CASE UNCHANGED vars
  BY <1>1 DEF vars, stackVars, searchVars, taskVars, checkVars,
              Inv, TypeOK, StackTypeOK, SearchTypeOK, CheckTypeOK,
              CriticalInv, CreditsInv, TodoInv
<1>2. CASE Next
  BY <1>2, LoopInv, PickInv, GuessBitInv, BackInv, CheckStepInv, PhaseInv DEF Next
<1> QED BY <1>1, <1>2

-----------------------------------------------------------------------------
(* The theorems *)

\* The inductive invariant holds in every state of the search.
THEOREM Invariance == Spec => []Inv
BY InitInv, NextInv, PTL DEF Spec

(***************************************************************************)
(* Every variable of the search has its type, whatever the bits, the       *)
(* bitslices and the configuration are: a start of the search spends two   *)
(* credits more than it has at most, and there are never more critical     *)
(* bits than AddCriticalBit allows.                                        *)
(***************************************************************************)
THEOREM TypeCorrect == Spec => []TypeOK
<1>1. Inv => TypeOK
  BY DEF Inv
<1> QED BY Invariance, <1>1, PTL

(***************************************************************************)
(* The assertion in Start on critical_bit_index_ never fails: whenever the *)
(* flag is up at the head of the loop, there is a critical bit to guess,   *)
(* also after bits were added and the search went back in between.         *)
(***************************************************************************)
THEOREM CriticalIndexInRange == Spec => []CriticalInRange
<1>1. Inv => CriticalInRange
  <2> SUFFICES ASSUME Inv, pc = "loop", guessCritical
               PROVE  criticalIndex \in DOMAIN critical
    BY DEF CriticalInRange
  <2>1. criticalIndex <= Len(critical) /\ criticalIndex \in Nat \ {0}
    BY LimitsAssumption DEF Inv, TypeOK, SearchTypeOK, CriticalInv
  <2>2. DOMAIN critical = 1..Len(critical) /\ Len(critical) \in Nat
    BY LenProperties DEF Inv, TypeOK, SearchTypeOK
  <2> QED BY <2>1, <2>2
<1> QED BY Invariance, <1>1, PTL

-----------------------------------------------------------------------------
(* One element *)

\* A set of indices that is not empty has a last one.
LEMMA LastIndex ==
    ASSUME NEW n \in Nat, NEW T \in SUBSET (1..n), T # {}
    PROVE  \E m \in T : \A k \in T : k <= m
<1> DEFINE D == {n - k : k \in T}
<1>1. D \subseteq Nat /\ D # {}
  <2>1. \A k \in T : k \in 1..n
    OBVIOUS
  <2>2. \A k \in T : n - k \in Nat
    BY <2>1
  <2> QED BY <2>2
<1> HIDE DEF D
<1>2. PICK x \in D : \A y \in D : ~ (<<y, x>> \in OpToRel(<, Nat))
  BY <1>1, WFMin, NatLessThanWellFounded
<1>3. \A y \in D : ~ (y < x)
  BY <1>1, <1>2 DEF OpToRel
<1>4. PICK m \in T : x = n - m
  BY DEF D
<1>5. \A k \in T : n - k \in D /\ k \in Int
  BY DEF D
<1>6. ASSUME NEW k \in T PROVE k <= m
  <2>1. ~ (n - k < n - m) /\ k \in Int /\ m \in Int
    BY <1>3, <1>4, <1>5
  <2> QED BY <2>1
<1> QED BY <1>6

\* The guesses of an element, and their choices.
LEMMA GuessType ==
    ASSUME NEW el \in StackElement, NEW j \in DOMAIN el.guesses
    PROVE  /\ el.guesses[j] \in Guess
           /\ el.guesses[j].pos \in Bit
           /\ el.guesses[j].first \subseteq Pair
           /\ el.guesses[j].second \subseteq Pair
           /\ j \in Nat \ {0}
           /\ Len(el.guesses) \in Nat
           /\ DOMAIN el.guesses = 1..Len(el.guesses)
<1>1. el.guesses \in Seq(Guess)
  BY DEF StackElement
<1>2. DOMAIN el.guesses = 1..Len(el.guesses) /\ Len(el.guesses) \in Nat
  BY <1>1, LenProperties
<1>3. el.guesses[j] \in Guess
  BY <1>1
<1> QED BY <1>2, <1>3 DEF Guess, Condition

(***************************************************************************)
(* Repeating the guesses in their order comes to the same as all of them   *)
(* narrowing the characteristic at once, in any order.                     *)
(***************************************************************************)
LEMMA ReplayNarrows ==
    ASSUME NEW el \in StackElement, GuessesFit(el), NEW b \in Bit
    PROVE  Replay(el)[b] =
              {v \in el.characteristic[b] : \A k \in DOMAIN el.guesses :
                  el.guesses[k].pos = b => v \in el.guesses[k].first}
<1> DEFINE gs == el.guesses
           all == {v \in el.characteristic[b] :
                      \A k \in DOMAIN gs : gs[k].pos = b => v \in gs[k].first}
<1>1. gs \in Seq(Guess) /\ DOMAIN gs = 1..Len(gs) /\ Len(gs) \in Nat
  BY LenProperties DEF StackElement
<1>2. el.characteristic[b] \subseteq Pair
  BY CharacteristicType DEF StackElement, Condition
<1>3. ASSUME NEW v \in Replay(el)[b] PROVE v \in all
  <2>1. CASE v \in el.characteristic[b] /\ \A j \in DOMAIN gs : gs[j].pos # b
    BY <2>1
  <2>2. CASE \E j \in DOMAIN gs :
                /\ gs[j].pos = b /\ v \in gs[j].first
                /\ \A k \in DOMAIN gs : k > j => gs[k].pos # b
    <3>1. PICK j \in DOMAIN gs :
                /\ gs[j].pos = b /\ v \in gs[j].first
                /\ \A k \in DOMAIN gs : k > j => gs[k].pos # b
      BY <2>2
    <3>2. GuessFits(el, j)
      BY DEF GuessesFit
    <3>3. v \in el.characteristic[b]
      BY <3>1, <3>2 DEF GuessFits
    <3>4. ASSUME NEW k \in DOMAIN gs, gs[k].pos = b PROVE v \in gs[k].first
      <4>1. k \in Nat /\ j \in Nat /\ k >= 1
        BY <1>1
      <4>2. k <= j
        BY <3>1, <3>4, <4>1
      <4>3. CASE k = j
        BY <3>1, <4>3
      <4>4. CASE k \in 1..(j - 1)
        BY <3>1, <3>2, <3>4, <4>4 DEF GuessFits
      <4> QED BY <4>1, <4>2, <4>3, <4>4
    <3> QED BY <3>3, <3>4
  <2> QED BY <1>3, <2>1, <2>2 DEF Replay
<1>4. ASSUME NEW v \in all PROVE v \in Replay(el)[b]
  <2> DEFINE T == {j \in DOMAIN gs : gs[j].pos = b}
  <2>1. CASE T = {}
    BY <1>2, <1>4, <2>1 DEF Replay
  <2>2. CASE T # {}
    <3>1. T \in SUBSET (1..Len(gs))
      BY <1>1
    <3>2. PICK m \in T : \A k \in T : k <= m
      BY <1>1, <2>2, <3>1, LastIndex
    <3>3. m \in DOMAIN gs /\ gs[m].pos = b /\ v \in gs[m].first
      BY <1>4
    <3>4. \A k \in DOMAIN gs : k > m => gs[k].pos # b
      BY <1>1, <3>2
    <3> QED BY <1>2, <1>4, <3>3, <3>4 DEF Replay
  <2> QED BY <2>1, <2>2
<1> QED BY <1>3, <1>4

\* An element without guesses stands for its characteristic.
LEMMA ReplayNothing ==
    ASSUME NEW el \in StackElement, el.guesses = <<>>
    PROVE  Replay(el) = el.characteristic /\ GuessesFit(el)
<1>1. DOMAIN el.guesses = {}
  OBVIOUS
<1>2. el.characteristic \in [Bit -> Condition]
  BY CharacteristicType DEF StackElement
<1>3. Replay(el) \in [Bit -> Condition]
  BY ReplayType, CharacteristicType
<1>4. \A b \in Bit : Replay(el)[b] = el.characteristic[b]
  BY <1>1, <1>2 DEF Replay, Condition
<1>5. Replay(el) = el.characteristic
  BY <1>2, <1>3, <1>4
<1> QED BY <1>1, <1>5 DEF GuessesFit

\* The element with the first n of its guesses.
Prefix(el, n) == [el EXCEPT !.guesses = SubSeq(el.guesses, 1, n)]

(***************************************************************************)
(* Discarding the last guesses of an element widens what it stands for:    *)
(* the rest can be repeated without a contradiction if all of them can.    *)
(***************************************************************************)
LEMMA PrefixFits ==
    ASSUME NEW el \in StackElement, GuessesFit(el), NEW n \in Nat, n <= Len(el.guesses)
    PROVE  /\ Prefix(el, n) \in StackElement
           /\ Len(Prefix(el, n).guesses) = n
           /\ \A j \in 1..n : Prefix(el, n).guesses[j] = el.guesses[j]
           /\ GuessesFit(Prefix(el, n))
           /\ Below(Replay(el), Replay(Prefix(el, n)))
           /\ Doable(el) => Doable(Prefix(el, n))
<1> DEFINE gs == el.guesses
           pre == Prefix(el, n)
<1>1. gs \in Seq(Guess) /\ DOMAIN gs = 1..Len(gs) /\ Len(gs) \in Nat
  BY LenProperties DEF StackElement
<1>2. /\ SubSeq(gs, 1, n) \in Seq(Guess)
      /\ Len(SubSeq(gs, 1, n)) = n
      /\ \A j \in 1..n : SubSeq(gs, 1, n)[j] = gs[j]
  <2> DEFINE m == Len(gs)
  <2>0. m \in Nat /\ n <= m /\ n \in Int /\ \A j \in 1..m : gs[j] \in Guess
    BY <1>1
  <2> HIDE DEF m
  <2>1. \A j \in 1..n : gs[j] \in Guess
    BY <2>0
  <2>2. /\ SubSeq(gs, 1, n) \in Seq(Guess)
        /\ Len(SubSeq(gs, 1, n)) = IF 1 <= n THEN n - 1 + 1 ELSE 0
        /\ \A j \in 1..(n - 1 + 1) : SubSeq(gs, 1, n)[j] = gs[1 + j - 1]
    BY <2>1, SubSeqProperties
  <2>3. \A j \in 1..n : 1 + j - 1 = j /\ j \in 1..(n - 1 + 1)
    OBVIOUS
  <2> HIDE DEF gs
  <2> QED BY <2>2, <2>3
<1>3. /\ pre.guesses = SubSeq(gs, 1, n)
      /\ pre.characteristic = el.characteristic
      /\ pre \in StackElement
  BY <1>2 DEF Prefix, StackElement
<1>4. /\ Len(pre.guesses) = n /\ DOMAIN pre.guesses = 1..n
      /\ \A j \in 1..n : pre.guesses[j] = gs[j] /\ j \in DOMAIN gs
  BY <1>1, <1>2, <1>3
<1> HIDE DEF pre
<1>5. GuessesFit(pre)
  <2> SUFFICES ASSUME NEW j \in DOMAIN pre.guesses PROVE GuessFits(pre, j)
    BY DEF GuessesFit
  <2>1. j \in 1..n /\ GuessFits(el, j)
    BY <1>4 DEF GuessesFit
  <2>2. \A k \in 1..(j - 1) : k \in 1..n
    BY <2>1
  <2> QED BY <1>3, <1>4, <2>1, <2>2 DEF GuessFits
<1>6. ASSUME NEW b \in Bit, NEW v \in Replay(el)[b] PROVE v \in Replay(pre)[b]
  <2>1. v \in el.characteristic[b]
        /\ \A k \in DOMAIN gs : gs[k].pos = b => v \in gs[k].first
    BY <1>6, ReplayNarrows
  <2>2. v \in pre.characteristic[b]
        /\ \A k \in DOMAIN pre.guesses : pre.guesses[k].pos = b => v \in pre.guesses[k].first
    BY <1>3, <1>4, <2>1
  <2> QED BY <1>3, <1>5, <2>2, ReplayNarrows
<1>7. Below(Replay(el), Replay(pre))
  BY <1>6 DEF Below
<1>8. Doable(el) => Doable(pre)
  BY <1>3, <1>7, ReplayType, UpdateType, UpdateMonotone, ContradictionBelow DEF Doable
<1> QED BY <1>3, <1>4, <1>5, <1>7, <1>8 DEF pre

\* Both choices of the last guess are part of the condition it was made for.
LEMMA LastGuessFits ==
    ASSUME NEW el \in StackElement, GuessesFit(el), el.guesses # <<>>
    PROVE  /\ Last(el.guesses) \in Guess
           /\ Last(el.guesses).first \cup Last(el.guesses).second
                 \subseteq Replay(Prefix(el, Len(el.guesses) - 1))[Last(el.guesses).pos]
           /\ Front(el.guesses) = SubSeq(el.guesses, 1, Len(el.guesses) - 1)
           /\ Len(el.guesses) - 1 \in Nat
<1> DEFINE gs == el.guesses
           n == Len(gs)
           g == Last(gs)
           pre == Prefix(el, n - 1)
<1>1. gs \in Seq(Guess) /\ g \in Guess /\ n \in Nat \ {0}
  BY FrontLastType DEF StackElement
<1>2. DOMAIN gs = 1..n /\ g = gs[n]
  BY <1>1, LenProperties DEF Last
<1>3. n - 1 \in Nat /\ n - 1 <= n
  <2> HIDE DEF n
  <2> QED BY <1>1
<1>4. /\ pre \in StackElement /\ Len(pre.guesses) = n - 1 /\ GuessesFit(pre)
      /\ \A j \in 1..(n - 1) : pre.guesses[j] = gs[j]
      /\ pre.characteristic = el.characteristic
  BY <1>3, PrefixFits DEF Prefix, StackElement
<1>5. DOMAIN pre.guesses = 1..(n - 1)
  BY <1>4, LenProperties DEF StackElement
<1>6. g.pos \in Bit
  BY <1>1 DEF Guess
<1>7. GuessFits(el, n)
  <2>1. n \in DOMAIN gs
    <3> HIDE DEF n
    <3> QED BY <1>1, <1>2
  <2> QED BY <2>1 DEF GuessesFit
<1>8. ASSUME NEW v \in g.first \cup g.second PROVE v \in Replay(pre)[g.pos]
  <2>1. v \in pre.characteristic[g.pos]
    BY <1>2, <1>4, <1>7, <1>8 DEF GuessFits
  <2>2. \A k \in 1..(n - 1) : gs[k].pos = g.pos => v \in gs[k].first
    BY <1>2, <1>7, <1>8 DEF GuessFits
  <2> HIDE DEF pre, n, g
  <2> QED BY <1>4, <1>5, <1>6, <2>1, <2>2, ReplayNarrows
<1> QED BY <1>1, <1>3, <1>8 DEF Front

\* The element with another guess.
WithAnother(el, g) == [el EXCEPT !.guesses = Append(el.guesses, g)]

\* A guess whose choices exclude each other fits if both are part of the condition of its bit.
LEMMA AnotherFits ==
    ASSUME NEW el \in StackElement, GuessesFit(el), NEW g \in Guess,
           g.first \cap g.second = {}, g.first \cup g.second \subseteq Replay(el)[g.pos]
    PROVE  /\ WithAnother(el, g) \in StackElement
           /\ Len(WithAnother(el, g).guesses) = Len(el.guesses) + 1
           /\ GuessesFit(WithAnother(el, g))
           /\ Replay(WithAnother(el, g)) = SetBitCondition(Replay(el), g.pos, g.first)
<1> DEFINE gs == el.guesses
           n == Len(gs)
           w == WithAnother(el, g)
           r == SetBitCondition(Replay(el), g.pos, g.first)
<1>1. gs \in Seq(Guess) /\ n \in Nat /\ DOMAIN gs = 1..n
  BY LenProperties DEF StackElement
<1>2. /\ Append(gs, g) \in Seq(Guess) /\ Len(Append(gs, g)) = n + 1
      /\ Append(gs, g)[n + 1] = g
      /\ \A j \in 1..n : Append(gs, g)[j] = gs[j]
  BY <1>1, AppendProperties
<1>3. /\ w \in StackElement
      /\ w.guesses = Append(gs, g)
      /\ w.characteristic = el.characteristic
  BY <1>2 DEF WithAnother, StackElement
<1>4. /\ Len(w.guesses) = n + 1 /\ DOMAIN w.guesses = 1..(n + 1)
      /\ w.guesses[n + 1] = g
      /\ \A j \in 1..n : w.guesses[j] = gs[j]
  BY <1>2, <1>3, LenProperties DEF StackElement
<1>5. g.pos \in Bit
  BY DEF Guess
<1> HIDE DEF w, n
<1>6. \A v \in g.first \cup g.second :
          /\ v \in el.characteristic[g.pos]
          /\ \A k \in 1..n : gs[k].pos = g.pos => v \in gs[k].first
  BY <1>1, <1>5, ReplayNarrows
<1>7. GuessesFit(w)
  <2> SUFFICES ASSUME NEW j \in DOMAIN w.guesses PROVE GuessFits(w, j)
    BY DEF GuessesFit
  <2>1. CASE j \in 1..n
    <3>1. GuessFits(el, j)
      BY <1>1, <2>1 DEF GuessesFit
    <3>2. \A k \in 1..(j - 1) : k \in 1..n
      BY <1>1, <2>1
    <3> QED BY <1>3, <1>4, <2>1, <3>1, <3>2 DEF GuessFits
  <2>2. CASE j = n + 1
    <3>1. \A k \in 1..(j - 1) : k \in 1..n
      BY <1>1, <2>2
    <3> QED BY <1>3, <1>4, <1>6, <2>2, <3>1 DEF GuessFits
  <2> QED BY <1>1, <1>4, <2>1, <2>2
<1>8. Replay(el) \in [Bit -> Condition] /\ Replay(w) \in [Bit -> Condition]
  BY <1>3, ReplayType, CharacteristicType
<1>9. r \in [Bit -> Condition]
  BY <1>5, <1>8 DEF SetBitCondition, Guess
<1>10. ASSUME NEW b \in Bit PROVE Replay(w)[b] = r[b]
  <2>1. Replay(w)[b] = {v \in el.characteristic[b] :
                          \A k \in 1..(n + 1) : w.guesses[k].pos = b => v \in w.guesses[k].first}
    BY <1>3, <1>4, <1>7, ReplayNarrows
  <2>2. Replay(w)[b] = {v \in el.characteristic[b] :
                          /\ \A k \in 1..n : gs[k].pos = b => v \in gs[k].first
                          /\ g.pos = b => v \in g.first}
    <3>1. \A k \in 1..(n + 1) : k \in 1..n \/ k = n + 1
      BY <1>1
    <3>2. n + 1 \in 1..(n + 1) /\ \A k \in 1..n : k \in 1..(n + 1)
      BY <1>1
    <3> QED BY <1>4, <2>1, <3>1, <3>2
  <2>3. Replay(el)[b] = {v \in el.characteristic[b] :
                            \A k \in 1..n : gs[k].pos = b => v \in gs[k].first}
    BY <1>1, ReplayNarrows
  <2>4. CASE b = g.pos
    <3>1. r[b] = g.first
      BY <1>8, <2>4 DEF SetBitCondition
    <3> QED BY <1>6, <2>2, <2>4, <3>1
  <2>5. CASE b # g.pos
    <3>1. r[b] = Replay(el)[b]
      BY <1>8, <2>5 DEF SetBitCondition
    <3> QED BY <2>2, <2>3, <2>5, <3>1
  <2> QED BY <2>4, <2>5
<1>11. Replay(w) = r
  <2> HIDE DEF r
  <2> QED BY <1>8, <1>9, <1>10
<1> QED BY <1>3, <1>4, <1>7, <1>11 DEF w, n

-----------------------------------------------------------------------------
(* The stack *)

\* Exchanging the guesses of the top element keeps the others and its characteristic.
LEMMA ExchangeTop ==
    ASSUME NEW st \in Seq(StackElement), st # <<>>, Consistent(st),
           NEW el \in StackElement, GuessesFit(el), Doable(el),
           el.characteristic = Last(st).characteristic, el.phase = Last(st).phase,
           Frequency > 0 => Len(el.guesses) <= Frequency
    PROVE  /\ [st EXCEPT ![Len(st)] = el] \in Seq(StackElement) \ {<<>>}
           /\ Len([st EXCEPT ![Len(st)] = el]) = Len(st)
           /\ Last([st EXCEPT ![Len(st)] = el]) = el
           /\ Consistent([st EXCEPT ![Len(st)] = el])
<1> DEFINE n == Len(st)
           new == [st EXCEPT ![Len(st)] = el]
<1>1. n \in Nat \ {0} /\ DOMAIN st = 1..n /\ n \in DOMAIN st /\ Last(st) = st[n]
  BY FrontLastType, TopType, LenProperties DEF Last
<1>2. /\ new \in Seq(StackElement) /\ Len(new) = n /\ DOMAIN new = 1..n
      /\ new[n] = el /\ \A i \in 1..n : i # n => new[i] = st[i]
  <2>1. new \in Seq(StackElement) /\ Len(new) = Len(st)
    BY <1>1
  <2>2. DOMAIN new = DOMAIN st /\ new[n] = el /\ \A i \in DOMAIN st : i # n => new[i] = st[i]
    BY <1>1
  <2> QED BY <1>1, <2>1, <2>2
<1>3. Last(new) = el /\ new # <<>>
  BY <1>1, <1>2, EmptySeq DEF Last
<1> HIDE DEF n, new
<1>4. \A i \in 1..n : /\ new[i].characteristic = st[i].characteristic
                      /\ new[i].phase = st[i].phase
  BY <1>1, <1>2
<1>5. \A i, j \in 1..n : i < j => new[i] = st[i]
  BY <1>1, <1>2
<1>6. \A i \in 1..n : GuessesFit(new[i]) /\ Doable(new[i])
  BY <1>1, <1>2 DEF Consistent
<1>7. Descending(new)
  BY <1>1, <1>2, <1>4, <1>5 DEF Consistent, Descending
<1>8. Rebuilds => SnapshotsUpdated(new)
  <2>1. \A i \in 2..n : i \in 1..n /\ i - 1 \in 1..n /\ i - 1 < i
    BY <1>1
  <2>2. \A i \in 2..n : new[i - 1] = st[i - 1]
    BY <1>5, <2>1
  <2> QED BY <1>1, <1>2, <1>4, <2>1, <2>2 DEF Consistent, SnapshotsUpdated, n
<1>9. PhasesAscend(new)
  BY <1>1, <1>2, <1>4 DEF Consistent, PhasesAscend
<1>10. Short(new)
  BY <1>1, <1>2 DEF Consistent, Short
<1>11. Consistent(new)
  BY <1>2, <1>6, <1>7, <1>8, <1>9, <1>10 DEF Consistent
<1> QED BY <1>2, <1>3, <1>11 DEF new, n

\* Dropping the top element keeps the others.
LEMMA DropTop ==
    ASSUME NEW st \in Seq(StackElement), st # <<>>, Consistent(st), Front(st) # <<>>
    PROVE  /\ Consistent(Front(st))
           /\ Last(Front(st)) = st[Len(st) - 1]
           /\ Last(Front(st)).phase <= Last(st).phase
<1> DEFINE n == Len(st)
           f == Front(st)
<1>1. /\ n \in Nat \ {0} /\ DOMAIN st = 1..n /\ Last(st) = st[n]
      /\ f \in Seq(StackElement) /\ Len(f) = n - 1
      /\ \A i \in 1..(n - 1) : f[i] = st[i]
  BY FrontLastType, LenProperties DEF Last
<1>2. DOMAIN f = 1..(n - 1) /\ n - 1 # 0
  BY <1>1, LenProperties, EmptySeq
<1> HIDE DEF n, f
<1>3. n - 1 \in Nat \ {0} /\ n - 1 \in 1..n /\ n \in 1..n /\ n - 1 <= n
      /\ \A i \in 1..(n - 1) : i \in 1..n
  BY <1>1, <1>2
<1>4. Last(f) = st[n - 1]
  BY <1>1, <1>3 DEF Last
<1>5. \A i \in 2..(n - 1) : i \in 2..n /\ i - 1 \in 1..(n - 1)
  BY <1>1
<1>6. Rebuilds => SnapshotsUpdated(f)
  <2> SUFFICES ASSUME Rebuilds PROVE SnapshotsUpdated(f)
    OBVIOUS
  <2>1. /\ \A i \in 1..n : Updated(st[i].characteristic)
        /\ \A i \in 2..n : Below(st[i].characteristic, Update(Replay(st[i - 1])))
    BY <1>1 DEF Consistent, SnapshotsUpdated, n
  <2>2. \A i \in 2..(n - 1) : i \in 1..(n - 1)
    BY <1>1
  <2> QED BY <1>1, <1>2, <1>3, <1>5, <2>1, <2>2 DEF SnapshotsUpdated
<1>7. Consistent(f)
  BY <1>1, <1>2, <1>3, <1>6 DEF Consistent, Descending, PhasesAscend, Short
<1>8. Last(f).phase <= Last(st).phase
  BY <1>1, <1>3, <1>4 DEF Consistent, PhasesAscend
<1> QED BY <1>4, <1>7, <1>8 DEF f, n

(***************************************************************************)
(* A new element can be started from every characteristic that lies below  *)
(* what the guesses of the top element lead to, for its phase or a later.  *)
(***************************************************************************)
LEMMA AddTop ==
    ASSUME NEW st \in Seq(StackElement), st # <<>>, Consistent(st),
           NEW c \in Characteristic, Below(c, Replay(Last(st))), ~ Contradictory(Update(c)),
           Rebuilds => Updated(c),
           NEW p \in PhaseNumber, Last(st).phase <= p
    PROVE  /\ Element(c, p) \in StackElement
           /\ Replay(Element(c, p)) = c
           /\ Append(st, Element(c, p)) \in Seq(StackElement) \ {<<>>}
           /\ Last(Append(st, Element(c, p))) = Element(c, p)
           /\ Consistent(Append(st, Element(c, p)))
<1> DEFINE n == Len(st)
           e == Element(c, p)
           new == Append(st, e)
<1>1. /\ e \in StackElement /\ e.guesses = <<>>
      /\ e.characteristic = c /\ e.phase = p
  BY EmptySeq DEF Element, StackElement
<1>2. Replay(e) = c /\ GuessesFit(e) /\ Doable(e)
  <2> HIDE DEF e
  <2> QED BY <1>1, ReplayNothing DEF Doable
<1> HIDE DEF e
<1>3. /\ n \in Nat \ {0} /\ DOMAIN st = 1..n /\ Last(st) = st[n]
      /\ \A i \in 1..n : st[i] \in StackElement
  BY FrontLastType, LenProperties, ElementOfSeq DEF Last
<1>4. /\ new \in Seq(StackElement) /\ Len(new) = n + 1
      /\ new[n + 1] = e /\ \A i \in 1..n : new[i] = st[i]
  BY <1>1, AppendProperties
<1>5. DOMAIN new = 1..(n + 1) /\ Last(new) = e /\ new # <<>>
  BY <1>3, <1>4, LenProperties, EmptySeq DEF Last
<1> HIDE DEF new, n
<1>6. \A i \in 1..(n + 1) : i \in 1..n \/ i = n + 1
  BY <1>3
<1>7. n \in 1..n /\ n + 1 \notin 1..n /\ \A i \in 1..n : i <= n /\ i < n + 1
  BY <1>3
<1>8. ASSUME NEW i \in 1..n PROVE Below(c, Replay(st[i]))
  <2>1. CASE i = n
    BY <1>3, <2>1
  <2>2. CASE i < n
    <3>1. Below(st[n].characteristic, Replay(st[i]))
      BY <1>3, <1>7, <2>2 DEF Consistent, Descending
    <3>2. Below(Replay(st[n]), st[n].characteristic)
      <4>1. st[n] \in StackElement /\ GuessesFit(st[n])
        BY <1>3, <1>7 DEF Consistent
      <4> QED BY <4>1, ReplayNarrows DEF Below
    <3> QED BY <1>3, <3>1, <3>2 DEF Below
  <2> QED BY <1>3, <1>7, <2>1, <2>2
<1>9. \A i \in 1..(n + 1) : GuessesFit(new[i]) /\ Doable(new[i])
  BY <1>2, <1>3, <1>4, <1>6 DEF Consistent
<1>10. Descending(new)
  <2> SUFFICES ASSUME NEW i \in 1..(n + 1), NEW j \in 1..(n + 1), i < j
               PROVE  Below(new[j].characteristic, Replay(new[i]))
    BY <1>5 DEF Descending
  <2>1. i \in 1..n
    BY <1>3
  <2>2. CASE j \in 1..n
    BY <1>3, <1>4, <2>1, <2>2 DEF Consistent, Descending
  <2>3. CASE j = n + 1
    BY <1>1, <1>4, <1>8, <2>1, <2>3
  <2> QED BY <1>6, <2>2, <2>3
<1>11. Rebuilds => SnapshotsUpdated(new)
  <2> SUFFICES ASSUME Rebuilds PROVE SnapshotsUpdated(new)
    OBVIOUS
  <2>1. \A i \in 1..(n + 1) : Updated(new[i].characteristic)
    BY <1>1, <1>3, <1>4, <1>6 DEF Consistent, SnapshotsUpdated
  <2>2. ASSUME NEW i \in 2..(n + 1)
        PROVE  Below(new[i].characteristic, Update(Replay(new[i - 1])))
    <3>1. i - 1 \in 1..n
      BY <1>3
    <3>2. CASE i \in 1..n
      <4>1. i \in 2..n
        BY <1>3, <3>2
      <4> QED BY <1>4, <3>1, <3>2, <4>1 DEF Consistent, SnapshotsUpdated, n
    <3>3. CASE i = n + 1
      <4>1. i - 1 = n
        BY <1>3, <3>3
      <4>2. Below(Update(c), Update(Replay(st[n])))
        BY <1>3, <1>7, ReplayType, UpdateMonotone
      <4> QED BY <1>1, <1>4, <1>7, <3>3, <4>1, <4>2 DEF Updated
    <3> QED BY <1>3, <3>2, <3>3
  <2> QED BY <1>4, <1>5, <2>1, <2>2 DEF SnapshotsUpdated
<1>12. PhasesAscend(new)
  <2> SUFFICES ASSUME NEW i \in 1..(n + 1), NEW j \in 1..(n + 1), i <= j
               PROVE  new[i].phase <= new[j].phase
    BY <1>5 DEF PhasesAscend
  <2>1. CASE j \in 1..n
    BY <1>3, <1>4, <2>1 DEF Consistent, PhasesAscend
  <2>2. CASE i \in 1..n /\ j = n + 1
    <3>1. st[i].phase <= st[n].phase
      BY <1>3, <1>7, <2>2 DEF Consistent, PhasesAscend
    <3>2. st[i].phase \in Nat /\ st[n].phase \in Nat /\ p \in Nat
      BY <1>3, <1>7, <2>2, PhaseNumbers DEF StackElement
    <3> QED BY <1>1, <1>3, <1>4, <2>2, <3>1, <3>2
  <2>3. CASE i = n + 1 /\ j = n + 1
    BY <1>1, <1>4, <2>3, PhaseNumbers
  <2> QED BY <1>6, <2>1, <2>2, <2>3
<1>13. Short(new)
  <2>1. Frequency > 0 => Len(e.guesses) <= Frequency
    BY <1>1, EmptySeq, FrequencyAssumption
  <2> QED BY <1>3, <1>4, <1>5, <1>6, <2>1 DEF Consistent, Short
<1>14. Consistent(new)
  BY <1>5, <1>9, <1>10, <1>11, <1>12, <1>13 DEF Consistent
<1> QED BY <1>1, <1>2, <1>4, <1>5, <1>14 DEF new, e

\* pop_back of a guess keeps the stack, and leaves room for a guess in its top element.
LEMMA DropGuess ==
    ASSUME NEW st \in Seq(StackElement), st # <<>>, Consistent(st), Last(st).guesses # <<>>
    PROVE  /\ WithoutGuess(st) \in Seq(StackElement) \ {<<>>}
           /\ Consistent(WithoutGuess(st))
           /\ Last(WithoutGuess(st)) = Prefix(Last(st), Len(Last(st).guesses) - 1)
           /\ Last(WithoutGuess(st)).phase = Last(st).phase
           /\ Frequency > 0 => Len(Last(WithoutGuess(st)).guesses) < Frequency
<1> DEFINE t == Last(st)
           n == Len(t.guesses)
           pre == Prefix(t, n - 1)
<1>1. /\ t \in StackElement /\ Len(st) \in DOMAIN st /\ t = st[Len(st)]
      /\ GuessesFit(t) /\ Doable(t)
      /\ Frequency > 0 => n <= Frequency
  BY TopType DEF Consistent, Short, Last
<1>2. n - 1 \in Nat /\ n - 1 <= n /\ n \in Nat
  <2>1. n - 1 \in Nat /\ n \in Nat
    BY <1>1, LastGuessFits, LenProperties DEF StackElement
  <2> HIDE DEF n
  <2> QED BY <2>1
<1>3. /\ pre \in StackElement /\ GuessesFit(pre) /\ Doable(pre)
      /\ Len(pre.guesses) = n - 1
      /\ pre.characteristic = t.characteristic /\ pre.phase = t.phase
  <2>1. pre.characteristic = t.characteristic /\ pre.phase = t.phase
    BY <1>1 DEF Prefix, StackElement
  <2> QED BY <1>1, <1>2, <2>1, PrefixFits
<1>4. WithoutGuess(st) = [st EXCEPT ![Len(st)] = pre]
  <2>1. Front(t.guesses) = SubSeq(t.guesses, 1, n - 1)
    BY <1>1, LastGuessFits
  <2> QED BY <1>1, <2>1 DEF WithoutGuess, Prefix
<1>5. Frequency > 0 => n - 1 < Frequency
  <2> HIDE DEF n
  <2> QED BY <1>1, <1>2, FrequencyAssumption
<1>6. Frequency > 0 => Len(pre.guesses) <= Frequency /\ Len(pre.guesses) < Frequency
  BY <1>2, <1>3, <1>5, FrequencyAssumption
<1> HIDE DEF pre
<1>7. /\ WithoutGuess(st) \in Seq(StackElement) \ {<<>>}
      /\ Last(WithoutGuess(st)) = pre
      /\ Consistent(WithoutGuess(st))
  BY <1>1, <1>3, <1>4, <1>6, ExchangeTop
<1> QED BY <1>3, <1>6, <1>7 DEF pre

(***************************************************************************)
(* add_guess keeps the stack, whether a new element is started or not: the *)
(* new characteristic lies below what the guesses of the top lead to.      *)
(***************************************************************************)
LEMMA AddGuess ==
    ASSUME NEW st \in Seq(StackElement), st # <<>>, Consistent(st), NEW g \in Guess,
           g.first \cap g.second = {},
           g.first \cup g.second \subseteq Replay(Last(st))[g.pos],
           Frequency > 0 => Len(Last(st).guesses) < Frequency,
           NEW c \in Characteristic, Updated(c), ~ Contradictory(c),
           Below(c, SetBitCondition(Replay(Last(st)), g.pos, g.first))
    PROVE  /\ WithGuess(st, c, g) \in Seq(StackElement) \ {<<>>}
           /\ Consistent(WithGuess(st, c, g))
           /\ Below(c, Replay(Last(WithGuess(st, c, g))))
           /\ Last(WithGuess(st, c, g)).phase = Last(st).phase
           /\ Frequency > 0 => Len(Last(WithGuess(st, c, g)).guesses) < Frequency
<1> DEFINE t == Last(st)
           w == WithAnother(t, g)
           added == [st EXCEPT ![Len(st)].guesses = Append(@, g)]
           e == Element(c, t.phase)
<1>1. /\ t \in StackElement /\ t = st[Len(st)] /\ Len(st) \in DOMAIN st
      /\ GuessesFit(t) /\ t.phase \in PhaseNumber
      /\ Len(t.guesses) \in Nat
  BY TopType, LenProperties DEF Consistent, Last
<1>2. /\ w \in StackElement /\ GuessesFit(w)
      /\ Len(w.guesses) = Len(t.guesses) + 1
      /\ Replay(w) = SetBitCondition(Replay(t), g.pos, g.first)
      /\ w.characteristic = t.characteristic /\ w.phase = t.phase
  <2>1. w.characteristic = t.characteristic /\ w.phase = t.phase
    BY <1>1 DEF WithAnother, StackElement
  <2> QED BY <1>1, <2>1, AnotherFits
<1>3. added = [st EXCEPT ![Len(st)] = w]
  BY <1>1 DEF WithAnother
<1> HIDE DEF w
<1>4. Below(c, Replay(w)) /\ Replay(w) \in Characteristic
  BY <1>2, ReplayType
<1>5. Doable(w)
  <2>1. Below(Update(c), Update(Replay(w)))
    BY <1>4, UpdateMonotone
  <2> QED BY <2>1, ContradictionBelow DEF Doable, Updated
<1>6. Frequency > 0 => Len(w.guesses) <= Frequency
  BY <1>1, <1>2, FrequencyAssumption
<1>7. /\ added \in Seq(StackElement) \ {<<>>}
      /\ Last(added) = w
      /\ Consistent(added)
  BY <1>1, <1>2, <1>3, <1>5, <1>6, ExchangeTop
<1> HIDE DEF added
<1>8. CASE Frequency >= 0 /\ Len(w.guesses) >= Frequency
  <2>1. WithGuess(st, c, g) = Append(added, e)
    BY <1>2, <1>7, <1>8 DEF WithGuess, added
  <2>2. /\ Append(added, e) \in Seq(StackElement) \ {<<>>}
        /\ Last(Append(added, e)) = e /\ Replay(e) = c
        /\ Consistent(Append(added, e))
    <3>1. w.phase <= t.phase
      BY <1>1, <1>2, PhaseNumbers
    <3> QED BY <1>1, <1>4, <1>7, <3>1, AddTop DEF Updated
  <2>3. e.phase = t.phase /\ Len(e.guesses) = 0
    BY EmptySeq DEF Element
  <2> QED BY <2>1, <2>2, <2>3, BelowIsOrder
<1>9. CASE ~ (Frequency >= 0 /\ Len(w.guesses) >= Frequency)
  <2>1. WithGuess(st, c, g) = added
    BY <1>7, <1>9 DEF WithGuess, added
  <2>2. Frequency > 0 => Len(w.guesses) < Frequency
    BY <1>1, <1>2, <1>9, FrequencyAssumption
  <2> QED BY <1>2, <1>4, <1>7, <2>1, <2>2
<1> QED BY <1>8, <1>9

-----------------------------------------------------------------------------
(* The ways back keep the invariant *)

\* What is known of the top element in every state.
LEMMA TopFacts ==
    ASSUME Inv, StackInv
    PROVE  /\ stack \in Seq(StackElement) /\ stack # <<>> /\ Consistent(stack)
           /\ Top \in StackElement /\ GuessesFit(Top) /\ Doable(Top)
           /\ Top.characteristic \in Characteristic /\ Top.phase \in PhaseNumber
           /\ Replay(Top) \in Characteristic
           /\ Top = stack[Len(stack)] /\ Len(stack) \in DOMAIN stack
           /\ Len(Top.guesses) \in Nat
           /\ char \in Characteristic
<1>1. stack \in Seq(StackElement) /\ stack # <<>> /\ Consistent(stack) /\ char \in Characteristic
  BY DEF Inv, TypeOK, StackTypeOK, StackInv
<1>2. /\ Top \in StackElement /\ Top = stack[Len(stack)] /\ Len(stack) \in DOMAIN stack
      /\ Top.characteristic \in Characteristic /\ Top.phase \in PhaseNumber
      /\ Top.guesses \in Seq(Guess)
  BY <1>1, TopType DEF Top, Last
<1> QED BY <1>1, <1>2, ReplayType, LenProperties DEF Consistent

\* A way back that returns a pair keeps the invariant of the stack.
LEMMA ReturnKeeps ==
    ASSUME Inv, StackInv, Inv', pc' = pc, phase' = phase, task' = task, pc = "unwind",
           op' = "done", back' = Top'.phase, Top'.phase <= phase,
           Consistent(stack'), Below(char', Replay(Top')), ~ Contradictory(Update(char')),
           Rebuilds => Updated(char'),
           Frequency > 0 => Len(Top'.guesses) < Frequency
    PROVE  StackInv'
<1>1. OpInv'
  BY DEF OpInv
<1>2. CharInv'
  BY DEF CharInv
<1>3. TaskInv'
  BY DEF StackInv, TaskInv
<1> QED BY <1>1, <1>2, <1>3 DEF StackInv

\* A turn of a loop that goes on keeps the invariant of the stack.
LEMMA TurnKeeps ==
    ASSUME Inv, StackInv, Inv', pc' = pc, phase' = phase, task' = task, pc = "unwind",
           op' = op, op \in {"choice", "jump"}, char' = char,
           Consistent(stack'), Top'.phase <= Top.phase,
           op = "jump" => steps' > 0
    PROVE  StackInv'
<1>1. OpInv'
  <2>1. Top.phase <= phase /\ Top.phase \in Nat /\ Top'.phase \in Nat /\ phase \in Nat
    <3>1. Top.phase \in PhaseNumber /\ Top'.phase \in PhaseNumber /\ phase \in PhaseNumber
      BY TopType DEF Inv, TypeOK, StackTypeOK, SearchTypeOK, Top
    <3> QED BY <3>1, PhaseNumbers DEF StackInv, OpInv
  <2>2. Top'.phase <= phase
    BY <2>1
  <2> QED BY <2>2 DEF StackInv, OpInv
<1>2. CharInv'
  BY DEF StackInv, CharInv, Usable
<1>3. TaskInv'
  BY DEF StackInv, TaskInv
<1> QED BY <1>1, <1>2, <1>3 DEF StackInv

(***************************************************************************)
(* The other choice of a guess is taken on what the guesses before it lead *)
(* to, and takes the place of the guess if it is not a contradiction.      *)
(***************************************************************************)
LEMMA TakeOtherChoiceKeeps ==
    ASSUME Inv, StackInv, Inv', TakeOtherChoice, pc' = pc, phase' = phase, task' = task,
           pc = "unwind"
    PROVE  StackInv'
<1> DEFINE g == Last(Top.guesses)
           taken == [pos |-> g.pos, first |-> g.second, second |-> Contradiction]
           less == WithoutGuess(stack)
           r == Replay(Last(less))
           c == OtherChoice
<1>1. /\ Top.guesses # <<>> /\ op = "choice" /\ c = Choose(r, g.pos, g.second)
      /\ \/ /\ Contradictory(c)
            /\ stack' = less
            /\ UNCHANGED <<char, back, op, steps>>
         \/ /\ ~ Contradictory(c)
            /\ stack' = WithGuess(less, c, taken)
            /\ Return(c, Top.phase)
  BY DEF TakeOtherChoice, OtherChoice
<1>2. /\ g \in Guess /\ g.pos \in Bit /\ taken \in Guess
      /\ g.second \subseteq Replay(Prefix(Top, Len(Top.guesses) - 1))[g.pos]
  BY <1>1, TopFacts, LastGuessFits DEF Guess, Contradiction, Condition
<1>3. /\ less \in Seq(StackElement) /\ less # <<>> /\ Consistent(less)
      /\ Last(less) = Prefix(Top, Len(Top.guesses) - 1)
      /\ Last(less).phase = Top.phase
      /\ Frequency > 0 => Len(Last(less).guesses) < Frequency
  BY <1>1, TopFacts, DropGuess DEF Top
<1>4. Top.phase \in Nat /\ Top.phase <= phase
  BY TopFacts, PhaseNumbers DEF StackInv, OpInv
<1> HIDE DEF g, taken, less
<1>5. CASE Contradictory(c)
  <2>1. stack' = less /\ UNCHANGED <<char, op, steps>>
    BY <1>1, <1>5
  <2>2. Top'.phase = Top.phase
    BY <1>3, <2>1 DEF Top
  <2> QED BY <1>1, <1>3, <1>4, <2>1, <2>2, TurnKeeps
<1>6. CASE ~ Contradictory(c)
  <2>1. /\ stack' = WithGuess(less, c, taken) /\ char' = c /\ back' = Top.phase
        /\ op' = "done"
    BY <1>1, <1>6 DEF Return
  <2>2. r \in Characteristic /\ g.second \subseteq r[g.pos]
    BY <1>2, <1>3, TopType, ReplayType
  <2>3. c \in Characteristic /\ Updated(c)
    BY <1>1, <1>2, <2>2, ChooseNarrows DEF Updated
  <2>4. Below(c, SetBitCondition(r, g.pos, g.second))
    <3>1. g.second \subseteq Start[g.pos]
      BY <1>2, <2>2, CharacteristicType
    <3> QED BY <1>1, <1>2, <2>2, <3>1, SetType, UpdateType DEF Choose
  <2>5. /\ taken.first \cap taken.second = {} /\ taken.pos = g.pos /\ taken.first = g.second
        /\ taken.first \cup taken.second \subseteq r[taken.pos]
    BY <2>2 DEF taken, Contradiction
  <2>6. /\ Consistent(WithGuess(less, c, taken))
        /\ Below(c, Replay(Last(WithGuess(less, c, taken))))
        /\ Last(WithGuess(less, c, taken)).phase = Top.phase
        /\ Frequency > 0 => Len(Last(WithGuess(less, c, taken)).guesses) < Frequency
    BY <1>2, <1>3, <1>6, <2>3, <2>4, <2>5, AddGuess
  <2>7. ~ Contradictory(Update(c))
    BY <1>6, <2>3 DEF Updated
  <2> HIDE DEF c
  <2> QED BY <1>4, <2>1, <2>3, <2>6, <2>7, ReturnKeeps DEF Top
<1> QED BY <1>5, <1>6

\* A leap discards the last guesses of an element and repeats the others.
LEMMA JumpKeeps ==
    ASSUME Inv, StackInv, Inv', Jump, pc' = pc, phase' = phase, task' = task, pc = "unwind"
    PROVE  StackInv'
<1> DEFINE gs  == Top.guesses
           all == steps > Len(gs)
           n   == IF all THEN 0 ELSE Len(gs) - steps
           el  == Prefix(Top, n)
           left == [stack EXCEPT ![Len(stack)] = el]
           c   == Replay(el)
<1>1. steps \in Nat /\ Len(gs) \in Nat /\ op = "jump"
  BY TopFacts DEF Inv, TypeOK, StackTypeOK, Jump
<1>2. n \in Nat /\ n <= Len(gs)
  BY <1>1
<1>3. /\ el \in StackElement /\ GuessesFit(el) /\ Doable(el)
      /\ Len(el.guesses) = n
      /\ el.characteristic = Top.characteristic /\ el.phase = Top.phase
  <2>1. el.characteristic = Top.characteristic /\ el.phase = Top.phase
    BY TopFacts DEF Prefix, StackElement
  <2> HIDE DEF n
  <2> QED BY <1>2, <2>1, TopFacts, PrefixFits
<1>4. Frequency > 0 => n <= Frequency /\ n < Frequency
  <2>1. Frequency > 0 => Len(gs) <= Frequency
    BY TopFacts DEF Consistent, Short
  <2>2. Frequency > 0 => steps > 0 \/ Len(gs) < Frequency
    BY <1>1 DEF StackInv, OpInv
  <2> HIDE DEF gs
  <2> QED BY <1>1, <2>1, <2>2, FrequencyAssumption
<1>5. /\ left \in Seq(StackElement) \ {<<>>} /\ Consistent(left) /\ Last(left) = el
  <2> HIDE DEF el, n
  <2> QED BY <1>3, <1>4, TopFacts, ExchangeTop DEF Top
<1>6. /\ stack' = left /\ back' = Top.phase /\ op' = "done"
      /\ char' = IF all THEN c ELSE Rebuilt(c)
  <2> DEFINE kept == IF all THEN <<>> ELSE Kept(gs, steps)
             was == [stack EXCEPT ![Len(stack)].guesses = kept]
  <2>1. kept = SubSeq(gs, 1, n)
    <3>1. CASE all
      BY <3>1, SubSeqProperties, EmptySeq
    <3>2. CASE ~ all
      BY <3>2 DEF Kept
    <3> QED BY <3>1, <3>2
  <2> HIDE DEF kept
  <2>2. was = left
    <3> HIDE DEF n
    <3> QED BY <2>1, TopFacts DEF Prefix
  <2> HIDE DEF was, left, n
  <2>3. /\ stack' = was
        /\ Return(IF all THEN Replay(Last(was)) ELSE Rebuilt(Replay(Last(was))), Top.phase)
    BY DEF Jump, kept, was
  <2> QED BY <1>5, <2>2, <2>3 DEF Return
<1> HIDE DEF n, el, left
<1>7. c \in Characteristic /\ ~ Contradictory(Update(c))
  BY <1>3, ReplayType DEF Doable
<1>8. all => c = Top.characteristic
  <2>1. all => el.guesses = <<>>
    BY <1>3, EmptySeq DEF n, StackElement
  <2> QED BY <1>3, <2>1, ReplayNothing
<1>9. Below(char', c) /\ ~ Contradictory(Update(char'))
  <2>1. Below(c, c) /\ Below(Update(c), c) /\ Update(Update(c)) = Update(c)
    BY <1>7, BelowIsOrder, UpdateType, UpdateIdempotent
  <2> HIDE DEF c, all
  <2> QED BY <1>6, <1>7, <2>1 DEF Rebuilt
<1>10. Rebuilds => Updated(char')
  <2> SUFFICES ASSUME Rebuilds PROVE Updated(char')
    OBVIOUS
  <2>1. CASE all
    BY <1>6, <1>8, <2>1, TopFacts DEF Consistent, SnapshotsUpdated
  <2>2. CASE ~ all
    <3>1. ~ NDEBUG
      BY <1>1 DEF StackInv, OpInv, Rebuilds
    <3>2. char' = Update(c)
      BY <1>6, <2>2, <3>1 DEF Rebuilt
    <3> QED BY <1>7, <3>2, UpdateIdempotent DEF Updated
  <2> QED BY <2>1, <2>2
<1>11. Top' = el
  BY <1>5, <1>6 DEF Top
<1>12. Top.phase <= phase
  BY DEF StackInv, OpInv
<1> QED BY <1>3, <1>4, <1>5, <1>6, <1>9, <1>10, <1>11, <1>12, ReturnKeeps

\* Every turn of a way back keeps the invariant of the stack.
LEMMA UnwindKeeps == Inv /\ StackInv /\ Unwind => StackInv'
<1> SUFFICES ASSUME Inv, StackInv, Unwind PROVE StackInv'
  OBVIOUS
<1>1. /\ StackStep /\ pc = "unwind" /\ pc' = pc /\ phase' = phase /\ task' = task
      /\ Inv'
  BY BackInv DEF Unwind, searchVars, taskVars
<1>2. stack' \in Seq(StackElement) /\ stack' # <<>>
  BY <1>1 DEF Inv, TypeOK, StackTypeOK
<1>3. Top.phase <= phase
  BY DEF StackInv, OpInv
<1>4. CASE ReturnSnapshot
  <2>1. /\ Top.guesses = <<>> /\ stack' = stack /\ op' = "done"
        /\ char' = Top.characteristic /\ back' = Top.phase
    BY <1>4, TopFacts DEF ReturnSnapshot, Return, NoGuesses
  <2>2. Top' = Top
    BY <2>1 DEF Top
  <2>3. Replay(Top) = Top.characteristic
    BY <2>1, TopFacts, ReplayNothing
  <2>4. ~ Contradictory(Update(char'))
    BY <2>1, <2>3, TopFacts DEF Doable
  <2>5. Rebuilds => Updated(char')
    BY <2>1, TopFacts DEF Consistent, SnapshotsUpdated
  <2>6. Len(Top.guesses) = 0 /\ Below(char', Replay(Top))
    BY <2>1, <2>3, EmptySeq, TopFacts, BelowIsOrder
  <2> QED BY <1>1, <1>3, <2>1, <2>2, <2>4, <2>5, <2>6, TopFacts, ReturnKeeps
<1>5. CASE PopElement
  <2>1. stack' = Front(stack) /\ op = "choice" /\ UNCHANGED <<char, op>>
    BY <1>5 DEF PopElement
  <2>2. Consistent(stack') /\ Top'.phase <= Top.phase
    BY <1>2, <2>1, TopFacts, DropTop DEF Top
  <2> QED BY <1>1, <2>1, <2>2, TurnKeeps
<1>6. CASE PopGuess
  <2>1. /\ stack' = WithoutGuess(stack) /\ op = "choice" /\ UNCHANGED <<char, op>>
        /\ Top.guesses # <<>>
    BY <1>6 DEF PopGuess
  <2>2. Consistent(stack') /\ Top'.phase = Top.phase
    BY <2>1, TopFacts, DropGuess DEF Top
  <2>3. Top'.phase <= Top.phase
    BY <2>2, TopFacts, PhaseNumbers
  <2> QED BY <1>1, <2>1, <2>2, <2>3, TurnKeeps
<1>7. CASE TakeOtherChoice
  BY <1>1, <1>7, TakeOtherChoiceKeeps
<1>8. CASE DropElement
  <2>1. /\ stack' = Front(stack) /\ op = "jump" /\ UNCHANGED <<char, op>>
        /\ steps > Len(Top.guesses) /\ steps' = steps - Len(Top.guesses)
    BY <1>8 DEF DropElement
  <2>2. Consistent(stack') /\ Top'.phase <= Top.phase
    BY <1>2, <2>1, TopFacts, DropTop DEF Top
  <2>3. steps' > 0
    BY <2>1, TopFacts DEF Inv, TypeOK, StackTypeOK
  <2> QED BY <1>1, <2>1, <2>2, <2>3, TurnKeeps
<1>9. CASE Jump
  BY <1>1, <1>9, JumpKeeps
<1> QED BY <1>1, <1>4, <1>5, <1>6, <1>7, <1>8, <1>9 DEF StackStep

-----------------------------------------------------------------------------
(* The search keeps the invariant *)

\* A setting guesses conditions with more than one pair only.
LEMMA SettingOpen ==
    ASSUME NEW p \in PhaseNumber, NEW s \in Phases[p].settings, NEW g \in SettingGuesses(s)
    PROVE  IsOpen(g[1])
BY GuessesAssumption DEF SettingGuesses, Mixed

\* So do the guesses that a critical bit may take.
LEMMA BacktrackOpen ==
    ASSUME NEW p \in PhaseNumber, NEW g \in BacktrackGuesses(p)
    PROVE  IsOpen(g[1])
<1>1. PICK q \in 1..p : \E s \in Phases[q].settings : \E h \in SettingGuesses(s) :
          g = <<h[1], DefaultProbability(h[1])>>
  BY DEF BacktrackGuesses
<1>2. q \in PhaseNumber
  BY PhaseNumbers
<1> QED BY <1>1, <1>2, SettingOpen

\* The guesses of a bit that is taken up fit.
LEMMA PickKeeps ==
    ASSUME Inv, PickCritical \/ PickBit
    PROVE  TaskInv'
<1>1. CASE PickCritical
  <2>1. critical[criticalIndex] \in Bit \X PhaseNumber
    <3>1. criticalIndex \in 1..Len(critical)
      BY <1>1, LenProperties
      DEF Inv, TypeOK, SearchTypeOK, CriticalInv, PickCritical, AtHead
    <3> QED BY <3>1, LenProperties, ElementOfSeq DEF Inv, TypeOK, SearchTypeOK
  <2> DEFINE q == critical[criticalIndex][2]
  <2>2. q \in PhaseNumber /\ task'.guesses = BacktrackGuesses(q)
    BY <1>1, <2>1 DEF PickCritical
  <2>3. \A g \in BacktrackGuesses(q) : Exhaustive => PushStack(g[2])
    BY <2>2 DEF Exhaustive
  <2> HIDE DEF q
  <2> QED BY <2>2, <2>3, BacktrackOpen DEF TaskInv
<1>2. CASE PickBit
  <2>1. PICK s \in Phases[phase].settings : task'.guesses = SettingGuesses(s)
    BY <1>2 DEF PickBit
  <2>2. phase \in PhaseNumber
    BY DEF Inv, TypeOK, SearchTypeOK
  <2>3. \A g \in SettingGuesses(s) : Exhaustive => PushStack(g[2])
    BY <2>2 DEF Exhaustive
  <2> QED BY <2>1, <2>2, <2>3, SettingOpen DEF TaskInv
<1> QED BY <1>1, <1>2

\* A step that leaves the stack and the characteristic alone.
LEMMA QuietKeeps ==
    ASSUME StackInv, UNCHANGED <<stackVars, phase>>,
           pc # "unwind", pc' # "unwind",
           pc' \in {"backtrack", "abort"} \/ pc \notin {"backtrack", "abort"},
           TaskInv'
    PROVE  StackInv'
<1> USE DEF stackVars
<1>1. Top' = Top /\ op = "idle"
  BY DEF Top, StackInv, OpInv
<1>2. Consistent(stack')
  BY DEF StackInv
<1>3. OpInv'
  BY <1>1 DEF StackInv, OpInv
<1>4. CharInv'
  BY <1>1 DEF StackInv, CharInv, Usable
<1> QED BY <1>2, <1>3, <1>4 DEF StackInv

\* The bit of a search that guesses nothing has no guess that would have to fit.
LEMMA NoTaskFits == task' = task \/ task' = NoTask => (TaskInv => TaskInv')
BY DEF TaskInv, NoTask

\* The search starts with one element and no guess.
LEMMA StartConsistent ==
    /\ Consistent(<<Element(Start, 1)>>)
    /\ Last(<<Element(Start, 1)>>) = Element(Start, 1)
    /\ Replay(Element(Start, 1)) = Start
    /\ Updated(Start) /\ ~ Contradictory(Update(Start))
    /\ Element(Start, 1).phase = 1 /\ Len(Element(Start, 1).guesses) = 0
<1> DEFINE e == Element(Start, 1)
           st == <<e>>
<1>1. /\ e \in StackElement /\ e.guesses = <<>> /\ e.characteristic = Start /\ e.phase = 1
  BY StartType, PhaseNumbers, EmptySeq DEF Element, StackElement
<1>2. Updated(Start) /\ ~ Contradictory(Update(Start))
  BY StartType, StartIsChecked, UpdateIdempotent DEF Fixpoints, Updated
<1> HIDE DEF e
<1>3. Replay(e) = Start /\ GuessesFit(e) /\ Doable(e) /\ Len(e.guesses) = 0
  BY <1>1, <1>2, ReplayNothing, EmptySeq DEF Doable
<1>4. Len(st) = 1 /\ DOMAIN st = {1} /\ st[1] = e /\ Last(st) = e
  BY DEF Last
<1> HIDE DEF st
<1>5. \A i \in DOMAIN st : GuessesFit(st[i]) /\ Doable(st[i])
  BY <1>3, <1>4
<1>6. Descending(st)
  BY <1>4 DEF Descending
<1>7. SnapshotsUpdated(st)
  <2>1. 2..Len(st) = {}
    BY <1>4
  <2> QED BY <1>1, <1>2, <1>4, <2>1 DEF SnapshotsUpdated
<1>8. PhasesAscend(st)
  BY <1>1, <1>4 DEF PhasesAscend
<1>9. Short(st)
  BY <1>3, <1>4, FrequencyAssumption DEF Short
<1>10. Consistent(st)
  BY <1>5, <1>6, <1>7, <1>8, <1>9 DEF Consistent
<1> QED BY <1>1, <1>2, <1>3, <1>4, <1>10 DEF e, st

\* The invariant of the stack holds at the start.
LEMMA InitKeeps == Init => StackInv
<1> SUFFICES ASSUME Init PROVE StackInv
  OBVIOUS
<1> USE DEF Init
<1>1. Consistent(stack) /\ Top = Element(Start, 1) /\ Top.phase = 1 /\ Len(Top.guesses) = 0
  BY StartConsistent DEF Top
<1>2. OpInv
  BY <1>1 DEF OpInv
<1>3. CharInv
  BY <1>1, StartConsistent, StartType, BelowIsOrder DEF CharInv
<1>4. TaskInv
  BY DEF TaskInv, NoTask
<1> QED BY <1>1, <1>2, <1>3, <1>4 DEF StackInv

\* Restart brings the stack back to the start.
LEMMA RestartKeeps == StackInv /\ RestartSearch /\ pc # "unwind" => StackInv'
<1> SUFFICES ASSUME StackInv, RestartSearch, pc # "unwind" PROVE StackInv'
  OBVIOUS
<1>0. /\ stack' = <<Element(Start, 1)>> /\ char' = Start /\ phase' = 1 /\ pc' = "loop"
      /\ op' = op /\ task' = task /\ op = "idle"
  BY DEF RestartSearch, taskVars, StackInv, OpInv
<1>1. /\ Consistent(stack') /\ Top' = Element(Start, 1)
      /\ Top'.phase = 1 /\ Len(Top'.guesses) = 0
  BY <1>0, StartConsistent DEF Top
<1>2. OpInv'
  BY <1>0, <1>1 DEF OpInv
<1>3. CharInv'
  BY <1>0, <1>1, StartConsistent, StartType, BelowIsOrder DEF CharInv
<1>4. TaskInv'
  BY <1>0 DEF TaskInv, StackInv
<1> QED BY <1>1, <1>2, <1>3, <1>4 DEF StackInv

(***************************************************************************)
(* What GuessBit pushes fits: its choices exclude each other, and both are *)
(* part of the condition that the characteristic, and therefore what the   *)
(* guesses before it lead to, has for the bit.                             *)
(***************************************************************************)
LEMMA PushKeeps ==
    ASSUME Inv, StackInv, Inv', op = "idle", pc = "guess",
           NEW b \in Bit, NEW first, NEW second,
           first \cap second = {}, first \cup second \subseteq char[b],
           ~ Contradictory(Choose(char, b, first)), Push(Choose(char, b, first), b, first, second),
           UNCHANGED <<back, op, steps, pc, phase, task>>
    PROVE  StackInv'
<1> DEFINE c == Choose(char, b, first)
           g == [pos |-> b, first |-> first, second |-> second]
           r == Replay(Top)
           new == WithGuess(stack, c, g)
<1>1. /\ char \in Characteristic /\ r \in Characteristic /\ Below(char, r)
      /\ stack \in Seq(StackElement) /\ stack # <<>> /\ Consistent(stack)
      /\ Frequency > 0 => Len(Top.guesses) < Frequency
  BY TopFacts DEF StackInv, OpInv, CharInv
<1>2. first \subseteq char[b] /\ first \subseteq Start[b] /\ char[b] \subseteq Pair
  BY <1>1, CharacteristicType DEF Condition
<1>3. g \in Guess /\ g.pos = b /\ g.first = first /\ g.second = second
  <2>1. first \in Condition /\ second \in Condition /\ first \cup second \subseteq Start[b]
    BY <1>1, <1>2, CharacteristicType DEF Condition
  <2> QED BY <2>1 DEF Guess
<1>4. first \cup second \subseteq r[b]
  BY <1>1 DEF Below
<1>5. c \in Characteristic /\ Updated(c)
  BY <1>1, <1>2, ChooseNarrows DEF Updated
<1>6. Below(c, SetBitCondition(r, b, first))
  <2> DEFINE x == SetBitCondition(char, b, first)
             y == SetBitCondition(r, b, first)
  <2>1. x \in Characteristic /\ y \in Characteristic
    BY <1>1, <1>2, SetType
  <2>2. Below(c, x)
    BY <2>1, UpdateType DEF Choose
  <2>3. Below(x, y)
    BY <1>1, SetBelow
  <2> HIDE DEF x, y, c
  <2> QED BY <1>5, <2>1, <2>2, <2>3, BelowIsOrder DEF y
<1>7. stack' = new /\ char' = c
  BY DEF Push
<1> HIDE DEF c, g, new
<1>8. /\ Consistent(new) /\ Below(c, Replay(Last(new)))
      /\ Last(new).phase = Top.phase
      /\ Frequency > 0 => Len(Last(new).guesses) < Frequency
  <2>1. first \cap second = {} /\ ~ Contradictory(c)
    BY DEF c
  <2> QED BY <1>1, <1>3, <1>4, <1>5, <1>6, <2>1, AddGuess DEF Top, new
<1>9. OpInv'
  BY <1>7, <1>8 DEF StackInv, OpInv, Top
<1>10. CharInv'
  <2>1. ~ Contradictory(Update(c))
    BY <1>5 DEF Updated, c
  <2> QED BY <1>5, <1>7, <1>8, <2>1 DEF CharInv, Top
<1>11. TaskInv'
  BY DEF StackInv, TaskInv
<1> QED BY <1>7, <1>8, <1>9, <1>10, <1>11 DEF StackInv

\* A guess keeps the invariant of the stack, with its first choice, with its second, or with none.
LEMMA GuessBitKeeps == Inv /\ StackInv /\ GuessBit => StackInv'
<1> SUFFICES ASSUME Inv, StackInv, GuessBit PROVE StackInv'
  OBVIOUS
<1> DEFINE b == task.pos
<1>1. PICK g \in task.guesses, i \in {1, 2} :
        /\ g[1] = char[task.pos]
        /\ LET first == CHOICES(g[1])[i]
               other == CHOICES(g[1])[3 - i]
               c1    == Choose(char, b, first)
               c2    == Choose(char, b, other)
           IN  \/ /\ ~ Contradictory(c1)
                  /\ Push(c1, b, first, Remembered(g[2], other))
                  /\ UNCHANGED <<pc, critical, task>>
               \/ /\ Contradictory(c1) /\ ~ Contradictory(c2)
                  /\ Push(c2, b, other, Contradiction)
                  /\ UNCHANGED <<pc, critical, task>>
               \/ /\ Contradictory(c1) /\ Contradictory(c2)
                  /\ char' = c1
                  /\ pc' = "backtrack"
                  /\ task' = NoTask
                  /\ UNCHANGED stack
  BY DEF GuessBit, FirstIndex
<1> DEFINE first == CHOICES(g[1])[i]
           other == CHOICES(g[1])[3 - i]
           c1    == Choose(char, b, first)
           c2    == Choose(char, b, other)
<1>2. /\ pc = "guess" /\ UNCHANGED <<back, op, steps, phase>> /\ op = "idle" /\ Inv'
  BY GuessBitInv DEF GuessBit, StackInv, OpInv
<1>3. b \in Bit /\ char \in Characteristic /\ char[b] \in Condition /\ g[1] = char[b]
  BY <1>1, CharacteristicType DEF Inv, TypeOK, StackTypeOK, SearchTypeOK
<1>4. /\ first \cup other = char[b] /\ first \cap other = {}
      /\ other \cap Remembered(g[2], other) = Remembered(g[2], other)
  <2>1. IsOpen(g[1])
    BY DEF StackInv, TaskInv
  <2>2. CHOICES(g[1])[1] \cup CHOICES(g[1])[2] = g[1]
        /\ CHOICES(g[1])[1] \cap CHOICES(g[1])[2] = {}
    BY <1>3, <2>1, ChoicesDivide
  <2>3. (i = 1 /\ 3 - i = 2) \/ (i = 2 /\ 3 - i = 1)
    OBVIOUS
  <2>4. first \cup other = g[1] /\ first \cap other = {}
    BY <2>2, <2>3
  <2> QED BY <1>3, <2>4 DEF Remembered, Contradiction
<1> HIDE DEF b, first, other
<1>5. CASE ~ Contradictory(c1) /\ Push(c1, b, first, Remembered(g[2], other))
           /\ UNCHANGED <<pc, task>>
  <2>1. first \cap Remembered(g[2], other) = {}
        /\ first \cup Remembered(g[2], other) \subseteq char[b]
    BY <1>4
  <2> QED BY <1>2, <1>3, <1>5, <2>1, PushKeeps
<1>6. CASE ~ Contradictory(c2) /\ Push(c2, b, other, Contradiction) /\ UNCHANGED <<pc, task>>
  <2>1. other \cap Contradiction = {} /\ other \cup Contradiction \subseteq char[b]
    BY <1>4 DEF Contradiction
  <2> QED BY <1>2, <1>3, <1>6, <2>1, PushKeeps
<1>7. CASE char' = c1 /\ pc' = "backtrack" /\ task' = NoTask /\ UNCHANGED stack
  <2>1. c1 \in Characteristic /\ Below(c1, char) /\ Updated(c1)
    BY <1>3, <1>4, ChooseNarrows DEF Updated
  <2>2. Top' = Top
    BY <1>7 DEF Top
  <2>3. Below(c1, Replay(Top))
    BY <1>2, <1>3, <2>1, TopFacts, BelowIsOrder DEF StackInv, CharInv
  <2> HIDE DEF c1
  <2>4. OpInv'
    BY <1>2, <1>7, <2>2 DEF StackInv, OpInv
  <2>5. CharInv'
    BY <1>7, <2>1, <2>2, <2>3 DEF CharInv, Usable
  <2>6. TaskInv'
    BY <1>7, NoTaskFits DEF StackInv
  <2> QED BY <1>7, <2>4, <2>5, <2>6 DEF StackInv
<1> QED BY <1>1, <1>5, <1>6, <1>7 DEF b, first, other

\* The call of the stack and the return from it keep its invariant.
LEMMA CallKeeps == Inv /\ StackInv /\ (BackTrack \/ Settle) => StackInv'
<1> SUFFICES ASSUME Inv, StackInv, BackTrack \/ Settle PROVE StackInv'
  OBVIOUS
<1>1. Top' = Top /\ stack' = stack /\ char' = char /\ task' = task
  BY DEF BackTrack, Settle, taskVars, Top
<1>2. Consistent(stack') /\ TaskInv'
  BY <1>1 DEF StackInv, TaskInv
<1>3. CASE BackTrack
  <2>1. phase' = phase /\ pc' = "unwind" /\ op = "idle" /\ op' \in {"choice", "jump"}
    BY <1>3 DEF BackTrack, StackInv, OpInv
  <2>2. op' = "jump" => \E p \in PhaseNumber : Phases[p].backtrack # "choice"
    BY <1>3 DEF BackTrack, Inv, TypeOK, SearchTypeOK
  <2>3. OpInv'
    BY <1>1, <2>1, <2>2 DEF StackInv, OpInv
  <2>4. CharInv'
    BY <1>1, <2>1 DEF StackInv, CharInv, Usable
  <2> QED BY <1>2, <2>3, <2>4 DEF StackInv
<1>4. CASE Settle
  <2>1. /\ phase' = back /\ op = "done" /\ op' = "idle" /\ pc = "unwind"
        /\ pc' \in {"check", "loop"}
    BY <1>4 DEF Settle, PhaseAfter
  <2>2. Top.phase <= back
    BY <2>1, TopFacts, PhaseNumbers DEF StackInv, OpInv
  <2>3. OpInv'
    BY <1>1, <2>1, <2>2 DEF StackInv, OpInv
  <2>4. CharInv'
    BY <1>1, <2>1 DEF StackInv, CharInv, Usable
  <2> QED BY <1>2, <2>3, <2>4 DEF StackInv
<1> QED BY <1>3, <1>4

\* A bit that the completeness check decides narrows the characteristic only.
LEMMA ProbeKeeps == Inv /\ StackInv /\ Probe => StackInv'
<1> SUFFICES ASSUME Inv, StackInv, Probe PROVE StackInv'
  OBVIOUS
<1>1. PICK b \in todo : ProbeBit(b)
  BY DEF Probe
<1>2. /\ b \in Bit /\ char \in Characteristic /\ char[b] \in Condition
      /\ pc = "probe" /\ op = "idle" /\ UNCHANGED <<stack, back, op, steps, phase, task>>
  BY CharacteristicType
  DEF Inv, TypeOK, StackTypeOK, CheckTypeOK, Probe, searchVars, StackInv, OpInv
<1>3. Top' = Top
  BY <1>2 DEF Top
<1>4. TaskInv' /\ Consistent(stack')
  BY <1>2 DEF StackInv, TaskInv
<1>5. CASE char' = char /\ pc' \in {"probe", "backtrack"}
  <2>1. OpInv' /\ CharInv'
    BY <1>2, <1>3, <1>5 DEF StackInv, OpInv, CharInv, Usable
  <2> QED BY <1>4, <2>1 DEF StackInv
<1>6. CASE \E i \in {1, 2} : /\ ~ Contradictory(Choose(char, b, CHOICES(char[b])[i]))
                              /\ char' = Choose(char, b, CHOICES(char[b])[i])
                              /\ pc' = pc
  <2>1. PICK i \in {1, 2} : /\ ~ Contradictory(Choose(char, b, CHOICES(char[b])[i]))
                            /\ char' = Choose(char, b, CHOICES(char[b])[i])
                            /\ pc' = pc
    BY <1>6
  <2>2. CHOICES(char[b])[i] \subseteq char[b]
    BY <1>2, ChoicesNarrow
  <2>3. /\ char' \in Characteristic /\ Below(char', char) /\ Updated(char')
        /\ ~ Contradictory(char')
    BY <1>2, <2>1, <2>2, ChooseNarrows DEF Updated
  <2>4. Below(char', Replay(Top))
    BY <1>2, <2>3, TopFacts, BelowIsOrder DEF StackInv, CharInv
  <2>5. OpInv'
    BY <1>2, <1>3, <2>1 DEF StackInv, OpInv
  <2>6. CharInv'
    BY <1>3, <2>3, <2>4 DEF CharInv, Updated
  <2> QED BY <1>4, <2>5, <2>6 DEF StackInv
<1> QED BY <1>1, <1>2, <1>5, <1>6 DEF ProbeBit

\* The next phase starts with an element of its own.
LEMMA NextPhaseKeeps == Inv /\ StackInv /\ NextPhase => StackInv'
<1> SUFFICES ASSUME Inv, StackInv, NextPhase PROVE StackInv'
  OBVIOUS
<1> DEFINE e == Element(char, phase + 1)
<1>1. /\ stack' = Append(stack, e) /\ phase' = phase + 1 /\ pc = "callback" /\ pc' = "loop"
      /\ char' = char /\ op' = op /\ task' = task /\ op = "idle"
  BY DEF NextPhase, WithPhase, taskVars, StackInv, OpInv
<1>2. phase + 1 \in PhaseNumber /\ Top.phase <= phase + 1
  <2>1. phase + 1 \in PhaseNumber
    BY <1>1, PhaseInv DEF Inv, TypeOK, SearchTypeOK
  <2>2. Top.phase = phase /\ phase \in Nat
    BY <1>1, TopFacts, PhaseNumbers DEF StackInv, OpInv
  <2> QED BY <2>1, <2>2
<1>3. /\ Below(char, Replay(Top)) /\ ~ Contradictory(Update(char))
      /\ Rebuilds => Updated(char)
  BY <1>1 DEF StackInv, CharInv, Usable
<1>4. /\ Consistent(stack') /\ Top' = e /\ Replay(e) = char
  BY <1>1, <1>2, <1>3, TopFacts, AddTop DEF Top
<1>5. e.phase = phase + 1 /\ Len(e.guesses) = 0
  BY EmptySeq DEF Element
<1> HIDE DEF e
<1>6. OpInv'
  BY <1>1, <1>2, <1>4, <1>5, PhaseNumbers DEF OpInv
<1>7. CharInv'
  BY <1>1, <1>3, <1>4, TopFacts, BelowIsOrder DEF CharInv
<1>8. TaskInv'
  BY <1>1 DEF StackInv, TaskInv
<1> QED BY <1>4, <1>6, <1>7, <1>8 DEF StackInv

\* The steps that work on neither the stack nor the characteristic.
LEMMA OthersKeep ==
    Inv /\ StackInv /\
        (Stop \/ PickCritical \/ PickBit \/ GuessDone \/ AbortBackTrack \/ BeginCheck
            \/ Check \/ ProbesDone \/ NoCheck \/ Reject \/ Found)
    => StackInv'
<1> SUFFICES ASSUME Inv, StackInv,
                    Stop \/ PickCritical \/ PickBit \/ GuessDone \/ AbortBackTrack
                       \/ BeginCheck \/ Check \/ ProbesDone \/ NoCheck \/ Reject \/ Found
             PROVE  StackInv'
  OBVIOUS
<1> USE DEF stackVars, searchVars, taskVars
<1>1. TaskInv
  BY DEF StackInv
<1>2. CASE PickCritical \/ PickBit
  <2>1. TaskInv'
    BY <1>2, PickKeeps
  <2> QED BY <1>2, <2>1, QuietKeeps DEF PickCritical, PickBit, AtHead
<1>3. CASE Stop \/ AbortBackTrack \/ GuessDone
  <2>1. TaskInv'
    BY <1>1, <1>3, NoTaskFits DEF Stop, AbortBackTrack, GuessDone
  <2> QED BY <1>3, <2>1, QuietKeeps DEF Stop, AbortBackTrack, GuessDone
<1>4. CASE BeginCheck \/ NoCheck \/ Reject \/ Found
  <2>1. TaskInv'
    BY <1>1, <1>4, NoTaskFits DEF BeginCheck, NoCheck, Reject, Found
  <2> QED BY <1>4, <2>1, QuietKeeps
          DEF BeginCheck, NoCheck, Reject, Found, NothingToGuess, AtHead
<1>5. CASE Check \/ ProbesDone
  <2>1. task' = task
    BY <1>5 DEF Check, ProbesDone, EndCheck, CheckPassed, CheckFailed
  <2>2. TaskInv'
    BY <1>1, <2>1, NoTaskFits
  <2> QED BY <1>5, <2>2, QuietKeeps DEF Check, ProbesDone, EndCheck, CheckPassed, CheckFailed
<1> QED BY <1>2, <1>3, <1>4, <1>5

\* Every step keeps the invariant of the stack.
LEMMA NextKeeps == Inv /\ StackInv /\ [Next]_vars => StackInv'
<1> SUFFICES ASSUME Inv, StackInv, [Next]_vars PROVE StackInv'
  OBVIOUS
<1>1. CASE UNCHANGED vars
  <2>1. UNCHANGED <<stack, char, back, op, steps, pc, phase, task, Top>>
    BY <1>1 DEF vars, stackVars, searchVars, taskVars, Top
  <2> QED BY <2>1 DEF StackInv, OpInv, CharInv, Usable, TaskInv
<1>2. CASE Next
  <2>1. CASE OutOfCredits \/ TooManyChecks \/ (AfterFound /\ ~ EndFound)
    BY <2>1, RestartKeeps DEF OutOfCredits, TooManyChecks, AfterFound, NothingToGuess, AtHead
  <2>2. CASE AfterFound /\ EndFound
    <3>1. TaskInv'
      BY <2>2, NoTaskFits DEF AfterFound, taskVars, StackInv
    <3> QED BY <2>2, <3>1, QuietKeeps DEF AfterFound, stackVars, searchVars
  <2> QED BY <1>2, <2>1, <2>2, OthersKeep, GuessBitKeeps, CallKeeps, UnwindKeeps, ProbeKeeps,
             NextPhaseKeeps DEF Next
<1> QED BY <1>1, <1>2

-----------------------------------------------------------------------------
(* The theorems *)

(***************************************************************************)
(* In every state the guesses of each element fit, the snapshots descend,  *)
(* the phases ascend, and the characteristic lies below what the guesses   *)
(* lead to: also while the search goes back, and after it did.             *)
(***************************************************************************)
THEOREM StackInvariance == Spec => [](Inv /\ StackInv)
<1>1. Init => Inv /\ StackInv
  BY InitInv, InitKeeps
<1>2. Inv /\ StackInv /\ [Next]_vars => (Inv /\ StackInv)'
  BY NextInv, NextKeeps
<1> QED BY <1>1, <1>2, PTL DEF Spec

(***************************************************************************)
(* The elements of the stack are in the order of the phases, the top one   *)
(* belongs to the current phase, and none holds more guesses than          *)
(* Frequency: add_guess, push_back and the ways back leave no other shape. *)
(***************************************************************************)
THEOREM StackHasShape == Spec => []StackShape
<1>1. Inv /\ StackInv => StackShape
  <2> SUFFICES ASSUME Inv, StackInv PROVE StackShape
    OBVIOUS
  <2>1. Consistent(stack) /\ OpInv
    BY DEF StackInv
  <2> QED BY <2>1 DEF StackShape, Consistent, PhasesAscend, Short, OpInv
<1> QED BY StackInvariance, <1>1, PTL

(***************************************************************************)
(* "There should only be doable guesses on the stack": the assertions in   *)
(* search_stack.cpp that repeating the guesses of an element succeeds hold *)
(* whatever was guessed, discarded or taken the other way before.          *)
(***************************************************************************)
THEOREM StackIsDoable == Spec => []StackDoable
<1>1. Inv /\ StackInv => StackDoable
  BY DEF StackInv, Consistent, Doable, StackDoable
<1> QED BY StackInvariance, <1>1, PTL

(***************************************************************************)
(* Each snapshot is at least as narrow as what the guesses below it make,  *)
(* if the leaps propagate (a build with assertions) or no phase leaps.     *)
(***************************************************************************)
THEOREM SnapshotsAreNested ==
    ASSUME Rebuilds
    PROVE  Spec => []SnapshotsNested
<1>1. Inv /\ StackInv => SnapshotsNested
  BY DEF StackInv, Consistent, SnapshotsUpdated, SnapshotsNested
<1> QED BY StackInvariance, <1>1, PTL

(***************************************************************************)
(* What a pop operation returns is propagated, under the same condition;   *)
(* in a build without assertions a leap returns what is not.               *)
(***************************************************************************)
THEOREM PopsRebuild ==
    ASSUME Rebuilds
    PROVE  Spec => []StateIsRebuilt
<1>1. Inv /\ StackInv => StateIsRebuilt
  BY DEF StackInv, CharInv, Updated, StateIsRebuilt
<1> QED BY StackInvariance, <1>1, PTL

\* A choice that was not taken excludes what lies behind the choice that was.
LEMMA UntriedApart ==
    ASSUME Inv, StackInv, NEW x \in Alternatives, NEW c,
           Below(c, Replay(stack[x[1]]))
    PROVE  Apart(Untried(x), c)
<1> DEFINE el == stack[x[1]]
           g  == el.guesses[x[2]]
<1>1. x[1] \in DOMAIN stack /\ x[2] \in DOMAIN el.guesses
  BY DEF Alternatives, Positions
<1>2. el \in StackElement /\ GuessesFit(el)
  BY <1>1, TopFacts, ElementOfSeq, LenProperties DEF Consistent
<1>3. g.pos \in Bit /\ GuessFits(el, x[2])
  BY <1>1, <1>2, GuessType DEF GuessesFit
<1>4. Untried(x)[g.pos] \subseteq g.second
  BY <1>3 DEF Untried
<1>5. c[g.pos] \subseteq g.first
  <2>1. \A v \in Replay(el)[g.pos] : v \in g.first
    BY <1>1, <1>2, <1>3, ReplayNarrows
  <2> QED BY <1>3, <2>1 DEF Below
<1> HIDE DEF g
<1>6. g.first \cap g.second = {}
  BY <1>3 DEF GuessFits, g
<1> QED BY <1>3, <1>4, <1>5, <1>6 DEF Apart

(***************************************************************************)
(* The search looks at nothing twice: what the untried choices on the      *)
(* stack allow, and the current characteristic, exclude each other.        *)
(***************************************************************************)
THEOREM NothingIsTriedTwice == Spec => []NothingTwice
<1>1. ASSUME Inv, StackInv, NEW x \in Alternatives, NEW y \in Alternatives,
             x[1] < y[1] \/ (x[1] = y[1] /\ x[2] < y[2])
      PROVE  Apart(Untried(x), Untried(y))
  <2> DEFINE el == stack[x[1]]
             g  == el.guesses[x[2]]
  <2>1. /\ x[1] \in DOMAIN stack /\ x[2] \in DOMAIN el.guesses
        /\ y[1] \in DOMAIN stack /\ y[2] \in DOMAIN stack[y[1]].guesses
    BY DEF Alternatives, Positions
  <2>2. /\ el \in StackElement /\ GuessesFit(el)
        /\ stack[y[1]] \in StackElement
    BY <1>1, <2>1, TopFacts, ElementOfSeq, LenProperties DEF Consistent
  <2>3. CASE x[1] < y[1]
    <3>1. Below(stack[y[1]].characteristic, Replay(el))
      BY <1>1, <2>1, <2>3, TopFacts DEF Consistent, Descending
    <3>2. Below(Untried(y), stack[y[1]].characteristic)
      BY DEF Untried, Below
    <3>3. Below(Untried(y), Replay(el))
      BY <3>1, <3>2 DEF Below
    <3> QED BY <1>1, <3>3, UntriedApart
  <2>4. CASE x[1] = y[1] /\ x[2] < y[2]
    <3>1. g.pos \in Bit /\ x[2] \in 1..(y[2] - 1) /\ GuessFits(el, x[2])
      BY <2>1, <2>2, <2>4, GuessType DEF GuessesFit
    <3>2. Untried(x)[g.pos] \subseteq g.second
      BY <3>1 DEF Untried
    <3>3. Untried(y)[g.pos] \subseteq g.first
      BY <2>4, <3>1 DEF Untried
    <3> HIDE DEF g
    <3>4. g.first \cap g.second = {}
      BY <3>1 DEF GuessFits, g
    <3> QED BY <3>1, <3>2, <3>3, <3>4 DEF Apart
  <2> QED BY <1>1, <2>3, <2>4
<1>2. ASSUME Inv, StackInv, pc # "unwind", NEW x \in Alternatives
      PROVE  Apart(Untried(x), char)
  <2> DEFINE i == x[1]
             n == Len(stack)
  <2>1. i \in DOMAIN stack
    BY DEF Alternatives, Positions
  <2>2. /\ DOMAIN stack = 1..n /\ n \in Nat /\ n \in DOMAIN stack /\ Top = stack[n]
        /\ GuessesFit(Top) /\ Top \in StackElement
        /\ Descending(stack)
    BY <1>2, TopFacts, LenProperties DEF Consistent
  <2>3. Below(char, Replay(Top))
    BY <1>2 DEF StackInv, OpInv, CharInv
  <2>4. Below(char, Replay(stack[i]))
    <3>1. CASE i = n
      BY <2>2, <2>3, <3>1
    <3>2. CASE i < n
      <4>1. Below(Top.characteristic, Replay(stack[i]))
        BY <2>1, <2>2, <3>2 DEF Descending
      <4>2. Below(Replay(Top), Top.characteristic)
        BY <2>2, ReplayNarrows DEF Below
      <4> QED BY <2>3, <4>1, <4>2 DEF Below
    <3> HIDE DEF n
    <3>3. i = n \/ i < n
      BY <2>1, <2>2
    <3> QED BY <3>1, <3>2, <3>3
  <2> QED BY <1>2, <2>4, UntriedApart
<1>3. Inv /\ StackInv => NothingTwice
  <2> SUFFICES ASSUME Inv, StackInv PROVE NothingTwice
    OBVIOUS
  <2>1. ASSUME NEW x \in Alternatives, NEW y \in Alternatives, x # y
        PROVE  Apart(Untried(x), Untried(y))
    <3>1. /\ x[1] \in Nat /\ y[1] \in Nat /\ x[2] \in Nat /\ y[2] \in Nat
          /\ x = <<x[1], x[2]>> /\ y = <<y[1], y[2]>>
      <4>1. \A z \in Alternatives : /\ z[1] \in DOMAIN stack
                                    /\ z[2] \in DOMAIN stack[z[1]].guesses
                                    /\ z = <<z[1], z[2]>>
        BY DEF Alternatives, Positions
      <4>2. \A i \in DOMAIN stack : i \in Nat /\ stack[i] \in StackElement
        BY TopFacts, ElementOfSeq, LenProperties
      <4> QED BY <4>1, <4>2, GuessType
    <3>2. \/ x[1] < y[1] \/ (x[1] = y[1] /\ x[2] < y[2])
          \/ y[1] < x[1] \/ (y[1] = x[1] /\ y[2] < x[2])
      BY <2>1, <3>1
    <3>3. Apart(Untried(x), Untried(y)) \/ Apart(Untried(y), Untried(x))
      BY <1>1, <3>2
    <3> QED BY <3>3 DEF Apart
  <2> QED BY <1>2, <2>1 DEF NothingTwice
<1> QED BY StackInvariance, <1>3, PTL

=============================================================================
