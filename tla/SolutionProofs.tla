--------------------------- MODULE SolutionProofs ---------------------------
(***************************************************************************)
(* Proofs about the solutions: an exhaustive search loses none of them,    *)
(* and what a search finds is one.                                         *)
(***************************************************************************)
EXTENDS SearchProofs

-----------------------------------------------------------------------------
(* The choices of one element that were not taken *)

\* Untried, for a guess of any element.
UntriedOf(el, j) ==
    [b \in Bit |-> {v \in el.characteristic[b] :
        /\ \A k \in 1..(j - 1) : el.guesses[k].pos = b => v \in el.guesses[k].first
        /\ el.guesses[j].pos = b => v \in el.guesses[j].second}]

\* The solution s is in a choice of the element that was not taken.
Holds(el, s) ==
    \E j \in DOMAIN el.guesses : HasOther(el.guesses[j]) /\ Below(s, UntriedOf(el, j))

\* It is in one of the stack.
OnStack(st, s) == \E i \in DOMAIN st : Holds(st[i], s)

\* No solution is lost if each one is in the characteristic or on the stack.
LEMMA LostAnywhere ==
    NoSolutionLost <=>
        (Exhaustive => \A s \in Solution : Below(s, char) \/ OnStack(stack, s))
<1>1. \A x : Untried(x) = UntriedOf(stack[x[1]], x[2])
  BY DEF Untried, UntriedOf
<1>2. ASSUME NEW s \in Solution
      PROVE  (\E c \in {char} \cup {Untried(x) : x \in Alternatives} : Below(s, c))
                <=> Below(s, char) \/ OnStack(stack, s)
  <2>1. ASSUME NEW x \in Alternatives, Below(s, Untried(x)) PROVE OnStack(stack, s)
    <3>1. /\ x[1] \in DOMAIN stack /\ x[2] \in DOMAIN stack[x[1]].guesses
          /\ HasOther(stack[x[1]].guesses[x[2]])
      BY DEF Alternatives, Positions
    <3> QED BY <1>1, <2>1, <3>1 DEF OnStack, Holds
  <2>2. ASSUME OnStack(stack, s) PROVE \E x \in Alternatives : Below(s, Untried(x))
    <3>0. PICK i \in DOMAIN stack : Holds(stack[i], s)
      BY <2>2 DEF OnStack
    <3>1. PICK j \in DOMAIN stack[i].guesses :
              HasOther(stack[i].guesses[j]) /\ Below(s, UntriedOf(stack[i], j))
      BY <3>0 DEF Holds
    <3>2. <<i, j>> \in Alternatives
      BY <3>1 DEF Alternatives, Positions
    <3>3. Untried(<<i, j>>) = UntriedOf(stack[i], j)
      BY <1>1
    <3> QED BY <3>1, <3>2, <3>3
  <2> QED BY <2>1, <2>2
<1> QED BY <1>2 DEF NoSolutionLost

\* Without its last guess an element holds what it held, but for the other choice of that.
LEMMA HoldsWithoutLast ==
    ASSUME NEW el \in StackElement, GuessesFit(el), el.guesses # <<>>, NEW s \in Solution,
           Holds(el, s)
    PROVE  LET g   == Last(el.guesses)
               pre == Prefix(el, Len(el.guesses) - 1)
           IN  \/ Holds(pre, s)
               \/ HasOther(g) /\ Below(s, Replay(pre)) /\ s[g.pos] \subseteq g.second
<1> DEFINE gs  == el.guesses
           n   == Len(gs)
           g   == Last(gs)
           pre == Prefix(el, n - 1)
<1>1. n \in Nat \ {0} /\ DOMAIN gs = 1..n /\ g = gs[n] /\ g.pos \in Bit
  BY FrontLastType, LenProperties DEF StackElement, Last, Guess
<1>2. n - 1 \in Nat /\ n - 1 <= n
  <2> HIDE DEF n
  <2> QED BY <1>1
<1>3. /\ pre \in StackElement /\ GuessesFit(pre) /\ pre.characteristic = el.characteristic
      /\ Len(pre.guesses) = n - 1
      /\ \A j \in 1..(n - 1) : pre.guesses[j] = gs[j]
  BY <1>2, PrefixFits DEF Prefix, StackElement
<1>4. DOMAIN pre.guesses = 1..(n - 1)
  BY <1>3, LenProperties DEF StackElement
<1> HIDE DEF n, pre
<1>5. PICK j \in 1..n : HasOther(gs[j]) /\ Below(s, UntriedOf(el, j))
  BY <1>1 DEF Holds
<1>6. CASE j \in 1..(n - 1)
  <2>1. \A k \in 1..(j - 1) : k \in 1..(n - 1)
    BY <1>1, <1>6
  <2>2. \A b \in Bit : UntriedOf(pre, j)[b] = UntriedOf(el, j)[b]
    BY <1>3, <1>6, <2>1 DEF UntriedOf
  <2>3. Below(s, UntriedOf(pre, j))
    BY <1>5, <2>2 DEF Below
  <2>4. Holds(pre, s)
    BY <1>3, <1>4, <1>5, <1>6, <2>3 DEF Holds
  <2> QED BY <2>4 DEF pre, n
<1>7. CASE j = n
  <2>1. s[g.pos] \subseteq g.second
    BY <1>1, <1>5, <1>7 DEF Below, UntriedOf
  <2>2. ASSUME NEW b \in Bit, NEW v \in s[b] PROVE v \in Replay(pre)[b]
    <3>1. /\ v \in pre.characteristic[b]
          /\ \A k \in 1..(n - 1) : gs[k].pos = b => v \in gs[k].first
      BY <1>3, <1>5, <1>7, <2>2 DEF Below, UntriedOf
    <3> QED BY <1>3, <1>4, <3>1, ReplayNarrows
  <2>3. Below(s, Replay(pre))
    BY <2>2 DEF Below
  <2> QED BY <1>1, <1>5, <1>7, <2>1, <2>3 DEF pre, n
<1> QED BY <1>1, <1>6, <1>7

\* With another guess an element holds what it held, and the other choice of the guess.
LEMMA HoldsWithAnother ==
    ASSUME NEW el \in StackElement, GuessesFit(el), NEW g \in Guess, NEW s \in Solution,
           g.first \cap g.second = {}, g.first \cup g.second \subseteq Replay(el)[g.pos],
           \/ Holds(el, s)
           \/ HasOther(g) /\ Below(s, Replay(el)) /\ s[g.pos] \subseteq g.second
    PROVE  Holds(WithAnother(el, g), s)
<1> DEFINE gs == el.guesses
           n  == Len(gs)
           w  == WithAnother(el, g)
<1>1. gs \in Seq(Guess) /\ n \in Nat /\ DOMAIN gs = 1..n
  BY LenProperties DEF StackElement
<1>2. /\ w \in StackElement /\ w.guesses = Append(gs, g)
      /\ w.characteristic = el.characteristic
  BY AnotherFits DEF WithAnother, StackElement
<1>3. /\ DOMAIN w.guesses = 1..(n + 1) /\ w.guesses[n + 1] = g
      /\ \A j \in 1..n : w.guesses[j] = gs[j]
  BY <1>1, <1>2, AppendProperties, LenProperties
<1> HIDE DEF n, w
<1>4. CASE Holds(el, s)
  <2>1. PICK j \in 1..n : HasOther(gs[j]) /\ Below(s, UntriedOf(el, j))
    BY <1>1, <1>4 DEF Holds
  <2>2. j \in 1..(n + 1) /\ \A k \in 1..(j - 1) : k \in 1..n
    BY <1>1
  <2>3. \A b \in Bit : UntriedOf(w, j)[b] = UntriedOf(el, j)[b]
    <3>1. /\ w.characteristic = el.characteristic /\ w.guesses[j] = el.guesses[j]
          /\ \A k \in 1..(j - 1) : w.guesses[k] = el.guesses[k]
      BY <1>2, <1>3, <2>2
    <3> QED BY <3>1 DEF UntriedOf
  <2>4. Below(s, UntriedOf(w, j))
    BY <2>1, <2>3 DEF Below
  <2> QED BY <1>3, <2>1, <2>2, <2>4 DEF Holds, w
<1>5. CASE HasOther(g) /\ Below(s, Replay(el)) /\ s[g.pos] \subseteq g.second
  <2>1. n + 1 \in 1..(n + 1) /\ (n + 1) - 1 = n
    BY <1>1
  <2>2. ASSUME NEW b \in Bit, NEW v \in s[b] PROVE v \in UntriedOf(w, n + 1)[b]
    <3>1. v \in el.characteristic[b] /\ \A k \in 1..n : gs[k].pos = b => v \in gs[k].first
      BY <1>1, <1>5, <2>2, ReplayNarrows DEF Below
    <3>2. g.pos = b => v \in g.second
      BY <1>5, <2>2
    <3> QED BY <1>2, <1>3, <2>1, <3>1, <3>2 DEF UntriedOf
  <2>3. Below(s, UntriedOf(w, n + 1))
    BY <2>2 DEF Below
  <2> QED BY <1>3, <1>5, <2>1, <2>3 DEF Holds, w
<1> QED BY <1>4, <1>5

-----------------------------------------------------------------------------
(* The choices of the stack that were not taken *)

\* An element in the place of the top one that holds the solution if that did.
LEMMA OnStackExchanged ==
    ASSUME NEW st \in Seq(StackElement), st # <<>>, NEW el, NEW s,
           \/ Holds(el, s)
           \/ OnStack(st, s) /\ ~ Holds(Last(st), s)
    PROVE  OnStack([st EXCEPT ![Len(st)] = el], s)
<1> DEFINE n == Len(st)
           new == [st EXCEPT ![n] = el]
<1>1. n \in DOMAIN st /\ Last(st) = st[n]
  BY TopType DEF Last
<1>2. DOMAIN new = DOMAIN st /\ new[n] = el /\ \A i \in DOMAIN st : i # n => new[i] = st[i]
  BY <1>1
<1> HIDE DEF new, n
<1>3. CASE Holds(el, s)
  BY <1>1, <1>2, <1>3 DEF OnStack, new, n
<1>4. CASE OnStack(st, s) /\ ~ Holds(Last(st), s)
  <2>1. PICK i \in DOMAIN st : Holds(st[i], s)
    BY <1>4 DEF OnStack
  <2>2. i # n
    BY <1>1, <1>4, <2>1
  <2> QED BY <1>2, <2>1, <2>2 DEF OnStack, new, n
<1> QED BY <1>3, <1>4

\* Popping the last guess loses what its other choice allows, and nothing else.
LEMMA OnStackWithoutGuess ==
    ASSUME NEW st \in Seq(StackElement), st # <<>>, Consistent(st), Last(st).guesses # <<>>,
           NEW s \in Solution, OnStack(st, s)
    PROVE  LET g == Last(Last(st).guesses)
           IN  \/ OnStack(WithoutGuess(st), s)
               \/ /\ HasOther(g)
                  /\ Below(s, Replay(Last(WithoutGuess(st))))
                  /\ s[g.pos] \subseteq g.second
<1> DEFINE t   == Last(st)
           pre == Prefix(t, Len(t.guesses) - 1)
<1>1. t \in StackElement /\ GuessesFit(t) /\ t = st[Len(st)]
  BY TopType DEF Consistent, Last
<1>2. WithoutGuess(st) = [st EXCEPT ![Len(st)] = pre] /\ Last(WithoutGuess(st)) = pre
  <2>1. Front(t.guesses) = SubSeq(t.guesses, 1, Len(t.guesses) - 1)
    BY <1>1, LastGuessFits
  <2>2. Last(WithoutGuess(st)) = pre
    BY DropGuess
  <2> QED BY <1>1, <2>1, <2>2 DEF WithoutGuess, Prefix
<1> HIDE DEF pre
<1>3. CASE Holds(t, s)
  <2>1. \/ Holds(pre, s)
        \/ /\ HasOther(Last(t.guesses)) /\ Below(s, Replay(pre))
           /\ s[Last(t.guesses).pos] \subseteq Last(t.guesses).second
    BY <1>1, <1>3, HoldsWithoutLast DEF pre
  <2>2. Holds(pre, s) => OnStack([st EXCEPT ![Len(st)] = pre], s)
    BY OnStackExchanged
  <2> QED BY <1>2, <2>1, <2>2
<1>4. CASE ~ Holds(t, s)
  <2>1. OnStack([st EXCEPT ![Len(st)] = pre], s)
    BY <1>4, OnStackExchanged
  <2> QED BY <1>2, <2>1
<1> QED BY <1>3, <1>4

\* A new element on top keeps what the stack holds.
LEMMA OnStackAppended ==
    ASSUME NEW st \in Seq(StackElement), NEW e \in StackElement, NEW s, OnStack(st, s)
    PROVE  OnStack(Append(st, e), s)
<1> DEFINE n == Len(st)
<1>1. /\ n \in Nat /\ DOMAIN st = 1..n /\ Len(Append(st, e)) = n + 1
      /\ \A i \in 1..n : Append(st, e)[i] = st[i]
      /\ DOMAIN Append(st, e) = 1..(n + 1)
  BY AppendProperties, LenProperties
<1>2. PICK i \in 1..n : Holds(st[i], s)
  BY <1>1 DEF OnStack
<1>3. i \in 1..(n + 1)
  <2> HIDE DEF n
  <2> QED BY <1>1
<1> QED BY <1>1, <1>2, <1>3 DEF OnStack

\* An element without guesses can be dropped.
LEMMA OnStackDropped ==
    ASSUME NEW st \in Seq(StackElement), st # <<>>, Last(st).guesses = <<>>, NEW s, OnStack(st, s)
    PROVE  OnStack(Front(st), s)
<1> DEFINE n == Len(st)
<1>1. /\ n \in Nat \ {0} /\ DOMAIN st = 1..n /\ Last(st) = st[n]
      /\ Front(st) \in Seq(StackElement) /\ Len(Front(st)) = n - 1
      /\ \A i \in 1..(n - 1) : Front(st)[i] = st[i]
  BY FrontLastType, LenProperties DEF Last
<1>2. DOMAIN Front(st) = 1..(n - 1)
  BY <1>1, LenProperties
<1>3. PICK i \in 1..n : Holds(st[i], s)
  BY <1>1 DEF OnStack
<1>4. i # n
  <2>1. DOMAIN st[n].guesses = {}
    BY <1>1
  <2>2. DOMAIN st[i].guesses # {}
    BY <1>3 DEF Holds
  <2> QED BY <2>1, <2>2
<1>5. i \in 1..(n - 1)
  <2> HIDE DEF n
  <2> QED BY <1>1, <1>4
<1> QED BY <1>1, <1>2, <1>3, <1>5 DEF OnStack

\* add_guess keeps what the stack holds, and adds the other choice of the guess.
LEMMA OnStackWithGuess ==
    ASSUME NEW st \in Seq(StackElement), st # <<>>, Consistent(st), NEW g \in Guess,
           g.first \cap g.second = {},
           g.first \cup g.second \subseteq Replay(Last(st))[g.pos],
           NEW c \in Characteristic, NEW s \in Solution,
           \/ OnStack(st, s)
           \/ HasOther(g) /\ Below(s, Replay(Last(st))) /\ s[g.pos] \subseteq g.second
    PROVE  OnStack(WithGuess(st, c, g), s)
<1> DEFINE t == Last(st)
           w == WithAnother(t, g)
           added == [st EXCEPT ![Len(st)].guesses = Append(@, g)]
<1>1. /\ t \in StackElement /\ t = st[Len(st)] /\ Len(st) \in DOMAIN st /\ GuessesFit(t)
  BY TopType DEF Consistent, Last
<1>2. added = [st EXCEPT ![Len(st)] = w]
  BY <1>1 DEF WithAnother
<1>3. w \in StackElement
  BY <1>1, AnotherFits
<1>4. OnStack(added, s)
  <2>1. Holds(w, s) \/ (OnStack(st, s) /\ ~ Holds(t, s))
    BY <1>1, HoldsWithAnother
  <2> HIDE DEF w, added
  <2> QED BY <1>2, <2>1, OnStackExchanged
<1>5. added \in Seq(StackElement) \ {<<>>}
  <2>1. w.guesses \in Seq(Guess) /\ w.guesses = Append(t.guesses, g)
    BY <1>1, <1>3 DEF WithAnother, StackElement
  <2>2. added = [st EXCEPT ![Len(st)].guesses = w.guesses]
    BY <1>1, <2>1
  <2> HIDE DEF w, added
  <2> QED BY <2>1, <2>2, TopGuessesType
<1>6. Element(c, Last(added).phase) \in StackElement
  <2> HIDE DEF added
  <2> QED BY <1>5, TopType, EmptySeq DEF Element, StackElement
<1>7. OnStack(Append(added, Element(c, Last(added).phase)), s)
  <2> HIDE DEF added
  <2> QED BY <1>4, <1>5, <1>6, OnStackAppended
<1> QED BY <1>4, <1>7 DEF WithGuess

-----------------------------------------------------------------------------
(* An exhaustive search loses no solution *)

\* The solution s is left, and not in a characteristic the search goes back from.
Left(s) ==
    /\ Below(s, char) \/ OnStack(stack, s)
    /\ Exhausted => ~ Below(s, char)

SolutionsLeft == Exhaustive => \A s \in Solution : Left(s)

\* The invariant, one solution at a time.
LEMMA LeftIsInv == SolutionInv <=> SolutionsLeft
BY LostAnywhere DEF SolutionInv, SolutionsLeft, Left

\* The same after a step.
LEMMA LeftIsInvNext == SolutionInv' <=> SolutionsLeft'
BY LeftIsInv, PTL

\* A start of the search has every solution before it.
LEMMA StartLeaves ==
    ASSUME NEW s \in Solution, op' = "idle", pc' = "loop", char' = Start
    PROVE  Left(s)'
<1>1. Below(s, Start)
  BY SolutionType, CharacteristicType DEF Below
<1> QED BY <1>1 DEF Left, Exhausted

\* A step that works on neither the stack nor the characteristic.
LEMMA QuietLeaves ==
    ASSUME NEW s \in Solution, Left(s), stack' = stack, char' = char, Exhausted' => Exhausted
    PROVE  Left(s)'
BY DEF Left

(***************************************************************************)
(* A guess that is pushed: the solution is below the choice that was taken *)
(* and in what it propagates to, or the stack keeps it with the other.     *)
(***************************************************************************)
LEMMA PushLeaves ==
    ASSUME Inv, StackInv, op = "idle", op' = "idle", pc = "guess", pc' = pc,
           NEW s \in Solution, Left(s),
           NEW b \in Bit, NEW first, NEW second,
           first \cap second = {}, first \cup second \subseteq char[b],
           Push(Choose(char, b, first), b, first, second),
           Below(s, char) =>
              \/ Below(s, Choose(char, b, first))
              \/ second # Contradiction /\ s[b] \subseteq second
    PROVE  Left(s)'
<1> DEFINE c == Choose(char, b, first)
           g == [pos |-> b, first |-> first, second |-> second]
<1>1. /\ char \in Characteristic /\ Below(char, Replay(Top)) /\ Replay(Top) \in Characteristic
      /\ stack \in Seq(StackElement) /\ stack # <<>> /\ Consistent(stack)
  BY TopFacts DEF StackInv, CharInv
<1>2. char[b] \in Condition /\ char[b] \subseteq Start[b] /\ char[b] \subseteq Replay(Top)[b]
  BY <1>1, CharacteristicType DEF Below
<1>3. g \in Guess
  BY <1>2 DEF Guess, Condition
<1>4. c \in Characteristic
  BY <1>1, <1>2, ChooseNarrows
<1>5. stack' = WithGuess(stack, c, g) /\ char' = c
  BY DEF Push
<1>6. /\ g.first \cap g.second = {} /\ g.pos = b /\ g.second = second
      /\ g.first \cup g.second \subseteq Replay(Last(stack))[g.pos]
  BY <1>2 DEF Top
<1>7. ~ Exhausted'
  BY DEF Exhausted
<1> HIDE DEF c, g
<1>8. CASE Below(s, c)
  BY <1>5, <1>7, <1>8 DEF Left
<1>9. CASE \/ OnStack(stack, s)
           \/ Below(s, char) /\ second # Contradiction /\ s[b] \subseteq second
  <2>1. Below(s, char) => Below(s, Replay(Last(stack)))
    BY <1>1 DEF Below, Top
  <2>2. OnStack(WithGuess(stack, c, g), s)
    BY <1>1, <1>3, <1>4, <1>6, <1>9, <2>1, OnStackWithGuess DEF HasOther
  <2> QED BY <1>5, <1>7, <2>2 DEF Left
<1> QED BY <1>8, <1>9 DEF Left, c

\* GuessBit loses no solution, also when both choices of the bit fail.
LEMMA GuessBitLeaves ==
    ASSUME Inv, StackInv, GuessBit, Exhaustive, NEW s \in Solution, Left(s)
    PROVE  Left(s)'
<1> DEFINE b == task.pos
<1>1. PICK g \in task.guesses, i \in {1, 2} :
        /\ g[1] = char[task.pos]
        /\ LET first == CHOICES(g[1])[i]
               other == CHOICES(g[1])[3 - i]
               c1    == Choose(char, b, first)
               c2    == Choose(char, b, other)
           IN  \/ /\ ~ Contradictory(c1)
                  /\ Push(c1, b, first, Remembered(g[2], other))
                  /\ UNCHANGED <<pc, critical, task>>
               \/ /\ Contradictory(c1) /\ ~ Contradictory(c2)
                  /\ Push(c2, b, other, Contradiction)
                  /\ UNCHANGED <<pc, critical, task>>
               \/ /\ Contradictory(c1) /\ Contradictory(c2)
                  /\ char' = c1
                  /\ pc' = "backtrack"
                  /\ UNCHANGED stack
  BY DEF GuessBit, FirstIndex
<1> DEFINE first == CHOICES(g[1])[i]
           other == CHOICES(g[1])[3 - i]
           c1    == Choose(char, b, first)
           c2    == Choose(char, b, other)
<1>2. pc = "guess" /\ op = "idle" /\ op' = "idle"
  BY DEF GuessBit, StackInv, OpInv
<1>3. /\ b \in Bit /\ char \in Characteristic /\ char[b] \in Condition /\ g[1] = char[b]
      /\ (i = 1 /\ 3 - i = 2) \/ (i = 2 /\ 3 - i = 1)
  BY <1>1, CharacteristicType DEF Inv, TypeOK, StackTypeOK, SearchTypeOK
<1>4. /\ first \cup other = char[b] /\ first \cap other = {} /\ other # {}
      /\ Remembered(g[2], other) = other
  <2>1. IsOpen(g[1]) /\ PushStack(g[2])
    BY DEF StackInv, TaskInv
  <2>2. /\ CHOICES(g[1])[1] \cup CHOICES(g[1])[2] = g[1]
        /\ CHOICES(g[1])[1] \cap CHOICES(g[1])[2] = {}
        /\ CHOICES(g[1])[1] # {} /\ CHOICES(g[1])[2] # {}
    BY <1>3, <2>1, ChoicesDivide
  <2> QED BY <1>3, <2>1, <2>2 DEF Remembered
<1>5. Below(s, char) =>
        \/ s[b] \subseteq first /\ Below(s, c1) /\ ~ Contradictory(c1)
        \/ s[b] \subseteq other /\ Below(s, c2) /\ ~ Contradictory(c2)
  BY <1>3, ChoicesKeepSolutions
<1> HIDE DEF b, first, other
<1>6. CASE ~ Contradictory(c1) /\ Push(c1, b, first, Remembered(g[2], other)) /\ UNCHANGED pc
  BY <1>2, <1>3, <1>4, <1>5, <1>6, PushLeaves DEF Contradiction
<1>7. CASE Contradictory(c1) /\ Push(c2, b, other, Contradiction) /\ UNCHANGED pc
  <2>1. other \cap Contradiction = {} /\ other \cup Contradiction \subseteq char[b]
    BY <1>4 DEF Contradiction
  <2>2. Below(s, char) => Below(s, c2)
    BY <1>5, <1>7
  <2> QED BY <1>2, <1>3, <1>7, <2>1, <2>2, PushLeaves
<1>8. CASE Contradictory(c1) /\ Contradictory(c2) /\ char' = c1 /\ UNCHANGED stack
  <2>1. ~ Below(s, char)
    BY <1>5, <1>8
  <2>2. ~ Contradictory(s)
    BY SolutionType DEF Contradictory, Contradiction
  <2>3. ~ Below(s, c1)
    BY <1>8, <2>2, ContradictionBelow
  <2> QED BY <1>8, <2>1, <2>3 DEF Left
<1> QED BY <1>1, <1>6, <1>7, <1>8 DEF b, first, other

(***************************************************************************)
(* Going back loses no solution: what is dropped has no other choice, and  *)
(* of the other choice that is taken the propagation keeps the solutions.  *)
(***************************************************************************)
LEMMA UnwindLeaves ==
    ASSUME Inv, StackInv, Unwind, Exhaustive, NEW s \in Solution, Left(s)
    PROVE  Left(s)'
<1>1. pc' = pc /\ pc = "unwind" /\ op # "jump"
  <2>1. \A p \in PhaseNumber : Phases[p].backtrack = "choice"
    BY DEF Exhaustive
  <2> QED BY <2>1 DEF Unwind, StackInv, OpInv
<1>2. /\ stack \in Seq(StackElement) /\ stack # <<>> /\ Consistent(stack)
      /\ Top \in StackElement /\ GuessesFit(Top)
  BY TopFacts
<1>3. op = "choice" => OnStack(stack, s) /\ ~ Below(s, char)
  BY DEF Left, Exhausted
<1>4. CASE ReturnSnapshot
  <2>1. op = "choice" /\ \A i \in DOMAIN stack : stack[i].guesses = <<>>
    BY <1>4 DEF ReturnSnapshot, NoGuesses
  <2>2. PICK i \in DOMAIN stack : Holds(stack[i], s)
    BY <1>3, <2>1 DEF OnStack
  <2>3. DOMAIN stack[i].guesses = {}
    BY <2>1
  <2> QED BY <2>2, <2>3 DEF Holds
<1>5. CASE PopElement
  <2>1. op = "choice" /\ Top.guesses = <<>> /\ stack' = Front(stack) /\ UNCHANGED <<char, op>>
    BY <1>5 DEF PopElement
  <2>2. OnStack(Front(stack), s)
    BY <1>2, <1>3, <2>1, OnStackDropped DEF Top
  <2> QED BY <1>3, <2>1, <2>2 DEF Left
<1>6. CASE PopGuess
  <2>1. /\ op = "choice" /\ Top.guesses # <<>> /\ ~ HasOther(Last(Top.guesses))
        /\ stack' = WithoutGuess(stack) /\ UNCHANGED <<char, op>>
    BY <1>6 DEF PopGuess
  <2>2. OnStack(WithoutGuess(stack), s)
    BY <1>2, <1>3, <2>1, OnStackWithoutGuess DEF Top
  <2> QED BY <1>3, <2>1, <2>2 DEF Left
<1>7. CASE TakeOtherChoice
  <2> DEFINE g == Last(Top.guesses)
             taken == [pos |-> g.pos, first |-> g.second, second |-> Contradiction]
             less == WithoutGuess(stack)
             r == Replay(Last(less))
             c == OtherChoice
  <2>1. /\ Top.guesses # <<>> /\ op = "choice" /\ c = Choose(r, g.pos, g.second)
        /\ \/ Contradictory(c) /\ stack' = less /\ UNCHANGED <<char, op>>
           \/ stack' = WithGuess(less, c, taken) /\ char' = c /\ op' = "done"
    BY <1>7 DEF TakeOtherChoice, OtherChoice, Return
  <2>2. /\ g \in Guess /\ g.pos \in Bit /\ taken \in Guess
        /\ g.second \subseteq Replay(Prefix(Top, Len(Top.guesses) - 1))[g.pos]
    BY <1>2, <2>1, LastGuessFits DEF Guess, Contradiction, Condition
  <2>3. /\ less \in Seq(StackElement) /\ less # <<>> /\ Consistent(less)
        /\ Last(less) = Prefix(Top, Len(Top.guesses) - 1)
    BY <1>2, <2>1, DropGuess DEF Top
  <2>4. r \in Characteristic /\ g.second \subseteq r[g.pos]
    BY <2>2, <2>3, TopType, ReplayType
  <2>5. c \in Characteristic
    BY <2>1, <2>2, <2>4, ChooseNarrows
  <2>6. \/ OnStack(less, s)
        \/ Below(s, r) /\ s[g.pos] \subseteq g.second
    BY <1>2, <1>3, <2>1, OnStackWithoutGuess DEF Top
  <2>7. Below(s, r) /\ s[g.pos] \subseteq g.second => Below(s, c) /\ ~ Contradictory(c)
    <3> SUFFICES ASSUME Below(s, r), s[g.pos] \subseteq g.second
                 PROVE  Below(s, c) /\ ~ Contradictory(c)
      OBVIOUS
    <3> DEFINE set == SetBitCondition(r, g.pos, g.second)
    <3>1. g.second \subseteq Start[g.pos]
      BY <2>2, <2>4, CharacteristicType
    <3>2. set \in Characteristic /\ c = Update(set)
      BY <2>1, <2>2, <2>4, <3>1, SetType DEF Choose
    <3>3. r \in [Bit -> Condition]
      BY <2>4, CharacteristicType
    <3>4. Below(s, set)
      BY <2>2, <3>3 DEF Below, SetBitCondition
    <3>5. Update(set) \in Characteristic /\ Update(Update(set)) = Update(set)
      BY <3>2, UpdateType, UpdateIdempotent
    <3> HIDE DEF set, c
    <3>6. Below(s, Update(set)) /\ ~ Contradictory(Update(set))
      <4>1. Below(s, Update(set))
        BY <3>2, <3>4, UpdateKeepsSolutions
      <4> QED BY <3>2, <3>4, <4>1, UpdateKeepsSolutions
    <3> QED BY <3>2, <3>6
  <2> HIDE DEF g, less, c
  <2>8. CASE Contradictory(c) /\ stack' = less /\ UNCHANGED <<char, op>>
    BY <1>3, <2>1, <2>6, <2>7, <2>8 DEF Left
  <2>9. CASE stack' = WithGuess(less, c, taken) /\ char' = c /\ op' = "done"
    <3>1. ~ Exhausted'
      BY <1>1, <2>9 DEF Exhausted
    <3>2. CASE OnStack(less, s)
      <4>1. /\ taken.first \cap taken.second = {} /\ taken.pos = g.pos
            /\ taken.first \cup taken.second \subseteq Replay(Last(less))[taken.pos]
        BY <2>4 DEF Contradiction
      <4> HIDE DEF taken
      <4>2. OnStack(WithGuess(less, c, taken), s)
        BY <2>2, <2>3, <2>5, <3>2, <4>1, OnStackWithGuess
      <4> QED BY <2>9, <3>1, <4>2 DEF Left
    <3>3. CASE ~ OnStack(less, s)
      BY <2>6, <2>7, <2>9, <3>1, <3>3 DEF Left
    <3> QED BY <3>2, <3>3
  <2> QED BY <2>1, <2>8, <2>9 DEF less
<1> QED BY <1>1, <1>4, <1>5, <1>6, <1>7 DEF Unwind, StackStep, DropElement, Jump

\* The completeness check loses no solution: it decides a bit only if the other choice fails.
LEMMA ProbeLeaves ==
    ASSUME Inv, StackInv, Probe, NEW s \in Solution, Left(s)
    PROVE  Left(s)'
<1>1. PICK b \in todo : ProbeBit(b)
  BY DEF Probe
<1>2. /\ b \in Bit /\ char \in Characteristic /\ stack' = stack /\ op = "idle" /\ op' = "idle"
      /\ pc = "probe"
  BY DEF Inv, TypeOK, StackTypeOK, CheckTypeOK, Probe, StackInv, OpInv
<1> DEFINE r(i) == Choose(char, b, CHOICES(char[b])[i])
<1>3. Below(s, char) => \E i \in {1, 2} : Below(s, r(i)) /\ ~ Contradictory(r(i))
  BY <1>2, ChoicesKeepSolutions
<1> HIDE DEF r
<1>4. CASE char' = char /\ pc' = pc
  BY <1>2, <1>4 DEF Left, Exhausted
<1>5. CASE \E i \in {1, 2} : Contradictory(r(3 - i)) /\ char' = r(i) /\ pc' = pc
  <2>1. PICK i \in {1, 2} : Contradictory(r(3 - i)) /\ char' = r(i) /\ pc' = pc
    BY <1>5
  <2>2. \A j \in {1, 2} : j = i \/ j = 3 - i
    OBVIOUS
  <2>3. Below(s, char) => Below(s, char')
    BY <1>3, <2>1, <2>2
  <2> QED BY <1>2, <2>1, <2>3 DEF Left, Exhausted
<1>6. CASE Contradictory(r(1)) /\ Contradictory(r(2)) /\ char' = char
  BY <1>2, <1>3, <1>6 DEF Left
<1> QED BY <1>1, <1>4, <1>5, <1>6 DEF ProbeBit, r

\* A new phase keeps what the stack holds.
LEMMA NextPhaseLeaves ==
    ASSUME Inv, StackInv, NextPhase, NEW s \in Solution, Left(s)
    PROVE  Left(s)'
<1>1. /\ stack' = Append(stack, Element(char, phase + 1)) /\ char' = char /\ op' = op
      /\ pc' = "loop"
  BY DEF NextPhase, WithPhase
<1>2. phase + 1 \in PhaseNumber /\ char \in Characteristic /\ stack \in Seq(StackElement)
  BY PhaseInv DEF NextPhase, Inv, TypeOK, StackTypeOK, SearchTypeOK
<1>3. Element(char, phase + 1) \in StackElement
  BY <1>2, EmptySeq DEF Element, StackElement
<1>4. OnStack(stack, s) => OnStack(stack', s)
  <2> DEFINE e == Element(char, phase + 1)
  <2> HIDE DEF e
  <2> QED BY <1>1, <1>2, <1>3, OnStackAppended DEF e
<1> QED BY <1>1, <1>4 DEF Left, Exhausted

\* Every step of an exhaustive search keeps the solution.
LEMMA NextLeaves ==
    ASSUME Inv, StackInv, [Next]_vars, Exhaustive, NEW s \in Solution, Left(s)
    PROVE  Left(s)'
<1> USE DEF stackVars, searchVars, taskVars
<1>1. pc = "unwind" <=> op # "idle"
  BY DEF StackInv, OpInv
<1>2. CASE UNCHANGED vars
  BY <1>2, QuietLeaves DEF vars, Exhausted
<1>3. CASE Stop \/ PickCritical \/ PickBit \/ GuessDone \/ AbortBackTrack
  <2>1. stack' = stack /\ char' = char /\ op' = op /\ pc' # "backtrack"
    BY <1>3 DEF Stop, PickCritical, PickBit, GuessDone, AbortBackTrack
  <2> QED BY <2>1, QuietLeaves DEF Exhausted
<1>4. CASE BackTrack \/ Settle
  <2>1. stack' = stack /\ char' = char /\ (Exhausted' => Exhausted)
    BY <1>4 DEF BackTrack, Settle, Exhausted
  <2> QED BY <2>1, QuietLeaves
<1>5. CASE BeginCheck \/ Check \/ ProbesDone \/ NoCheck \/ Found \/ (AfterFound /\ EndFound)
  <2>1. stack' = stack /\ char' = char /\ op' = op /\ pc' # "backtrack"
    BY <1>5 DEF BeginCheck, Check, ProbesDone, EndCheck, CheckPassed, CheckFailed, NoCheck,
                Found, AfterFound
  <2> QED BY <2>1, QuietLeaves DEF Exhausted
<1>6. CASE OutOfCredits \/ TooManyChecks \/ (AfterFound /\ ~ EndFound)
  <2>1. RestartSearch /\ pc # "unwind"
    BY <1>6 DEF OutOfCredits, TooManyChecks, AfterFound, NothingToGuess, AtHead
  <2>2. op' = "idle" /\ pc' = "loop" /\ char' = Start
    BY <1>1, <2>1 DEF RestartSearch
  <2> QED BY <2>2, StartLeaves
<1>7. ~ Reject
  BY DEF Reject, Exhaustive
<1> QED BY <1>2, <1>3, <1>4, <1>5, <1>6, <1>7, GuessBitLeaves, UnwindLeaves, ProbeLeaves,
           NextPhaseLeaves DEF Next

(***************************************************************************)
(* A search that remembers every choice and goes back one by one keeps,    *)
(* between two starts, each solution in the current characteristic or in   *)
(* a choice the stack still holds; and what it goes back from has none.    *)
(***************************************************************************)
THEOREM SolutionInvariance == Spec => []SolutionInv
<1>1. Init => SolutionInv
  <2> SUFFICES ASSUME Init PROVE SolutionsLeft
    BY LeftIsInv
  <2>1. \A s \in Solution : Below(s, Start)
    BY SolutionType, CharacteristicType DEF Below
  <2> QED BY <2>1 DEF Init, SolutionsLeft, Left, Exhausted
<1>2. Inv /\ StackInv /\ SolutionInv /\ [Next]_vars => SolutionInv'
  <2> SUFFICES ASSUME Inv, StackInv, SolutionsLeft, [Next]_vars PROVE SolutionsLeft'
    BY LeftIsInv, LeftIsInvNext
  <2> QED BY NextLeaves DEF SolutionsLeft
<1> QED BY <1>1, <1>2, StackInvariance, PTL DEF Spec

(***************************************************************************)
(* The search loses no solution: guesses, both ways of a choice, the bits  *)
(* a completeness check decides, snapshots and phases all keep them.       *)
(***************************************************************************)
THEOREM NoSolutionIsLost == Spec => []NoSolutionLost
<1>1. SolutionInv => NoSolutionLost
  BY DEF SolutionInv, NoSolutionLost
<1> QED BY SolutionInvariance, <1>1, PTL

-----------------------------------------------------------------------------
(* What a phase decides stays decided *)

\* The bits of the phases before that of the element are decided in its snapshot.
SnapshotDecided(el) ==
    \A p \in 1..(el.phase - 1) : \A b \in Decides(p) : ~ IsOpen(el.characteristic[b])

SnapshotsDecided(st) == \A i \in DOMAIN st : SnapshotDecided(st[i])

\* What the phase has decided when nothing is left to guess in it.
PhaseDecided ==
    pc \in {"callback", "found"} \/ (pc \in {"check", "probe"} /\ clean) =>
        \A b \in Decides(phase) : ~ IsOpen(char[b])

\* The parts of the invariant, the first one for any stack.
LEMMA DecidedParts ==
    DecidedInv <=> SnapshotsDecided(stack) /\ PhaseDecided /\ (pc = "found" => LastPhase)
BY DEF DecidedInv, SnapshotsDecided, SnapshotDecided, PhaseDecided

\* The same after a step.
LEMMA DecidedPartsNext ==
    DecidedInv' <=> SnapshotsDecided(stack') /\ PhaseDecided' /\ (pc = "found" => LastPhase)'
BY DEF DecidedInv, SnapshotsDecided, SnapshotDecided, PhaseDecided

\* If there is nothing to guess in a phase the bits it decides are decided.
LEMMA NothingLeft ==
    ASSUME NEW p \in PhaseNumber, NEW c \in Characteristic, ~ Guessable(p, c), NEW b \in Decides(p)
    PROVE  ~ IsOpen(c[b])
<1>1. b \in Bit /\ c[b] \in SUBSET Start[b]
  BY CharacteristicType DEF Decides
<1>2. ASSUME IsOpen(c[b]) PROVE FALSE
  <2>1. PICK s \in Phases[p].settings :
            b \in s.mask /\ \E g \in SettingGuesses(s) : g[1] = c[b]
    BY <1>1, <1>2 DEF Decides
  <2>2. b \in SearchMask(s, c)
    BY <2>1 DEF SearchMask
  <2> QED BY <2>1, <2>2 DEF Guessable
<1> QED BY <1>2

\* The guesses of an element do not matter.
LEMMA ExchangedDecided ==
    ASSUME NEW st \in Seq(StackElement), st # <<>>, SnapshotsDecided(st), NEW gs
    PROVE  SnapshotsDecided([st EXCEPT ![Len(st)].guesses = gs])
<1> DEFINE n == Len(st)
           new == [st EXCEPT ![n].guesses = gs]
<1>1. n \in DOMAIN st /\ st[n] \in StackElement
  BY TopType, ElementOfSeq, LenProperties
<1>2. DOMAIN new = DOMAIN st
  OBVIOUS
<1>3. ASSUME NEW i \in DOMAIN st
      PROVE  new[i].characteristic = st[i].characteristic /\ new[i].phase = st[i].phase
  <2>1. CASE i = n
    BY <1>1, <2>1 DEF StackElement
  <2>2. CASE i # n
    BY <2>2
  <2> QED BY <2>1, <2>2
<1> HIDE DEF n, new
<1>4. \A i \in DOMAIN st : SnapshotDecided(new[i])
  BY <1>3 DEF SnapshotsDecided, SnapshotDecided
<1> QED BY <1>2, <1>4 DEF SnapshotsDecided, new, n

\* A new element on top: only its own snapshot is to be looked at.
LEMMA AppendedDecided ==
    ASSUME NEW st \in Seq(StackElement), SnapshotsDecided(st), NEW e \in StackElement,
           SnapshotDecided(e)
    PROVE  SnapshotsDecided(Append(st, e))
<1> DEFINE n == Len(st)
<1>1. /\ n \in Nat /\ DOMAIN st = 1..n /\ Append(st, e)[n + 1] = e
      /\ \A i \in 1..n : Append(st, e)[i] = st[i]
      /\ DOMAIN Append(st, e) = 1..(n + 1)
  BY AppendProperties, LenProperties
<1>2. \A i \in 1..(n + 1) : i \in 1..n \/ i = n + 1
  <2> HIDE DEF n
  <2> QED BY <1>1
<1> QED BY <1>1, <1>2 DEF SnapshotsDecided

\* The snapshots of the other elements are those they were.
LEMMA DroppedDecided ==
    ASSUME NEW st \in Seq(StackElement), st # <<>>, SnapshotsDecided(st)
    PROVE  SnapshotsDecided(Front(st))
<1> DEFINE n == Len(st)
<1>1. /\ n \in Nat \ {0} /\ DOMAIN st = 1..n
      /\ Front(st) \in Seq(StackElement) /\ Len(Front(st)) = n - 1
      /\ \A i \in 1..(n - 1) : Front(st)[i] = st[i]
  BY FrontLastType, LenProperties
<1>2. DOMAIN Front(st) = 1..(n - 1)
  BY <1>1, LenProperties
<1>3. \A i \in 1..(n - 1) : i \in 1..n
  <2> HIDE DEF n
  <2> QED BY <1>1
<1> QED BY <1>1, <1>2, <1>3 DEF SnapshotsDecided

\* A new snapshot of the same phase is narrower than the one below it.
LEMMA GuessDecided ==
    ASSUME NEW st \in Seq(StackElement), st # <<>>, SnapshotsDecided(st), NEW g \in Guess,
           NEW c \in Characteristic, Below(c, Last(st).characteristic)
    PROVE  SnapshotsDecided(WithGuess(st, c, g))
<1> DEFINE gs    == Append(Last(st).guesses, g)
           added == [st EXCEPT ![Len(st)].guesses = gs]
           e     == Element(c, Last(added).phase)
<1>1. /\ Last(st) = st[Len(st)] /\ Last(st) \in StackElement /\ Len(st) \in DOMAIN st
      /\ gs \in Seq(Guess)
  BY TopType, AppendProperties DEF Last
<1>2. added = [st EXCEPT ![Len(st)].guesses = Append(@, g)]
  BY <1>1
<1>3. SnapshotsDecided(added) /\ added \in Seq(StackElement) \ {<<>>}
  <2> HIDE DEF gs
  <2> QED BY <1>1, ExchangedDecided, TopGuessesType
<1>4. Last(added).phase = Last(st).phase
  <2>1. Len(added) = Len(st)
    BY <1>1, <1>3, LenProperties
  <2>2. added[Len(st)].phase = st[Len(st)].phase
    BY <1>1 DEF StackElement
  <2> HIDE DEF added
  <2> QED BY <1>1, <2>1, <2>2 DEF Last
<1>5. e \in StackElement
  BY <1>1, <1>4, EmptySeq DEF Element, StackElement
<1>6. SnapshotDecided(e)
  <2>1. e.phase = Last(st).phase /\ e.characteristic = c
    BY <1>4 DEF Element
  <2>2. SnapshotDecided(Last(st))
    BY <1>1 DEF SnapshotsDecided
  <2>3. \A p : Decides(p) \subseteq Bit
    BY DEF Decides
  <2> HIDE DEF e
  <2> QED BY <2>1, <2>2, <2>3 DEF SnapshotDecided, Below, IsOpen
<1> HIDE DEF added, gs
<1>7. SnapshotsDecided(Append(added, e))
  <2> HIDE DEF e
  <2> QED BY <1>3, <1>5, <1>6, AppendedDecided
<1> QED BY <1>2, <1>3, <1>7 DEF WithGuess

\* The guesses of an element narrow its characteristic.
LEMMA ReplayBelow ==
    ASSUME NEW el \in StackElement, GuessesFit(el)
    PROVE  Below(Replay(el), el.characteristic)
BY ReplayNarrows DEF Below

\* What the earlier phases decided is decided in the characteristic.
LEMMA EarlierDecided ==
    ASSUME Inv, StackInv, op = "idle", SnapshotsDecided(stack),
           \A b \in Decides(phase) : ~ IsOpen(char[b])
    PROVE  \A p \in 1..phase : \A b \in Decides(p) : ~ IsOpen(char[b])
<1>1. /\ Below(char, Replay(Top)) /\ Top \in StackElement /\ GuessesFit(Top)
      /\ Top.phase = phase /\ phase \in Nat
      /\ SnapshotDecided(Top)
  BY TopFacts, PhaseNumbers
  DEF StackInv, OpInv, CharInv, SnapshotsDecided
<1>2. Below(char, Top.characteristic)
  BY <1>1, ReplayBelow DEF Below
<1>3. \A p \in 1..phase : p = phase \/ p \in 1..(phase - 1)
  BY <1>1
<1> QED BY <1>1, <1>2, <1>3 DEF SnapshotDecided, Below, IsOpen, Decides

\* A way back leaves the snapshots decided.
LEMMA UnwindDecides ==
    ASSUME Inv, StackInv, StackStep, SnapshotsDecided(stack)
    PROVE  SnapshotsDecided(stack')
<1>1. /\ stack \in Seq(StackElement) /\ stack # <<>> /\ Consistent(stack)
      /\ Top \in StackElement /\ GuessesFit(Top)
  BY TopFacts
<1>2. CASE ReturnSnapshot
  BY <1>2 DEF ReturnSnapshot
<1>3. CASE PopElement \/ DropElement
  BY <1>1, <1>3, DroppedDecided DEF PopElement, DropElement
<1>4. SnapshotsDecided(WithoutGuess(stack))
  BY <1>1, ExchangedDecided DEF WithoutGuess
<1>5. CASE PopGuess
  BY <1>4, <1>5 DEF PopGuess
<1>6. CASE TakeOtherChoice
  <2> DEFINE g == Last(Top.guesses)
             taken == [pos |-> g.pos, first |-> g.second, second |-> Contradiction]
             less == WithoutGuess(stack)
             r == Replay(Last(less))
             c == OtherChoice
  <2>1. /\ Top.guesses # <<>> /\ c = Choose(r, g.pos, g.second)
        /\ stack' = less \/ stack' = WithGuess(less, c, taken)
    BY <1>6 DEF TakeOtherChoice, OtherChoice
  <2>2. /\ g \in Guess /\ g.pos \in Bit /\ taken \in Guess
        /\ g.second \subseteq Replay(Prefix(Top, Len(Top.guesses) - 1))[g.pos]
    BY <1>1, <2>1, LastGuessFits DEF Guess, Contradiction, Condition
  <2>3. /\ less \in Seq(StackElement) /\ less # <<>> /\ Consistent(less)
        /\ Last(less) = Prefix(Top, Len(Top.guesses) - 1)
    BY <1>1, <2>1, DropGuess DEF Top
  <2>4. r \in Characteristic /\ g.second \subseteq r[g.pos]
    BY <2>2, <2>3, TopType, ReplayType
  <2>5. c \in Characteristic /\ Below(c, r)
    BY <2>1, <2>2, <2>4, ChooseNarrows
  <2>6. Below(r, Last(less).characteristic)
    BY <2>3, TopType, ReplayBelow DEF Consistent, Last
  <2>7. Below(c, Last(less).characteristic)
    BY <2>5, <2>6 DEF Below
  <2> HIDE DEF taken, less, c
  <2>8. SnapshotsDecided(WithGuess(less, c, taken))
    BY <1>4, <2>2, <2>3, <2>5, <2>7, GuessDecided DEF less
  <2> QED BY <1>4, <2>1, <2>8 DEF less
<1>7. CASE Jump
  <2>1. PICK gs : stack' = [stack EXCEPT ![Len(stack)].guesses = gs]
    BY <1>7 DEF Jump
  <2> QED BY <1>1, <2>1, ExchangedDecided
<1> QED BY <1>2, <1>3, <1>5, <1>6, <1>7 DEF StackStep

\* A step that works on neither the stack nor the characteristic, nor ends a phase.
LEMMA QuietDecides ==
    ASSUME DecidedInv, stack' = stack, UNCHANGED <<char, phase>>,
           \/ pc' \notin {"callback", "found", "check", "probe"}
           \/ pc' \in {"check", "probe"} /\ pc \in {"check", "probe"} /\ clean' = clean
           \/ pc' = "callback" /\ pc \in {"check", "probe"} /\ clean
           \/ pc' = "check" /\ ~ clean'
           \/ pc' \in {"callback", "found"} /\ pc = "callback" /\ (pc' = "found" => LastPhase)
    PROVE  DecidedInv'
<1>1. SnapshotsDecided(stack') /\ PhaseDecided
  BY DecidedParts
<1>2. PhaseDecided'
  BY <1>1 DEF PhaseDecided
<1>3. (pc = "found" => LastPhase)'
  BY DEF LastPhase
<1> QED BY <1>1, <1>2, <1>3, DecidedPartsNext

\* A phase ends, or is checked, when there is nothing left to guess.
LEMMA EndDecides ==
    ASSUME Inv, DecidedInv, NothingToGuess, stack' = stack, UNCHANGED <<char, phase>>,
           pc' \in {"check", "callback"}
    PROVE  DecidedInv'
<1>1. SnapshotsDecided(stack')
  BY DecidedParts
<1>2. phase \in PhaseNumber /\ char \in Characteristic
  BY DEF Inv, TypeOK, StackTypeOK, SearchTypeOK
<1>3. \A b \in Decides(phase) : ~ IsOpen(char[b])
  BY <1>2, NothingLeft DEF NothingToGuess
<1>4. PhaseDecided' /\ (pc = "found" => LastPhase)'
  BY <1>3 DEF PhaseDecided
<1> QED BY <1>1, <1>4, DecidedPartsNext

\* A completeness check narrows the characteristic or gives up the phase.
LEMMA ProbeDecides == Inv /\ StackInv /\ DecidedInv /\ Probe => DecidedInv'
<1> SUFFICES ASSUME Inv, StackInv, DecidedInv, Probe PROVE DecidedInv'
  OBVIOUS
<1>1. PICK b \in todo : ProbeBit(b)
  BY DEF Probe
<1>2. /\ b \in Bit /\ char \in Characteristic /\ stack' = stack /\ phase' = phase
      /\ pc = "probe" /\ char[b] \in Condition
  BY CharacteristicType DEF Inv, TypeOK, StackTypeOK, CheckTypeOK, Probe, searchVars
<1>3. CASE pc' = "backtrack" /\ char' = char
  BY <1>2, <1>3, QuietDecides
<1>4. CASE char' = char /\ pc' = pc /\ clean' = clean
  BY <1>2, <1>4, QuietDecides
<1>5. CASE /\ \E i \in {1, 2} : char' = Choose(char, b, CHOICES(char[b])[i])
           /\ pc' = pc /\ clean' = clean
  <2>1. PICK i \in {1, 2} : char' = Choose(char, b, CHOICES(char[b])[i])
    BY <1>5
  <2>2. Below(char', char)
    BY <1>2, <2>1, ChoicesNarrow, ChooseNarrows
  <2>3. SnapshotsDecided(stack') /\ PhaseDecided
    BY <1>2, DecidedParts
  <2>4. \A x \in Decides(phase) : IsOpen(char'[x]) => IsOpen(char[x])
    BY <2>2 DEF Decides, Below, IsOpen
  <2>5. PhaseDecided' /\ (pc = "found" => LastPhase)'
    BY <1>2, <1>5, <2>3, <2>4 DEF PhaseDecided
  <2> QED BY <2>3, <2>5, DecidedPartsNext
<1> QED BY <1>1, <1>3, <1>4, <1>5 DEF ProbeBit

\* All that was decided before is decided in the snapshot a new phase starts from.
LEMMA NextPhaseDecides == Inv /\ StackInv /\ DecidedInv /\ NextPhase => DecidedInv'
<1> SUFFICES ASSUME Inv, StackInv, DecidedInv, NextPhase PROVE DecidedInv'
  OBVIOUS
<1> DEFINE e == Element(char, phase + 1)
<1>1. /\ stack' = Append(stack, e) /\ pc = "callback" /\ pc' = "loop" /\ op = "idle"
  BY DEF NextPhase, WithPhase, StackInv, OpInv
<1>2. /\ phase + 1 \in PhaseNumber /\ phase \in Nat /\ char \in Characteristic
      /\ stack \in Seq(StackElement)
  BY PhaseInv, PhaseNumbers DEF NextPhase, Inv, TypeOK, StackTypeOK, SearchTypeOK
<1>3. e \in StackElement
  BY <1>2, EmptySeq DEF Element, StackElement
<1>4. SnapshotsDecided(stack) /\ PhaseDecided
  BY DecidedParts
<1>5. \A p \in 1..phase : \A b \in Decides(p) : ~ IsOpen(char[b])
  BY <1>1, <1>4, EarlierDecided DEF PhaseDecided
<1>6. SnapshotDecided(e)
  <2>1. e.phase = phase + 1 /\ e.characteristic = char /\ (phase + 1) - 1 = phase
    BY <1>2 DEF Element
  <2> QED BY <1>5, <2>1 DEF SnapshotDecided
<1> HIDE DEF e
<1>7. SnapshotsDecided(stack')
  BY <1>1, <1>2, <1>3, <1>4, <1>6, AppendedDecided
<1>8. PhaseDecided' /\ (pc = "found" => LastPhase)'
  BY <1>1 DEF PhaseDecided
<1> QED BY <1>7, <1>8, DecidedPartsNext

\* A guess does not open what is decided: it narrows the characteristic.
LEMMA GuessBitDecides == Inv /\ StackInv /\ DecidedInv /\ GuessBit => DecidedInv'
<1> SUFFICES ASSUME Inv, StackInv, DecidedInv, GuessBit PROVE DecidedInv'
  OBVIOUS
<1>1. PICK g \in task.guesses, i \in {1, 2} :
        \/ /\ Push(Choose(char, task.pos, CHOICES(g[1])[i]), task.pos, CHOICES(g[1])[i],
                   Remembered(g[2], CHOICES(g[1])[3 - i]))
           /\ g[1] = char[task.pos] /\ pc' = pc
        \/ /\ Push(Choose(char, task.pos, CHOICES(g[1])[3 - i]), task.pos, CHOICES(g[1])[3 - i],
                   Contradiction)
           /\ g[1] = char[task.pos] /\ pc' = pc
        \/ pc' = "backtrack" /\ UNCHANGED stack
  BY DEF GuessBit, FirstIndex
<1>2. pc = "guess" /\ op = "idle"
  BY DEF GuessBit, StackInv, OpInv
<1>3. SnapshotsDecided(stack)
  BY DecidedParts
<1>4. ASSUME NEW k \in {1, 2}, NEW x \in Condition,
             Push(Choose(char, task.pos, CHOICES(char[task.pos])[k]), task.pos,
                  CHOICES(char[task.pos])[k], x),
             x \subseteq char[task.pos]
      PROVE  SnapshotsDecided(stack')
  <2> DEFINE b == task.pos
             y == CHOICES(char[b])[k]
             c == Choose(char, b, y)
             added == [pos |-> b, first |-> y, second |-> x]
  <2>1. /\ char \in Characteristic /\ Below(char, Replay(Top)) /\ b \in Bit
        /\ stack \in Seq(StackElement) /\ stack # <<>> /\ Consistent(stack)
        /\ Top \in StackElement /\ GuessesFit(Top)
    BY <1>2, TopFacts DEF StackInv, CharInv, Inv, TypeOK, SearchTypeOK
  <2>2. char[b] \in Condition /\ char[b] \subseteq Start[b]
    BY <2>1, CharacteristicType
  <2>3. y \subseteq char[b] /\ y \in Condition
    BY <2>2, ChoicesNarrow
  <2>4. c \in Characteristic /\ Below(c, char)
    BY <2>1, <2>3, ChooseNarrows
  <2>5. added \in Guess /\ stack' = WithGuess(stack, c, added)
    BY <1>4, <2>1, <2>2, <2>3 DEF Guess, Push
  <2>6. Below(c, Top.characteristic)
    BY <2>1, <2>4, ReplayBelow DEF Below
  <2> HIDE DEF c, added
  <2> QED BY <1>3, <2>1, <2>4, <2>5, <2>6, GuessDecided DEF Top
<1>5. CASE pc' = pc
  <2>1. char[task.pos] \in Condition
    BY CharacteristicType DEF Inv, TypeOK, StackTypeOK, SearchTypeOK
  <2>2. /\ CHOICES(char[task.pos])[3 - i] \subseteq char[task.pos]
        /\ Remembered(g[2], CHOICES(char[task.pos])[3 - i]) \subseteq char[task.pos]
        /\ 3 - i \in {1, 2}
    <3>1. 3 - i \in {1, 2}
      OBVIOUS
    <3> QED BY <2>1, <3>1, ChoicesNarrow DEF Remembered, Contradiction
  <2>3. /\ Remembered(g[2], CHOICES(char[task.pos])[3 - i]) \in Condition
        /\ Contradiction \in Condition /\ Contradiction \subseteq char[task.pos]
    BY <2>1, <2>2 DEF Condition, Contradiction
  <2>4. SnapshotsDecided(stack')
    BY <1>1, <1>2, <1>4, <1>5, <2>2, <2>3
  <2>5. PhaseDecided' /\ (pc = "found" => LastPhase)'
    BY <1>2, <1>5 DEF PhaseDecided
  <2> QED BY <2>4, <2>5, DecidedPartsNext
<1>6. CASE pc' = "backtrack" /\ UNCHANGED stack
  <2>1. PhaseDecided' /\ (pc = "found" => LastPhase)'
    BY <1>6 DEF PhaseDecided
  <2> QED BY <1>3, <1>6, <2>1, DecidedPartsNext
<1> QED BY <1>1, <1>5, <1>6

\* Every step keeps what is decided.
LEMMA NextDecides == Inv /\ StackInv /\ DecidedInv /\ [Next]_vars => DecidedInv'
<1> SUFFICES ASSUME Inv, StackInv, DecidedInv, [Next]_vars PROVE DecidedInv'
  OBVIOUS
<1> USE DEF stackVars, searchVars, taskVars, checkVars
<1>1. CASE UNCHANGED vars
  BY <1>1 DEF vars, DecidedInv, LastPhase
<1>2. CASE Stop \/ PickCritical \/ PickBit \/ GuessDone \/ AbortBackTrack \/ BackTrack \/ Reject
  BY <1>2, QuietDecides
  DEF Stop, PickCritical, PickBit, GuessDone, AbortBackTrack, BackTrack, Reject
<1>3. CASE Check \/ ProbesDone
  BY <1>3, QuietDecides DEF Check, ProbesDone, EndCheck, CheckPassed, CheckFailed
<1>4. CASE BeginCheck \/ NoCheck
  BY <1>4, EndDecides DEF BeginCheck, NoCheck
<1>5. CASE Found \/ (AfterFound /\ EndFound)
  BY <1>5, QuietDecides DEF Found, AfterFound
<1>6. CASE OutOfCredits \/ TooManyChecks \/ (AfterFound /\ ~ EndFound)
  <2>1. stack' = <<Element(Start, 1)>> /\ pc' = "loop"
    BY <1>6 DEF OutOfCredits, TooManyChecks, AfterFound, RestartSearch
  <2> QED BY <2>1 DEF DecidedInv, Element
<1>7. CASE Unwind
  <2>1. SnapshotsDecided(stack') /\ pc' = "unwind"
    BY <1>7, UnwindDecides, DecidedParts DEF Unwind
  <2> QED BY <2>1, DecidedPartsNext DEF PhaseDecided
<1>8. CASE Settle
  <2>1. /\ stack' = stack /\ clean' = clean /\ pc = "unwind"
        /\ pc' = IF caller = "complete" THEN "check" ELSE "loop"
    BY <1>8 DEF Settle
  <2>2. caller = "complete" => ~ clean
    BY <2>1 DEF Inv, CreditsInv
  <2>3. SnapshotsDecided(stack') /\ PhaseDecided' /\ (pc = "found" => LastPhase)'
    BY <2>1, <2>2, DecidedParts DEF PhaseDecided
  <2> QED BY <2>3, DecidedPartsNext
<1> QED BY <1>1, <1>2, <1>3, <1>4, <1>5, <1>6, <1>7, <1>8, ProbeDecides, NextPhaseDecides,
           GuessBitDecides DEF Next

(***************************************************************************)
(* The bits that a phase guesses down to one pair are decided when it ends *)
(* and in every snapshot of a later phase, so that going back to one, and  *)
(* through it to an earlier phase, does not open them behind the search.   *)
(***************************************************************************)
THEOREM DecidedInvariance == Spec => []DecidedInv
<1>1. Init => DecidedInv
  BY DEF Init, DecidedInv, Element
<1>2. Inv /\ StackInv /\ DecidedInv /\ [Next]_vars => DecidedInv'
  BY NextDecides
<1> QED BY <1>1, <1>2, StackInvariance, PTL DEF Spec

(***************************************************************************)
(* If the phases together guess every bit down to one pair, what a search  *)
(* finds is itself one of the solutions, and leaves nothing to guess in    *)
(* any phase, whatever phases it left and entered again.                   *)
(***************************************************************************)
THEOREM WhatIsFoundIsDone ==
    ASSUME AllDecided
    PROVE  Spec => []FoundIsDone
<1>1. Inv /\ StackInv /\ DecidedInv => FoundIsDone
  <2> SUFFICES ASSUME Inv, StackInv, DecidedInv, pc = "found"
               PROVE  /\ \E s \in Solution : Below(s, char)
                      /\ \A p \in PhaseNumber : ~ Guessable(p, char)
    BY DEF FoundIsDone
  <2>1. op = "idle" /\ char \in Characteristic /\ phase = Len(Phases)
    BY TopFacts DEF StackInv, OpInv, DecidedInv, LastPhase
  <2>2. \A p \in 1..phase : \A b \in Decides(p) : ~ IsOpen(char[b])
    BY <2>1, EarlierDecided, DecidedParts DEF PhaseDecided
  <2>3. \A b \in Bit : ~ IsOpen(char[b])
    BY <2>1, <2>2, PhaseNumbers DEF AllDecided
  <2>4. ~ Contradictory(Update(char))
    BY <2>1 DEF StackInv, CharInv, Usable
  <2>5. char \in Solution /\ Below(char, char)
    BY <2>1, <2>3, <2>4, DecidedIsSolution, BelowIsOrder
  <2>6. ASSUME NEW p \in PhaseNumber, Guessable(p, char) PROVE FALSE
    <3>1. PICK s \in Phases[p].settings : SearchMask(s, char) # {}
      BY <2>6 DEF Guessable
    <3>2. PICK b \in s.mask : \E g \in SettingGuesses(s) : g[1] = char[b]
      BY <3>1 DEF SearchMask
    <3> QED BY <2>3, <3>2, SettingOpen, SettingType
  <2> QED BY <2>5, <2>6
<1> QED BY DecidedInvariance, StackInvariance, <1>1, PTL

(***************************************************************************)
(* The inductive invariant of the search as a whole.                       *)
(***************************************************************************)
THEOREM SearchInvariance == Spec => []SearchInv
BY StackInvariance, SolutionInvariance, DecidedInvariance, PTL DEF SearchInv

=============================================================================
