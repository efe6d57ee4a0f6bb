------------------------- MODULE CharacteristicCheck -------------------------
(***************************************************************************)
(* Reading a characteristic and checking it (main.cpp with --check-char,   *)
(* Characteristic::CheckCharacteristic): the conditions are propagated     *)
(* through the steps until nothing changes (level 1), the relations of two *)
(* bits are collected from the steps (twobit_container.cpp), and for the   *)
(* bits that have one both choices are tried (Complete, level 2).  Level 3 *)
(* completes once more.                                                    *)
(*                                                                         *)
(* The steps are bitslice steps.  Their results are taken from all pairs   *)
(* of inputs at once; that the loop with its caches comes to the same is   *)
(* the business of ResultCaches.                                           *)
(***************************************************************************)
EXTENDS TextFormat, Bitmasks

CONSTANTS
    CryptoOf,     \* the cryptos by their names
    GivenTo,      \* for each name, characteristics: functions from <<word, bit>> to conditions
    LayoutOf,     \* for each name, rows and columns of words: sequences of <<row, column, word>>
    OnlyMain,     \* the names of those of which only the main words are read
    Level         \* the levels of the check that are asked for

ASSUME CheckAssumption ==
    /\ DOMAIN CryptoOf = DOMAIN GivenTo
    /\ DOMAIN CryptoOf = DOMAIN LayoutOf
    /\ OnlyMain \subseteq DOMAIN CryptoOf
    /\ Level \subseteq 0..3

VARIABLES
    name,         \* the name of the crypto
    crypto,       \* its words and steps
    touches,      \* the slices that a change of a container wakes
    matrix,       \* the layout of its words
    level,
    given,        \* the characteristic in the file
    ch,           \* the characteristic: conditions, slices to update, slices with relations
    twobits,      \* the relations of two bits <<first, second, equal or not>>
    mask,         \* the bits that Complete looks at
    todo,         \* those of them it has not looked at since its last change
    pc,
    answer        \* what CheckCharacteristic returned

\* What the program was started with.
fixed == <<name, crypto, touches, matrix, level, given>>
vars == <<fixed, ch, twobits, mask, todo, pc, answer>>

Table == INSTANCE Conditions

\* The pairs of a bit as the table of choices has them.
Letter == [x \in AllOf(1) |-> <<"0", "u", "n", "1">>[x + 1]]

ChoicesOf(c) ==
    LET row == Table!CHOICES({Letter[x] : x \in c})
    IN  [i \in 1..2 |-> {x \in c : Letter[x] \in row[i]}]

\* '-' and 'x'.
DashOrX == {{0, 3}, {1, 2}}

Step(u) == crypto.steps[u[2] + 1]

-----------------------------------------------------------------------------
(* Relations of two bits *)

\* A slip: a bit of a word that was rotated is taken for the one the slice has it at.
ShownAt_Slice(p, bit) == <<p.mask[1], bit>>

\* Where words show the bit of a slice.
ShownAt(p, bit) == p.mask

\* BitsliceStep::UpdateTwobitCondition: the relations of bits that are not fixed and that
\* words show.
TwobitConditions(s, slice) ==
    LET step == Step(<<0, slice[1], slice[2]>>)
        P(i) == step.params[i][slice[2]]
        Pos(t) == {ShownAt(P(t[1][k]), slice[2]) : k \in 1..2}
        Shown  == {t \in PropagateTwobit(step.f, SliceInput(step, s, slice[2])) :
                      \A k \in 1..2 :
                          /\ Cardinality(GetCondition(s, P(t[1][k]))) # 1
                          /\ IsMaskConditionProxy(P(t[1][k]))}
    IN  {<<Pos(t), t[2]>> : t \in Shown}

-----------------------------------------------------------------------------
(* Characteristic *)

\* By priority, then by step, then by bit.
FirstUpdate(updates) ==
    CHOOSE u \in updates : \A v \in updates :
        \/ u[1] < v[1]
        \/ u[1] = v[1] /\ u[2] < v[2]
        \/ u[1] = v[1] /\ u[2] = v[2] /\ u[3] <= v[3]

\* The slice leaves the list after it has been updated, together with what it has put
\* there for itself.
Updated(s, u) ==
    LET r == UpdateSlice(touches, Step(u), s, u[3])
    IN  [r EXCEPT !.ch.updates = @ \ {u}]

RECURSIVE Update(_)
Update(s) ==
    IF s.updates = {} THEN [ch |-> s, ok |-> TRUE]
    ELSE LET r == Updated(s, FirstUpdate(s.updates))
         IN  IF r.ok THEN Update(r.ch) ELSE r

TouchAll(s) ==
    FoldLeft(LAMBDA t, word : FoldFunction(LAMBDA p, x : Touch(touches, x, p),
                                           t, word.proxies),
             s, crypto.words)

SetBitCondition(s, pos, cond) ==
    SetCondition(touches, s, GetConditionProxy(crypto, pos), cond)

BitConditionAt(s, pos) == GetCondition(s, GetConditionProxy(crypto, pos))

GetConditionWordMask(s, word) ==
    IF crypto.words[word + 1].bits # 1 THEN {}
    ELSE {b \in Indices(crypto.words[word + 1]) :
             BitConditionAt(s, <<word, b>>) \in DashOrX}

\* The '-' and 'x' bits of a mask.
GetConditionMask(s, m) ==
    FoldLeft(LAMBDA n, e : ClearBits(n, e.word, e.mask \ GetConditionWordMask(s, e.word)),
             m, m)

-----------------------------------------------------------------------------
(* TwobitContainer *)

GenerateTwobitConditions(s) == UNION {TwobitConditions(s, x) : x \in s.twobit}

\* Slices without a relation are not asked again before they are touched.
WithoutRelations(s) == {x \in s.twobit : TwobitConditions(s, x) = {}}

\* The degree of a bit is kept in eight bits.
TwobitDegree(relations, pos) == Cardinality({t \in relations : pos \in t[1]}) % 256

GetTwobitDegreeMask(relations, th) ==
    FoldSet(LAMBDA pos, m : SetBit(m, pos), EmptyMask,
            {pos \in UNION {t[1] : t \in relations} : TwobitDegree(relations, pos) >= th})

-----------------------------------------------------------------------------
(* The check *)

Fresh == [cond |-> Anything(crypto), updates |-> {}, twobit |-> {}]

Init ==
    /\ name \in DOMAIN CryptoOf
    /\ crypto = CryptoOf[name]
    /\ touches = StepsToUpdate(crypto)
    /\ matrix = Matrix(LayoutOf[name])
    /\ level \in Level
    /\ given \in GivenTo[name]
    /\ ch = Fresh
    /\ twobits = {}
    /\ mask = EmptyMask
    /\ todo = EmptyMask
    /\ pc = "read"
    /\ answer = "none"

Return(a) == pc' = "done" /\ answer' = a

\* The file has a line for every word that is read; nobody asks whether it has.
GivenText ==
    LET words == WordsToRead(crypto, matrix, name \in OnlyMain)
    IN  [k \in DOMAIN words |->
           InText(crypto, [b \in WordBits(crypto) |-> given[<<words[k], b>>]])]

Read ==
    /\ pc = "read"
    /\ ch' = ReadCharacteristic(touches, crypto, matrix, name \in OnlyMain, ch, GivenText).ch
    /\ IF level = 0 THEN Return("0") ELSE pc' = "update" /\ UNCHANGED answer
    /\ UNCHANGED <<fixed, twobits, mask, todo>>

UpdateAll ==
    /\ pc = "update"
    /\ LET r == Update(TouchAll(ch))
       IN  /\ ch' = r.ch
           /\ IF ~r.ok THEN Return("1")
              ELSE IF level = 1 THEN Return("0")
              ELSE pc' = "relations" /\ UNCHANGED answer
    /\ UNCHANGED <<fixed, twobits, mask, todo>>

\* The relations, once before and once behind each Complete.
Relations ==
    /\ twobits' = GenerateTwobitConditions(ch)
    /\ ch' = [ch EXCEPT !.twobit = @ \ WithoutRelations(ch)]

StartComplete ==
    /\ pc = "relations"
    /\ Relations
    /\ mask' = GetTwobitDegreeMask(twobits', 1)
    /\ todo' = GetConditionMask(ch, mask')
    /\ pc' = "level2"
    /\ UNCHANGED <<fixed, answer>>

Completing == pc \in {"level2", "level3"}

\* What comes of a choice, in a copy of the characteristic.
Trial(pos, i) ==
    Update(SetBitCondition(ch, pos,
                                   ChoicesOf(BitConditionAt(ch, pos))[i]).ch)

\* A slip: the bits that a trial has fixed are not taken from the list.
LeftAfter_All(r1, r2, bits) == bits

\* The bits that neither trial has fixed; the trials themselves may have failed.
LeftAfter(r1, r2, bits) ==
    GetConditionMask(r2.ch, GetConditionMask(r1.ch, bits))

\* A slip: it ends when a choice has failed.
Again_Never(s) == EmptyMask

Again(s) == GetConditionMask(s, mask)

\* Both choices of a bit; one that fails is excluded, and all bits have to be looked at
\* again.
CompleteBit ==
    /\ Completing /\ todo # EmptyMask
    /\ \E r1 \in {Trial(First(todo), 1)}, r2 \in {Trial(First(todo), 2)} :
          \/ /\ r1.ok /\ r2.ok
             /\ todo' = LeftAfter(r1, r2, todo)
             /\ UNCHANGED <<ch, pc, answer>>
          \/ /\ ~r1.ok /\ ~r2.ok
             /\ Return(IF pc = "level2" THEN "2" ELSE "3")
             /\ UNCHANGED <<ch, todo>>
          \/ /\ r1.ok # r2.ok
             /\ ch' = IF r1.ok THEN r1.ch ELSE r2.ch
             /\ todo' = Again(ch')
             /\ UNCHANGED <<pc, answer>>
    /\ UNCHANGED <<fixed, twobits, mask>>

\* Level 3 has nothing to complete: Complete(f) hands on a mask without a bit.
EndComplete ==
    /\ Completing /\ todo = EmptyMask
    /\ Relations
    /\ IF pc = "level2" /\ level = 3
       THEN /\ mask' = EmptyMask
            /\ pc' = "level3"
            /\ UNCHANGED answer
       ELSE Return("0") /\ UNCHANGED mask
    /\ UNCHANGED <<fixed, todo>>

Done == pc = "done" /\ UNCHANGED vars

Next ==
    \/ Read
    \/ UpdateAll
    \/ StartComplete
    \/ CompleteBit
    \/ EndComplete
    \/ Done

Spec == Init /\ [][Next]_vars

=============================================================================
