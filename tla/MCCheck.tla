------------------------------- MODULE MCCheck -------------------------------
(***************************************************************************)
(* Small cryptos and characteristics for the check.  Words have two bits,  *)
(* horizontal ones three, so that a slice has a neighbour, a carry and a   *)
(* rotation somewhere to go.                                               *)
(***************************************************************************)
EXTENDS CheckProperties

Unknown == 0..3
Dash == {0, 3}
Cross == {1, 2}
Up == {1}
One == {3}

\* Values of words: functions from bits to 0 and 1.
Value(x) == x[0] + 2 * x[1]
Sum2(x, y) == [b \in 0..1 |-> ((Value(x) + Value(y)) \div 2 ^ b) % 2]
Xor(x, y) == [b \in DOMAIN x |-> (x[b] + y[b]) % 2]
Turned(x) == [b \in DOMAIN x |-> x[(b + 1) % Cardinality(DOMAIN x)]]

\* A sequence of words for each message as a function from <<word, bit>> to pairs.
Message(words, first, second) ==
    [pos \in {<<words[k], b>> : k \in DOMAIN words, b \in DOMAIN first[1]} |->
        LET k == CHOOSE j \in DOMAIN words : words[j] = pos[1]
        IN  2 * second[k][pos[2]] + first[k][pos[2]]]

MessagesOf(words, size, f(_, _)) ==
    LET V == [0..(size - 1) -> 0..1]
    IN  {Message(words, f(x[1], x[2]), f(x[3], x[4])) : x \in V \X V \X V \X V}

\* The word k is given bit by bit as givens[k].
GivenWords(words, givens) ==
    [pos \in {<<words[k], b>> : k \in DOMAIN words, b \in DOMAIN givens[1]} |->
        givens[CHOOSE k \in DOMAIN words : words[k] = pos[1]][pos[2]]]

Word2(S) == [0..1 -> S]

-----------------------------------------------------------------------------
\* tests/add2.cpp
Add2 ==
    LET a == AddConditionWord(Crypto(2), "A", 0, "MAINWORD", 1)
        b == AddConditionWord(a, "B", 0, "MAINWORD", 1)
        c == AddConditionWord(b, "C", 0, "MAINWORD", 1)
    IN  AddCarryStep(c, ADD(2), 2, [k \in 1..3 |-> c.words[k]])

Add2Messages == MessagesOf(<<0, 1, 2>>, 2, LAMBDA x, y : <<x, y, Sum2(x, y)>>)

Add2Given ==
    {GivenWords(<<0, 1, 2>>, g) :
        g \in {<<a, b, c>> : a \in Word2({Dash, Cross}), b \in Word2({Dash, Unknown}),
                             c \in {[k \in 0..1 |-> Dash], 0 :> One @@ 1 :> Dash}}}

-----------------------------------------------------------------------------
\* A round of two words: D = A xor (B >>> 1), E = A + D.
Round ==
    LET a == AddConditionWord(Crypto(2), "A", 0, "MAINWORD", 1)
        b == AddConditionWord(a, "B", 0, "MAINWORD", 1)
        d == AddConditionWord(b, "D", 0, "SUBWORD", 1)
        e == AddConditionWord(d, "E", 0, "MAINWORD", 1)
        c == AddConditionWord(e, "C", 0, "CARRYWORD", 3)
        w == c.words
        x == AddBitsliceStep(c, XOR(2), 2, <<w[1], Rotr(w[2], 1), w[3]>>)
    IN  AddBitsliceStep(x, ADD(2), 2, <<w[1], w[3], Shl(w[5], 1), w[4], w[5]>>)

RoundMessages ==
    MessagesOf(<<0, 1, 2, 3>>, 2,
               LAMBDA x, y : <<x, y, Xor(x, Turned(y)), Sum2(x, Xor(x, Turned(y)))>>)

RoundGiven ==
    {GivenWords(<<0, 1, 2, 3>>, <<a, b, [k \in 0..1 |-> d], e>>) :
        a \in Word2({Dash, Cross}), b \in Word2({Dash, Cross}), d \in {Unknown, {0}},
        e \in {[k \in 0..1 |-> Unknown], 0 :> Dash @@ 1 :> Up}}

-----------------------------------------------------------------------------
\* Horizontal words and the references to them, as in skein.cpp.
Horizontal ==
    LET a  == AddConditionWord(Crypto(3), "A2", 0, "HORIZONTALWORD", 2)
        a1 == AddReferenceToConditionWord(a, a.words[1], "A", 0, "MAINWORD", 1, 0)
        b  == AddConditionWord(a1, "B2", 0, "HORIZONTALWORD", 2)
        b1 == AddReferenceToConditionWord(b, b.words[3], "B", 0, "MAINWORD", 1, 0)
        c  == AddConditionWord(b1, "C2", 0, "HORIZONTALWORD", 2)
        c1 == AddReferenceToConditionWord(c, c.words[5], "C", 0, "MAINWORD", 1, 0)
    IN  AddBitsliceStep(c1, XORB(2), 2, <<c1.words[1], Rotl(c1.words[3], 1), c1.words[5]>>)

HorizontalMessages ==
    MessagesOf(<<1, 3, 5>>, 3, LAMBDA x, y : <<x, y, Xor(x, Turned(Turned(y)))>>)

HorizontalGiven ==
    {GivenWords(<<1, 3, 5>>, g) :
        g \in {<<a, b, c>> : a \in {(0 :> Dash @@ 1 :> Cross @@ 2 :> Unknown),
                                    (0 :> Cross @@ 1 :> Dash @@ 2 :> Dash)},
                             b \in {(0 :> Dash @@ 1 :> Up @@ 2 :> Cross),
                                    (0 :> Unknown @@ 1 :> Dash @@ 2 :> Cross)},
                             c \in {(0 :> Unknown @@ 1 :> Cross @@ 2 :> Dash),
                                    (0 :> One @@ 1 :> Unknown @@ 2 :> Unknown)}}}

-----------------------------------------------------------------------------
\* Selections and majorities of A and B, some of them with a constant.  With their results
\* given, two of them decide a bit of A and four of them leave no choice for it, although
\* each slice for itself allows both.
Ones == ConstantWord([b \in 0..1 |-> 1])
Zeros == ConstantWord([b \in 0..1 |-> 0])

Selections ==
    LET main(c, n) == AddConditionWord(c, n, 0, "MAINWORD", 1)
        sub(c, n)  == AddConditionWord(c, n, 0, "SUBWORD", 1)
        c == FoldLeft(sub, FoldLeft(main, Crypto(2), <<"A", "B">>), <<"P", "Q", "R", "S">>)
        w == c.words
        p == AddBitsliceStep(c, MAJ, 2, <<w[1], w[2], Ones, w[3]>>)
        q == AddBitsliceStep(p, IFF, 2, <<w[2], w[1], Ones, w[4]>>)
        r == AddBitsliceStep(q, IFF, 2, <<w[1], w[2], Ones, w[5]>>)
    IN  AddBitsliceStep(r, IFF, 2, <<w[1], w[2], Zeros, w[6]>>)

\* The same and a copy of A, so that its bits have a relation.
Copied ==
    LET c == AddConditionWord(Selections, "C", 0, "MAINWORD", 1)
    IN  AddBitsliceStep(c, XOR(2), 2, <<c.words[1], Zeros, c.words[7]>>)

Both(x, y) == [b \in 0..1 |-> x[b] * y[b]]
Not(x) == [b \in 0..1 |-> 1 - x[b]]
Either(x, y) == Not(Both(Not(x), Not(y)))

Selected(x, y) ==
    <<x, y, Either(x, y), Either(x, Not(y)), Either(Not(x), y), Both(x, y)>>

SelectionsMessages == MessagesOf(<<0, 1, 2, 3, 4, 5>>, 2, Selected)
CopiedMessages ==
    MessagesOf(<<0, 1, 2, 3, 4, 5, 6>>, 2, LAMBDA x, y : Append(Selected(x, y), x))

\* Which of the results are given, for the two bits.
Result(K, L) ==
    LET Given(k) == IF k = 4 THEN {0} ELSE One
    IN  [k \in 1..4 |-> (0 :> IF k \in K THEN Given(k) ELSE Unknown) @@
                        (1 :> IF k \in L THEN Given(k) ELSE Unknown)]

Results == {Result(K, L) : K \in {{}, {1, 2}}, L \in SUBSET (1..4)}

SelectionsGiven ==
    {GivenWords(<<0, 1, 2, 3, 4, 5>>, <<[b \in 0..1 |-> Dash], [b \in 0..1 |-> Dash]>> \o x) :
        x \in Results}

CopiedGiven ==
    {GivenWords(<<0, 1, 2, 3, 4, 5, 6>>, <<a, b>> \o x \o <<[k \in 0..1 |-> Unknown]>>) :
        a \in Word2({Dash}), b \in Word2({Dash}), x \in Results}

-----------------------------------------------------------------------------
\* Words by their rows.  Carries have a row of their own, results stand before their operands.
Rows(rows) ==
    FlattenSeq([i \in DOMAIN rows |-> [j \in DOMAIN rows[i] |-> <<i - 1, j - 1, rows[i][j]>>]])

SelectionsRows == Rows(<<<<2, 3>>, <<4, 5>>, <<0, 1>>>>)

SomeRows == ("add2" :> Rows(<<<<0>>, <<1>>, <<2>>>>)) @@
            ("round" :> Rows(<<<<0, 1>>, <<2>>, <<3>>, <<4>>>>)) @@
            ("horizontal" :> Rows(<<<<1, 3>>, <<5>>>>)) @@
            ("copied" :> Rows(<<<<2, 3>>, <<4, 5>>, <<6, 0, 1>>>>))

Some == ("add2" :> Add2) @@ ("round" :> Round) @@ ("horizontal" :> Horizontal) @@
        ("copied" :> Copied)
SomeGiven == ("add2" :> Add2Given) @@ ("round" :> RoundGiven) @@
             ("horizontal" :> HorizontalGiven) @@ ("copied" :> CopiedGiven)
SomeMessages == ("add2" :> Add2Messages) @@ ("round" :> RoundMessages) @@
                ("horizontal" :> HorizontalMessages) @@ ("copied" :> CopiedMessages)

OnlySelections == "selections" :> Selections
LayoutOfSelections == "selections" :> SelectionsRows
GivenToSelections == "selections" :> SelectionsGiven
MessagesOfSelections == "selections" :> SelectionsMessages

=============================================================================
