------------------------------- MODULE Cryptos -------------------------------
(***************************************************************************)
(* How a crypto is put together (crypto.h): words of conditions            *)
(* (condition_word.h, horizontal_condition_word.h), each a proxy for every *)
(* bit, and steps (step.h, bitslice_step.h, carry_step.h) that apply a     *)
(* function to words, one bit position of them after the other.            *)
(*                                                                         *)
(* A crypto is a record of the size of its words, the words in the order   *)
(* in which they were added, how many words of containers of 1, 2 and 3    *)
(* bits it has, and its steps.                                             *)
(***************************************************************************)
EXTENDS ConditionProxies, Bitslices

Crypto(wordSize) ==
    [size |-> wordSize, words |-> <<>>, num |-> <<0, 0, 0>>, steps |-> <<>>]

\* The bits of a word.
Indices(word) == DOMAIN word.proxies

\* Bits of words are counted from 0.
At(i, size) == (i + size) % size

-----------------------------------------------------------------------------
(* Words *)

\* The same function, but TLC evaluates it here and not whenever it is applied.
Evaluated(f) == f @@ <<>>

Word(name, step, type, bits, proxies) ==
    [name |-> name, step |-> step, type |-> type, bits |-> bits,
     proxies |-> Evaluated(proxies)]

\* The one pair of equal values v of n bits.
Fixed(n, v) == {v * 2 ^ n + v}

\* A constant, given as the function from the bits of a word to their values.
ConstantWord(constant) ==
    Word("", -1, "CONSTANTWORD", 1,
         [i \in DOMAIN constant |-> Konstant(1, Fixed(1, constant[i]))])

Zero(word) == Konstant(word.bits, Fixed(word.bits, 0))

\* A slip: the other way round.
Rotr_Left(word, r) ==
    [word EXCEPT !.proxies =
        [i \in DOMAIN @ |-> @[At(i - r, Cardinality(DOMAIN @))]]]

Rotr(word, r) ==
    [word EXCEPT !.proxies =
        [i \in DOMAIN @ |-> @[At(i + r, Cardinality(DOMAIN @))]]]

Rotl(word, r) == Rotr(word, -r)

\* A slip: the bits that are shifted out come in again.
Shl_Around(word, s) == Rotl(word, s)

\* Towards the higher bits, and towards the lower ones if s is negative.
Shl(word, s) ==
    [word EXCEPT !.proxies =
        [i \in DOMAIN @ |-> IF i - s \in DOMAIN @ THEN @[i - s] ELSE Zero(word)]]

Shr(word, s) == Shl(word, -s)

\* Bits start, ..., start + num - 1 of one proxy are zero, the others what they were.
SetZero(word, bit, num, start) ==
    LET rest == word.bits - num
        next == (start + num) % word.bits
    IN  [word EXCEPT !.proxies[bit] =
            Virtual(word.bits,
                    <<Link(num, start, Konstant(num, Fixed(num, 0)), 0)>> \o
                    (IF rest > 0 THEN <<Link(rest, next, @, next)>> ELSE <<>>))]

-----------------------------------------------------------------------------
(* Adding words and steps *)

\* The words of a crypto have one bit for each of these.
WordBits(c) == 0..(c.size - 1)

Counted(c, bits) == [c EXCEPT !.num[bits] = @ + 1]

AddWord(c, word) == [c EXCEPT !.words = Append(@, word)]

\* A word with containers of its own.  Bit i of a horizontal word stands for the bits i and
\* i + 1, which references to it read from the neighbours too.
AddConditionWord(c, name, step, type, bits) ==
    LET num       == IF type = "HORIZONTALWORD" THEN 2 ELSE bits
        Pos(i)    == <<num, c.num[num], i>>
        Bare(i)   == Container(num, <<Len(c.words), i>>, Pos(i), <<>>)
        Around(i) == <<Link(1, 0, Bare(At(i - 1, c.size)), 1),
                       Link(1, 1, Bare(At(i + 1, c.size)), 0)>>
        proxies   == [i \in WordBits(c) |->
                         IF type = "HORIZONTALWORD"
                         THEN [Bare(i) EXCEPT !.links = Around(i)] ELSE Bare(i)]
    IN  AddWord(Counted(c, num), Word(name, step, type, num, proxies))

\* A word that has num bits of another one, from start on.
AddReferenceToConditionWord(c, sw, name, step, type, num, start) ==
    LET Own(p)     == IF p.kind \in {"Container", "Konstant"}
                      THEN <<Link(num, 0, IF p.kind = "Container"
                                          THEN [p EXCEPT !.links = <<>>] ELSE p, start)>>
                      ELSE <<>>
        Refer(p, i) == MaskProxy(num, <<Len(c.words), i>>,
                                 LinksOf(p, num, start) \o Own(p))
    IN  AddWord(c, Word(name, step, type, num,
                        [i \in Indices(sw) |-> Refer(sw.proxies[i], i)]))

\* BitsliceStep<F> on the first size bits of its parameters.
AddBitsliceStep(c, F, size, params) ==
    LET proxies == [i \in DOMAIN params |-> Evaluated(params[i].proxies)]
    IN  [c EXCEPT !.steps = Append(@, [f |-> F, size |-> size, params |-> Evaluated(proxies)])]

\* CarryStep<F>: the carries become a word of their own, which enters one bit higher.
AddCarryStep(c, F, size, params) ==
    LET result  == Last(params)
        carried == AddConditionWord(c, "C" \o result.name, result.step, "CARRYWORD", 3)
        carry   == Last(carried.words)
    IN  AddBitsliceStep(carried, F, size,
                        Front(params) \o <<Shl(carry, 1), result, carry>>)

\* The first word that was added under this name.
GetConditionWordIndex(c, name, step) ==
    CHOOSE k \in DOMAIN c.words :
        /\ c.words[k].name = name /\ c.words[k].step = step
        /\ \A j \in 1..(k - 1) : c.words[j].name # name \/ c.words[j].step # step

GetConditionWord(c, name, step) == c.words[GetConditionWordIndex(c, name, step)]

GetConditionProxy(c, pos) == c.words[pos[1] + 1].proxies[pos[2]]

\* The positions of all containers.
ContainerPositions(c) ==
    UNION {{<<n, k, i>> : k \in 0..(c.num[n] - 1), i \in WordBits(c)} : n \in 1..3}

\* Nothing is known of them.
Anything(c) ==
    [n \in 1..3 |-> [k \in 1..c.num[n] |-> [i \in WordBits(c) |-> AllOf(n)]]]

-----------------------------------------------------------------------------
(* One slice of a step *)

\* What a condition says of the pairs of an input or output: the bits behind are cut off.
SliceInput(step, s, bit) ==
    [i \in Positions(step.f) |->
        {PairAt(step.f, i, x) : x \in {y \in GetCondition(s, step.params[i][bit]) :
                                          y < 4 ^ step.f.bitsize[i]}}]

Combinations(F, input) ==
    FoldLeft(LAMBDA xs, i : {Append(x, p) : x \in xs, p \in input[i]}, {<<>>},
             [i \in 1..F.inputs |-> i])

Collect(F, input) ==
    {val \in {x \o Componentwise(F, x) : x \in Combinations(F, input)} :
        IsPair(F, input, val)}

\* A slip: what is known of the outputs says nothing of the inputs.
Compute_Outputs(F, input) ==
    LET collected == Collect(F, input)
    IN  [i \in Positions(F) |-> IF i <= F.inputs THEN input[i] ELSE {val[i] : val \in collected}]

\* The pairs of each position that are part of some solution.
Compute(F, input) ==
    LET collected == Collect(F, input)
    IN  [i \in Positions(F) |-> {val[i] : val \in collected}]

\* BitsliceStep::Update: all conditions are set, even when one of them is impossible.
UpdateSlice(touches, step, s, bit) ==
    LET output == Compute(step.f, SliceInput(step, s, bit))
        Set(r, i) ==
            LET new == SetCondition(touches, r.ch, step.params[i][bit],
                                    {PairIndex(step.f, i, p) : p \in output[i]})
            IN  [ch |-> new.ch, ok |-> r.ok /\ new.ok]
    IN  FoldLeft(Set, [ch |-> s, ok |-> TRUE], [i \in Positions(step.f) |-> i])

-----------------------------------------------------------------------------
(* Which slices a container has to wake *)

\* Step::Priority {1, 0}: how many pairs of inputs there are.
LoopSize(F) == MapThenSumSet(LAMBDA i : 4 ^ F.bitsize[i], 1..F.inputs)

\* Step::Init: every slice enters itself with the containers of its parameters.
StepsToUpdate(c) ==
    [pos \in ContainerPositions(c) |->
        UNION {{<<LoopSize(c.steps[k].f), k - 1, bit>> :
                   bit \in {b \in 0..(c.steps[k].size - 1) :
                               \E p \in ToSet(c.steps[k].params) : pos \in Containers(p[b])}} :
                  k \in DOMAIN c.steps}]

=============================================================================
