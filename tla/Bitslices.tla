------------------------------ MODULE Bitslices ------------------------------
(***************************************************************************)
(* The functions of the steps (functions.h) and what Bitslice<F> computes  *)
(* for one bit position of a step (bitslice.h, bitslice_data.h): for given *)
(* conditions of the inputs and outputs of F it goes through all pairs of  *)
(* input values and hands those that fit to an action, which collects      *)
(* narrower conditions (propagate.h), a probability (probability.h), or    *)
(* relations of two bits (propagate_twobit.h).                             *)
(*                                                                         *)
(* A condition is the set of the pairs of values <<first, second>> of one  *)
(* to three bits that are possible.  The inputs of a function stand at the *)
(* positions 1, 2, ..., its outputs behind them.                           *)
(***************************************************************************)
EXTENDS Integers, FiniteSets, SequencesExt

Positions(F) == 1..(F.inputs + F.outputs)

Values(F, i) == 0..(2 ^ F.bitsize[i] - 1)

Pairs(F, i) == Values(F, i) \X Values(F, i)

\* Conditions for all inputs and outputs of a function.
Input(F) == [Positions(F) -> SUBSET UNION {Pairs(F, i) : i \in Positions(F)}]

\* The conditions of a function about which nothing is known.
AnyPair(F) == [i \in Positions(F) |-> Pairs(F, i)]

\* A slip: a bit is taken for two.
PairIndex_Wide(F, i, p) == p[2] * 2 ^ (F.bitsize[i] + 1) + p[1]

\* The bit of a condition that stands for a pair.
PairIndex(F, i, p) == p[2] * 2 ^ F.bitsize[i] + p[1]

\* The pair that a bit of a condition stands for.
PairAt(F, i, x) == <<x % 2 ^ F.bitsize[i], x \div 2 ^ F.bitsize[i]>>

\* A condition as the number in which the code keeps it.
Number(F, i, c) == MapThenSumSet(LAMBDA p : 2 ^ PairIndex(F, i, p), c)

-----------------------------------------------------------------------------
(* Functions *)

Log2[x \in Nat] == IF x < 2 THEN 0 ELSE 1 + Log2[x \div 2]

Sum(x) == FoldLeft(+, 0, x)

Bool(b) == IF b THEN 1 ELSE 0

\* All bits, and no two inputs may be exchanged.
Plain(name, inputs, outputs, f) ==
    [kName |-> name, inputs |-> inputs, outputs |-> outputs,
     symmetry |-> [i \in 1..(inputs + outputs) |-> i],
     bitsize |-> [i \in 1..(inputs + outputs) |-> 1], f |-> f]

Bits(n) == [1..n -> 0..1]

ONX == Plain("ONX", 3, 1, [x \in Bits(3) |-> <<(x[2] + Bool(x[1] = 1 \/ x[3] = 0)) % 2>>])

IFF == Plain("IF", 3, 1, [x \in Bits(3) |-> <<IF x[1] = 1 THEN x[2] ELSE x[3]>>])

MAJ == Plain("MAJ", 3, 1, [x \in Bits(3) |-> <<Bool(Sum(x) >= 2)>>])

\* A table, its index read with the first input as the highest bit.
SBOX(inputs, outputs, lut) ==
    Plain("SBOX<I,O,LUT>", inputs, outputs,
          [x \in Bits(inputs) |->
              LET entry == lut[1 + FoldLeft(LAMBDA n, bit : 2 * n + bit, 0, x)]
              IN  [k \in 1..outputs |-> (entry \div 2 ^ (outputs - k)) % 2]])

\* The inputs of an XOR may be exchanged.
XOR(n) ==
    [Plain("XOR<N>", n, 1, [x \in Bits(n) |-> <<Sum(x) % 2>>])
        EXCEPT !.symmetry = [i \in 1..(n + 1) |-> Bool(i = n + 1)]]

\* The same for two neighbouring bits at once.
XORB(n) ==
    [XOR(n) EXCEPT
        !.kName = "XORB<N>",
        !.bitsize = [i \in 1..(n + 1) |-> 2],
        !.f = [x \in [1..n -> 0..3] |->
                  <<(Sum([k \in 1..n |-> x[k] % 2]) % 2) +
                    2 * (Sum([k \in 1..n |-> x[k] \div 2]) % 2)>>]]

\* The bits of an addition: what F::Symmetry and F::Bitsize are for an adder.
Adder(name, n, outputs, sizes, f) ==
    [kName |-> name, inputs |-> n + 1, outputs |-> outputs,
     symmetry |-> [i \in 1..(n + 1 + outputs) |-> IF i <= n THEN 0 ELSE i],
     bitsize |-> sizes, f |-> f]

CarrySize(n) == Log2[n - 1] + 1

BitsAndCarry(n, bits) ==
    {Append(x, carry) : x \in [1..n -> 0..(2 ^ bits - 1)], carry \in 0..(2 ^ CarrySize(n) - 1)}

\* A full adder: n bits and a carry become a bit and a carry.
ADD(n) ==
    Adder("ADD<N>", n, 2,
          [i \in 1..(n + 3) |-> IF i \in {n + 1, n + 3} THEN CarrySize(n) ELSE 1],
          [x \in BitsAndCarry(n, 1) |-> <<Sum(x) % 2, Sum(x) \div 2>>])

\* The same for two neighbouring bits: the sum, the carry between them, the carry.
ADDB(n) ==
    Adder("ADDB<N>", n, 3,
          [i \in 1..(n + 4) |-> IF i \in {n + 1, n + 3, n + 4} THEN CarrySize(n) ELSE 2],
          [x \in BitsAndCarry(n, 2) |->
              <<Sum(x) % 4,
                Sum([k \in 1..(n + 1) |-> IF k <= n THEN x[k] % 2 ELSE x[k]]) \div 2,
                Sum(x) \div 4>>])

\* A function of pairs works on the first and on the second values (pair.h).
Componentwise(F, x) ==
    LET first  == F.f[[k \in DOMAIN x |-> x[k][1]]]
        second == F.f[[k \in DOMAIN x |-> x[k][2]]]
    IN  [k \in DOMAIN first |-> <<first[k], second[k]>>]

-----------------------------------------------------------------------------
(* All pairs of inputs *)

\* The pairs of an input in the order of its first and then of its second value.
PairList(F, i, c) ==
    LET num == 2 ^ F.bitsize[i]
    IN  SelectSeq([k \in 1..(num * num) |-> <<(k - 1) \div num, (k - 1) % num>>],
                  LAMBDA p : p \in c)

\* The next combination of indices, the first running fastest, or <<>> behind the last.
Increment(index, size) ==
    LET Carry(v, j) ==
            IF v = <<>> \/ v[j] # size[j] + 1 THEN v
            ELSE IF j = Len(size) THEN <<>>
            ELSE [v EXCEPT ![j] = 1, ![j + 1] = @ + 1]
    IN  FoldLeft(Carry, [index EXCEPT ![1] = @ + 1], [j \in 1..Len(size) |-> j])

\* The values of inputs and outputs for the pairs at these indices.
GetPair(F, pairs, index) ==
    LET x == [j \in 1..F.inputs |-> pairs[j][index[j]]] IN x \o Componentwise(F, x)

\* Its outputs are allowed.
IsPair(F, input, val) ==
    \A i \in (F.inputs + 1)..(F.inputs + F.outputs) : val[i] \in input[i]

\* The pairs that Loop goes through: none if some input has none.
Visited(F, input) ==
    LET pairs == [j \in 1..F.inputs |-> PairList(F, j, input[j])]
        size  == [j \in 1..F.inputs |-> Len(pairs[j])]
        Visit[index \in Seq(Nat)] ==
            IF index = <<>> THEN <<>>
            ELSE <<GetPair(F, pairs, index)>> \o Visit[Increment(index, size)]
    IN  IF \E j \in 1..F.inputs : pairs[j] = <<>> THEN <<>>
        ELSE Visit[[j \in 1..F.inputs |-> 1]]

Collected(F, input) == SelectSeq(Visited(F, input), LAMBDA val : IsPair(F, input, val))

-----------------------------------------------------------------------------
(* The actions *)

\* Propagate<F>: the pairs of each position that were collected.
Propagate(F, input) ==
    LET collected == Collected(F, input)
    IN  [i \in Positions(F) |-> {collected[k][i] : k \in DOMAIN collected}]

\* Probability<F>: how many pairs out of how many were collected.
Probability(F, input) == <<Len(Collected(F, input)), Len(Visited(F, input))>>

\* The pairs <<a, b>> of positions that PropagateTwobit<F> looks at.
TwobitPositions(F, input) ==
    {x \in Positions(F) \X Positions(F) :
        /\ x[2] < x[1]
        /\ Cardinality(input[x[1]]) # 1 /\ Cardinality(input[x[2]]) # 1
        /\ F.bitsize[x[1]] = 1 /\ F.bitsize[x[2]] = 1 => input[x[1]] = input[x[2]]}

\* A pair of values of several bits becomes a pair of bits: both lowest bits, if they
\* are the same, or which value is larger.
Lowest(F, i, p) ==
    IF F.bitsize[i] = 1 THEN p
    ELSE IF p[1] % 2 = p[2] % 2 THEN <<p[1] % 2, p[2] % 2>>
    ELSE IF p[2] < p[1] THEN <<0, 1>> ELSE <<1, 0>>

\* What two pairs have to do with each other: equal, different in both, or neither.
Relates(p, q) ==
    (IF p[1] # q[1] /\ p[2] # q[2] THEN {} ELSE {"=="}) \cup
    (IF p[1] = q[1] /\ p[2] = q[2] THEN {} ELSE {"!="})

\* PropagateTwobit<F>: the positions with one relation in all that was collected.
PropagateTwobit(F, input) ==
    LET collected == ToSet(Collected(F, input))
        Seen(x) == UNION {Relates(Lowest(F, x[1], val[x[1]]), Lowest(F, x[2], val[x[2]])) :
                             val \in collected}
    IN  {<<x, Seen(x)>> : x \in {y \in TwobitPositions(F, input) :
                                    Cardinality(Seen(y)) = 1}}

Loop(F, action, input) ==
    CASE action = "Propagate"       -> Propagate(F, input)
      [] action = "Probability"     -> Probability(F, input)
      [] action = "PropagateTwobit" -> PropagateTwobit(F, input)

-----------------------------------------------------------------------------
(* Equal inputs have one entry in the caches *)

IndexPairs(n) ==
    FlattenSeq([i \in 1..n |-> [k \in 1..(n - i) |-> <<i, i + k>>]])

Swapped(f, i, j) == [f EXCEPT ![i] = f[j], ![j] = f[i]]

Exchanged(s, i, j) == [input |-> Swapped(s.input, i, j), perm |-> Swapped(s.perm, i, j)]

\* The conditions with those of positions that may be exchanged in falling order, and
\* where each of them was before.
SortInput(F, input) ==
    LET Exchange(s, ij) ==
            LET i == ij[1]
                j == ij[2]
            IN  IF /\ F.symmetry[i] = F.symmetry[j]
                   /\ Number(F, i, s.input[i]) < Number(F, j, s.input[j])
                THEN Exchanged(s, i, j)
                ELSE s
    IN  FoldLeft(Exchange, [input |-> input, perm |-> [i \in Positions(F) |-> i]],
                 IndexPairs(F.inputs + F.outputs))

\* The result for the sorted conditions as a result for the given ones.
ResortOutput(action, perm, output) ==
    CASE action = "Propagate" ->
            [i \in DOMAIN perm |-> output[CHOOSE k \in DOMAIN perm : perm[k] = i]]
      [] action = "PropagateTwobit" ->
            {<<<<perm[t[1][1]], perm[t[1][2]]>>, t[2]>> : t \in output}
      [] action = "Probability" -> output

=============================================================================
