--------------------------- MODULE CacheProperties ---------------------------
(***************************************************************************)
(* What the caches are to guarantee to the steps.                          *)
(***************************************************************************)
EXTENDS ResultCaches

-----------------------------------------------------------------------------
(* The functions *)

\* An adder of two neighbouring bits is two adders, the carry of the lower bit going into
\* the upper one; the same without carries holds for XOR.
ASSUME WideIsTwoNarrow ==
    \A n \in {2, 3} :
        /\ \A x \in DOMAIN ADDB(n).f :
              LET low  == ADD(n).f[[k \in DOMAIN x |-> IF k <= n THEN x[k] % 2 ELSE x[k]]]
                  high == ADD(n).f[[k \in DOMAIN x |-> IF k <= n THEN x[k] \div 2 ELSE low[2]]]
              IN  ADDB(n).f[x] = <<low[1] + 2 * high[1], low[2], high[2]>>
        /\ \A x \in DOMAIN XORB(n).f : \A bit \in {1, 2} :
              (XORB(n).f[x][1] \div bit) % 2
                  = XOR(n).f[[k \in 1..n |-> (x[k] \div bit) % 2]][1]

\* The functions of three bits as tables, the first input being the highest bit.
ASSUME FunctionsOfThree ==
    /\ IFF.f = SBOX(3, 1, <<0, 1, 0, 1, 0, 0, 1, 1>>).f
    /\ MAJ.f = [x \in Bits(3) |-> <<ADD(2).f[x][2]>>]
    /\ ONX.f = SBOX(3, 1, <<1, 0, 0, 1, 1, 1, 0, 0>>).f

-----------------------------------------------------------------------------
(* Reference: all values at once *)

\* What the function makes of all inputs there are.
Graph(F) ==
    LET inputs == {x \in [1..F.inputs -> UNION {Pairs(F, i) : i \in 1..F.inputs}] :
                      \A i \in 1..F.inputs : x[i] \in Pairs(F, i)}
    IN  {x \o Componentwise(F, x) : x \in inputs}

Graphs == [f \in DOMAIN Functions |-> Graph(Functions[f])]

Allowed(c, input) == {val \in Graphs[c[1]] : \A i \in Positions(Fn(c)) : val[i] \in input[i]}

\* All of S are equal at two positions, in both messages; all are different.
Equal(F, S, x) == \A val \in S : Lowest(F, x[1], val[x[1]]) = Lowest(F, x[2], val[x[2]])

Different(F, S, x) ==
    \A val \in S : \A k \in {1, 2} :
        Lowest(F, x[1], val[x[1]])[k] # Lowest(F, x[2], val[x[2]])[k]

Reference(c, input) ==
    LET S == Allowed(c, input)
    IN  CASE c[2] = "Propagate"   -> [i \in Positions(Fn(c)) |-> {val[i] : val \in S}]
          [] c[2] = "Probability" ->
                <<Cardinality(S),
                  Cardinality({val \in Graphs[c[1]] :
                                  \A i \in 1..Fn(c).inputs : val[i] \in input[i]})>>
          [] c[2] = "PropagateTwobit" ->
                IF S = {} THEN {}
                ELSE LET x == TwobitPositions(Fn(c), input)
                     IN  {<<{y[1], y[2]}, {"=="}>> : y \in {z \in x : Equal(Fn(c), S, z)}} \cup
                         {<<{y[1], y[2]}, {"!="}>> : y \in {z \in x : Different(Fn(c), S, z)}}

\* The positions of a relation have no order.
Unordered(c, result) ==
    IF c[2] = "PropagateTwobit" THEN {<<{t[1][1], t[1][2]}, t[2]>> : t \in result}
    ELSE result

-----------------------------------------------------------------------------
RawConditions(c, raw) == \A i \in DOMAIN raw : raw[i] \subseteq Pairs(Fn(c), i)

\* Every variable has its type, and so have the values a result is made from: none is
\* "too large for condition" (bitslice.h).
TypeOK ==
    /\ \A c \in Cache : c[2] = "Propagate" =>
          IF IsStatic(c) THEN \A n \in DOMAIN data[c] : RawConditions(c, data[c][n])
          ELSE \A key \in DOMAIN data[c] :
                  RawConditions(c, key) /\ RawConditions(c, data[c][key])
    /\ initialized \subseteq {c \in Cache : IsStatic(c)}
    /\ filepath \subseteq {c \in Cache : HasFile(c)}
    /\ DOMAIN disk \subseteq {File(c) : c \in Cache}
    /\ steps \subseteq DOMAIN Functions
    /\ toDump \subseteq filepath
    /\ answer # NoAnswer =>
          LET visited == Visited(Fn(answer.cache), answer.input)
          IN  \A k \in DOMAIN visited : \A i \in Positions(Fn(answer.cache)) :
                  visited[k][i] \in Pairs(Fn(answer.cache), i)

(***************************************************************************)
(* bitslice.h: the caches are "for faster access to already calculated     *)
(* results".  Whatever was asked before, in this program or in one that    *)
(* left its files, sorted inputs and evicted entries included: a result is *)
(* that of the function for the conditions that were asked for.            *)
(***************************************************************************)
ResultsAreRight ==
    answer # NoAnswer =>
        Unordered(answer.cache, answer.result) = Reference(answer.cache, answer.input)

(***************************************************************************)
(* The assertions of Evict: the order of use knows the keys of the table   *)
(* and no other, each once, and the table keeps to its capacity.           *)
(***************************************************************************)
OrderKnowsTable ==
    \A c \in Cache : ~ IsStatic(c) =>
        /\ ToSet(lru[c]) = DOMAIN data[c]
        /\ IsInjective(lru[c])
        /\ Cardinality(DOMAIN data[c]) <= Capacity

(***************************************************************************)
(* The result asked for last is not the one that makes room for the next,  *)
(* and no step that is created later throws it away.                       *)
(***************************************************************************)
LastResultStays ==
    [][ steps # {} /\ steps' # {} /\ answer # NoAnswer /\ ~ IsStatic(answer.cache) =>
            SortInput(Fn(answer.cache), answer.input).input
                \in DOMAIN data'[answer.cache] ]_vars

=============================================================================
