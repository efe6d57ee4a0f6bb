---------------------------- MODULE HashCryptos ----------------------------
(***************************************************************************)
(* Hash functions as cryptos (examples/md4, md5, sha1, sha2, has160,       *)
(* ripemd128 and ripemd160): the words of the state that change in each    *)
(* round, the words of the message, and the bitslice steps between them,   *)
(* for a given number of rounds.  Their words have 32 bits.  Linear steps, *)
(* which say again what bitslice steps say, are left out.                  *)
(***************************************************************************)
EXTENDS Cryptos

\* A function with all its values, which TLC looks up in place of computing them.
Tabled(F) == [F EXCEPT !.f = Evaluated(@)]

IF3  == Tabled(IFF)
MAJ3 == Tabled(MAJ)
ONX3 == Tabled(ONX)
XOR3 == Tabled(XOR(3))
XOR4 == Tabled(XOR(4))
ADD2 == Tabled(ADD(2))
ADD3 == Tabled(ADD(3))
ADD4 == Tabled(ADD(4))
ADD5 == Tabled(ADD(5))
ADD6 == Tabled(ADD(6))

\* A constant by its upper and lower half.
Constant(halves) ==
    ConstantWord([i \in 0..31 |-> (halves[2 - i \div 16] \div 2 ^ (i % 16)) % 2])

Main(c, name, i) == AddConditionWord(c, name, i, "MAINWORD", 1)
Sub(c, name, i)  == AddConditionWord(c, name, i, "SUBWORD", 1)

\* The words of a name from one round to another.
Mains(c, name, from, to) ==
    FoldLeft(LAMBDA d, k : Main(d, name, from + k - 1), c, [k \in 1..(to - from + 1) |-> k])

\* Words of the message that some round reads.
Message(c, rounds) == Mains(c, "W", 0, (IF rounds < 16 THEN rounds ELSE 16) - 1)

\* In groups of sixteen; a crypto is evaluated, by asking for its size, before it goes on,
\* so that TLC does not nest all rounds.
Rounds(c, Round(_, _), rounds) ==
    LET InTurn(d, numbers, Then(_, _)) ==
            FoldLeft(LAMBDA e, i : IF e.size = 32 THEN Then(e, i) ELSE e, d, numbers)
        Group(d, g) == InTurn(d, SelectSeq([k \in 1..16 |-> 16 * g + k - 1],
                                           LAMBDA i : i < rounds), Round)
    IN  InTurn(c, [k \in 1..((rounds + 15) \div 16) |-> k - 1], Group)

Apply(c, F, params) == AddBitsliceStep(c, F, 32, params)
Carry(c, F, params) == AddCarryStep(c, F, 32, params)

\* An addition with a carry of its own in place of that of a CarryStep.
Add(c, F, params, carry, result) == Apply(c, F, params \o <<Shl(carry, 1), result, carry>>)

\* Three words of the state before round i, by how many rounds before.
Before(c, name, i, rounds) == [k \in 1..3 |-> GetConditionWord(c, name, i - rounds[k])]

-----------------------------------------------------------------------------
(* MD4 *)

Md4Order ==
    <<<<0, 1, 2, 3, 4, 5, 6, 7, 8, 9, 10, 11, 12, 13, 14, 15>>,
      <<0, 4, 8, 12, 1, 5, 9, 13, 2, 6, 10, 14, 3, 7, 11, 15>>,
      <<0, 8, 4, 12, 2, 10, 6, 14, 1, 9, 5, 13, 3, 11, 7, 15>>>>
Md4S == <<<<3, 7, 11, 19>>, <<3, 5, 9, 13>>, <<3, 9, 11, 15>>>>
Md4K == <<<<0, 0>>, <<\h5a82, \h7999>>, <<\h6ed9, \heba1>>>>
Md4F == <<IF3, MAJ3, XOR3>>

Md4Round(c, i) ==
    LET q    == i \div 16 + 1
        new  == Main(Sub(c, "F", i), "A", i)
        A(k) == GetConditionWord(new, "A", i - k)
        F    == GetConditionWord(new, "F", i)
        W    == GetConditionWord(new, "W", Md4Order[q][(i % 16) + 1])
    IN  Carry(Apply(new, Md4F[q], <<A(1), A(2), A(3), F>>),
              ADD4, <<A(4), F, W, Constant(Md4K[q]), Rotr(A(0), Md4S[q][(i % 4) + 1])>>)

Md4(rounds) == Rounds(Message(Mains(Crypto(32), "A", -4, -1), rounds), Md4Round, rounds)

-----------------------------------------------------------------------------
(* MD5 *)

Md5K == <<
    <<\hd76a, \ha478>>, <<\he8c7, \hb756>>, <<\h2420, \h70db>>, <<\hc1bd, \hceee>>,
    <<\hf57c, \h0faf>>, <<\h4787, \hc62a>>, <<\ha830, \h4613>>, <<\hfd46, \h9501>>,
    <<\h6980, \h98d8>>, <<\h8b44, \hf7af>>, <<\hffff, \h5bb1>>, <<\h895c, \hd7be>>,
    <<\h6b90, \h1122>>, <<\hfd98, \h7193>>, <<\ha679, \h438e>>, <<\h49b4, \h0821>>,
    <<\hf61e, \h2562>>, <<\hc040, \hb340>>, <<\h265e, \h5a51>>, <<\he9b6, \hc7aa>>,
    <<\hd62f, \h105d>>, <<\h0244, \h1453>>, <<\hd8a1, \he681>>, <<\he7d3, \hfbc8>>,
    <<\h21e1, \hcde6>>, <<\hc337, \h07d6>>, <<\hf4d5, \h0d87>>, <<\h455a, \h14ed>>,
    <<\ha9e3, \he905>>, <<\hfcef, \ha3f8>>, <<\h676f, \h02d9>>, <<\h8d2a, \h4c8a>>,
    <<\hfffa, \h3942>>, <<\h8771, \hf681>>, <<\h6d9d, \h6122>>, <<\hfde5, \h380c>>,
    <<\ha4be, \hea44>>, <<\h4bde, \hcfa9>>, <<\hf6bb, \h4b60>>, <<\hbebf, \hbc70>>,
    <<\h289b, \h7ec6>>, <<\heaa1, \h27fa>>, <<\hd4ef, \h3085>>, <<\h0488, \h1d05>>,
    <<\hd9d4, \hd039>>, <<\he6db, \h99e5>>, <<\h1fa2, \h7cf8>>, <<\hc4ac, \h5665>>,
    <<\hf429, \h2244>>, <<\h432a, \hff97>>, <<\hab94, \h23a7>>, <<\hfc93, \ha039>>,
    <<\h655b, \h59c3>>, <<\h8f0c, \hcc92>>, <<\hffef, \hf47d>>, <<\h8584, \h5dd1>>,
    <<\h6fa8, \h7e4f>>, <<\hfe2c, \he6e0>>, <<\ha301, \h4314>>, <<\h4e08, \h11a1>>,
    <<\hf753, \h7e82>>, <<\hbd3a, \hf235>>, <<\h2ad7, \hd2bb>>, <<\heb86, \hd391>> >>
Md5S == <<<<7, 12, 17, 22>>, <<5, 9, 14, 20>>, <<4, 11, 16, 23>>, <<6, 10, 15, 21>>>>
Md5F == <<IF3, IF3, XOR3, ONX3>>
Md5Of == <<<<1, 2, 3>>, <<3, 1, 2>>, <<1, 2, 3>>, <<1, 2, 3>>>>

\* Which word of the message enters round i.
Md5Order(i) == (<<i, 5 * i + 1, 3 * i + 5, 7 * i>>[i \div 16 + 1]) % 16

\* Two additions, one behind the other; the lower two bits of the carry are that of the
\* first, the highest that of the second.
ADD4ADD2 == Tabled(
    [kName |-> "ADD4ADD2", inputs |-> 6, outputs |-> 3,
     symmetry |-> <<0, 0, 0, 0, 4, 5, 6, 7, 8>>,
     bitsize |-> <<1, 1, 1, 1, 1, 3, 1, 1, 3>>,
     f |-> [x \in {Append(bits, c) : bits \in Bits(5), c \in 0..7} |->
               LET b == x[1] + x[2] + x[3] + x[4] + (x[6] % 4)
                   a == (b % 2) + x[5] + (x[6] \div 4)
               IN  <<b % 2, a % 2, b \div 2 + 4 * (a \div 2)>>]])

Md5Words(c, i) ==
    LET s   == Md5S[i \div 16 + 1][(i % 4) + 1]
        new == AddConditionWord(Main(Sub(Sub(c, "B", i), "F", i), "A", i),
                                "Co", i, "CARRYWORD", 3)
        cb  == AddReferenceToConditionWord(new, Rotr(Last(new.words), s), "CB", i,
                                           "CARRYWORD", 2, 0)
    IN  AddReferenceToConditionWord(cb, Last(new.words), "CA", i, "CARRYWORD", 1, 2)

\* A slip: the carry that leaves at the highest bit comes in at the lowest one.
Md5CarryIn_Around(carry, s) == Rotl(carry, 1)

\* The carry of both additions, one bit higher: nothing enters them at their lowest bits.
Md5CarryIn(carry, s) == SetZero(SetZero(Rotl(carry, 1), 0, 1, 2), s, 2, 0)

Md5Round(c, i) ==
    LET q    == i \div 16 + 1
        s    == Md5S[q][(i % 4) + 1]
        new  == Md5Words(c, i)
        A(k) == GetConditionWord(new, "A", i - k)
        N(name) == GetConditionWord(new, name, i)
        sum  == <<A(4), N("F"), GetConditionWord(new, "W", Md5Order(i)), Constant(Md5K[i + 1])>>
        f    == Apply(new, Md5F[q], Append(Before(new, "A", i, Md5Of[q]), N("F")))
        b    == Add(f, ADD4, sum, N("CB"), N("B"))
        a    == Add(b, ADD2, <<Rotl(N("B"), s), A(1)>>, N("CA"), A(0))
    IN  Apply(a, ADD4ADD2,
              [k \in 1..4 |-> Rotl(sum[k], s)] \o
              <<A(1), Md5CarryIn(N("Co"), s), Rotl(N("B"), s), A(0), N("Co")>>)

Md5(rounds) == Rounds(Message(Mains(Crypto(32), "A", -4, -1), rounds), Md5Round, rounds)

-----------------------------------------------------------------------------
(* SHA-1 *)

Sha1K == <<<<\h5A82, \h7999>>, <<\h6ED9, \hEBA1>>, <<\h8F1B, \hBCDC>>, <<\hCA62, \hC1D6>>>>
Sha1F == <<IF3, XOR3, MAJ3, XOR3>>

\* A function and the addition of its result at once.
FunctionADD5(name, symmetric, F) == Tabled(
    [kName |-> name, inputs |-> 8, outputs |-> 3,
     symmetry |-> (IF symmetric THEN <<0, 0, 0>> ELSE <<0, 1, 2>>) \o <<3, 3, 3, 3, 7, 8, 9, 10>>,
     bitsize |-> <<1, 1, 1, 1, 1, 1, 1, 3, 1, 1, 3>>,
     f |-> [x \in {Append(bits, c) : bits \in Bits(7), c \in 0..7} |->
               LET f   == F.f[[k \in 1..3 |-> x[k]]][1]
                   sum == f + x[4] + x[5] + x[6] + x[7] + x[8]
               IN  <<f, sum % 2, sum \div 2>>]])

IFADD5   == FunctionADD5("IFADD5", FALSE, IF3)
MAJADD5  == FunctionADD5("MAJADD5", FALSE, MAJ3)
XOR3ADD5 == FunctionADD5("XOR3ADD5", TRUE, XOR3)
Sha1FADD == <<IFADD5, XOR3ADD5, MAJADD5, XOR3ADD5>>

Sha1State(i) == IF i < 0 THEN "I" ELSE "A"

\* The words of the message for all rounds are there before the first round, and so are
\* the functions and the words of the state.
Sha1Words(rounds) ==
    LET Round(c, i) == Main(Main(Sub(c, "F", i), "A", i), "W", i)
        begin == Rounds(Mains(Crypto(32), "I", -5, -1), Round, rounds)
    IN  FoldLeft(LAMBDA c, k : Sub(c, "W", rounds + k - 1), begin,
                 [k \in 1..(80 - rounds) |-> k])

\* A word of the message is that of four others, turned by one bit.
Sha1Expansion(c, i) ==
    IF i < 16 THEN c
    ELSE LET W(k) == GetConditionWord(c, "W", i - k)
         IN  Apply(c, XOR4, <<Rotr(W(3), 31), Rotr(W(8), 31), Rotr(W(14), 31),
                              Rotr(W(16), 31), W(0)>>)

Sha1Round(c, i) ==
    LET q     == i \div 20 + 1
        new   == AddConditionWord(c, "C", i, "CARRYWORD", 3)
        carry == Last(new.words)
        S(k)  == GetConditionWord(new, Sha1State(i - k), i - k)
        W     == GetConditionWord(new, "W", i)
        F     == GetConditionWord(new, "F", i)
        A     == Rotl(S(1), 5)
        BCD   == <<S(2), Rotr(S(3), 2), Rotr(S(4), 2)>>
        E     == Rotr(S(5), 2)
        K     == Constant(Sha1K[q])
        f     == Apply(Sha1Expansion(new, i), Sha1F[q], Append(BCD, F))
    IN  Apply(Add(f, ADD5, <<A, F, E, K, W>>, carry, S(0)),
              Sha1FADD[q], BCD \o <<A, E, K, W, Shl(carry, 1), F, S(0), carry>>)

Sha1(rounds) == Rounds(Sha1Words(rounds), Sha1Round, rounds)

-----------------------------------------------------------------------------
(* SHA-256 *)

Sha2K == <<
    <<\h428a, \h2f98>>, <<\h7137, \h4491>>, <<\hb5c0, \hfbcf>>, <<\he9b5, \hdba5>>,
    <<\h3956, \hc25b>>, <<\h59f1, \h11f1>>, <<\h923f, \h82a4>>, <<\hab1c, \h5ed5>>,
    <<\hd807, \haa98>>, <<\h1283, \h5b01>>, <<\h2431, \h85be>>, <<\h550c, \h7dc3>>,
    <<\h72be, \h5d74>>, <<\h80de, \hb1fe>>, <<\h9bdc, \h06a7>>, <<\hc19b, \hf174>>,
    <<\he49b, \h69c1>>, <<\hefbe, \h4786>>, <<\h0fc1, \h9dc6>>, <<\h240c, \ha1cc>>,
    <<\h2de9, \h2c6f>>, <<\h4a74, \h84aa>>, <<\h5cb0, \ha9dc>>, <<\h76f9, \h88da>>,
    <<\h983e, \h5152>>, <<\ha831, \hc66d>>, <<\hb003, \h27c8>>, <<\hbf59, \h7fc7>>,
    <<\hc6e0, \h0bf3>>, <<\hd5a7, \h9147>>, <<\h06ca, \h6351>>, <<\h1429, \h2967>>,
    <<\h27b7, \h0a85>>, <<\h2e1b, \h2138>>, <<\h4d2c, \h6dfc>>, <<\h5338, \h0d13>>,
    <<\h650a, \h7354>>, <<\h766a, \h0abb>>, <<\h81c2, \hc92e>>, <<\h9272, \h2c85>>,
    <<\ha2bf, \he8a1>>, <<\ha81a, \h664b>>, <<\hc24b, \h8b70>>, <<\hc76c, \h51a3>>,
    <<\hd192, \he819>>, <<\hd699, \h0624>>, <<\hf40e, \h3585>>, <<\h106a, \ha070>>,
    <<\h19a4, \hc116>>, <<\h1e37, \h6c08>>, <<\h2748, \h774c>>, <<\h34b0, \hbcb5>>,
    <<\h391c, \h0cb3>>, <<\h4ed8, \haa4a>>, <<\h5b9c, \hca4f>>, <<\h682e, \h6ff3>>,
    <<\h748f, \h82ee>>, <<\h78a5, \h636f>>, <<\h84c8, \h7814>>, <<\h8cc7, \h0208>>,
    <<\h90be, \hfffa>>, <<\ha450, \h6ceb>>, <<\hbef9, \ha3f7>>, <<\hc671, \h78f2>> >>
Rot256 == <<7, 18, 3, 17, 19, 10, 6, 11, 25, 2, 13, 22>>

\* The fourth bit is subtracted: a carry of 3 stands for -1.
SADD == Tabled(
    [kName |-> "SADD", inputs |-> 5, outputs |-> 2, symmetry |-> <<0, 0, 0, 3, 4, 5, 6>>,
     bitsize |-> <<1, 1, 1, 1, 2, 1, 2>>,
     f |-> [x \in {Append(bits, c) : bits \in Bits(4), c \in 0..3} |->
               LET s == x[1] + x[2] + x[3] - x[4] + (IF x[5] = 3 THEN -1 ELSE x[5])
               IN  <<s % 2, (s \div 2) % 4>>]])

Sha2Words(c, i) ==
    LET w  == IF i < 16 THEN c
              ELSE AddConditionWord(Main(Sub(Sub(c, "s0", i), "s1", i), "W", i),
                                    "CW", i, "CARRYWORD", 2)
        e  == AddConditionWord(Main(Sub(Sub(w, "IF", i), "S1", i), "E", i),
                               "CE", i, "CARRYWORD", 3)
    IN  AddConditionWord(Main(Sub(Sub(e, "MJ", i), "S0", i), "A", i), "CA", i, "CARRYWORD", 2)

\* Rotations of a word by the entries of Rot256 from n on; the message's last one is a shift.
Sigma(word, n) == [k \in 1..3 |-> Rotr(word, Rot256[n + k - 1])]
sigma(word, n) == [Sigma(word, n) EXCEPT ![3] = Shr(word, Rot256[n + 2])]

Sha2Expansion(c, i) ==
    LET N(name, k) == GetConditionWord(c, name, i - k)
        s0 == Apply(c, XOR3, Append(sigma(N("W", 15), 1), N("s0", 0)))
        s1 == Apply(s0, XOR3, Append(sigma(N("W", 2), 4), N("s1", 0)))
    IN  IF i < 16 THEN c
        ELSE Add(s1, ADD4, <<N("s1", 0), N("s0", 0), N("W", 7), N("W", 16)>>,
                 N("CW", 0), N("W", 0))

Sha2Round(c, i) ==
    LET N(name, k) == GetConditionWord(c, name, i - k)
        Now(name)  == N(name, 0)
        f  == Apply(Sha2Expansion(c, i), IF3, Append(Before(c, "E", i, <<1, 2, 3>>), Now("IF")))
        s1 == Apply(f, XOR3, Append(Sigma(N("E", 1), 7), Now("S1")))
        e  == Add(s1, ADD6, <<Now("S1"), Now("IF"), Now("W"), N("A", 4), N("E", 4),
                              Constant(Sha2K[i + 1])>>, Now("CE"), Now("E"))
        m  == Apply(e, MAJ3, Append(Before(c, "A", i, <<1, 2, 3>>), Now("MJ")))
        s0 == Apply(m, XOR3, Append(Sigma(N("A", 1), 10), Now("S0")))
    IN  Add(s0, SADD, <<Now("S0"), Now("MJ"), Now("E"), N("A", 4)>>, Now("CA"), Now("A"))

Sha2(rounds) ==
    LET begin == Mains(Mains(Message(Crypto(32), rounds), "E", -4, -1), "A", -4, -1)
    IN  Rounds(Rounds(begin, Sha2Words, rounds), Sha2Round, rounds)

-----------------------------------------------------------------------------
(* HAS-160 *)

Has160K == <<<<0, 0>>, <<\h5a82, \h7999>>, <<\h6ed9, \heba1>>, <<\h8f1b, \hbcdc>>>>
Has160F == <<IF3, XOR3, ONX3, XOR3>>
Has160S1 == <<5, 11, 7, 15, 6, 13, 8, 14, 7, 12, 9, 11, 8, 15, 6, 12, 9, 14, 5, 13>>

Has160S2 == <<0, 10, 17, 25, 30>>

\* How far a state word is turned in round j of group q: the first words still are what
\* the group before has made of them.
Turn(q, j, first) == Has160S2[IF j < first THEN q ELSE q + 1]

Has160Order ==
    <<<<18, 0, 1, 2, 3, 19, 4, 5, 6, 7, 16, 8, 9, 10, 11, 17, 12, 13, 14, 15>>,
      <<18, 3, 6, 9, 12, 19, 15, 2, 5, 8, 16, 11, 14, 1, 4, 17, 7, 10, 13, 0>>,
      <<18, 12, 5, 14, 7, 19, 0, 9, 2, 11, 16, 4, 13, 6, 15, 17, 8, 1, 10, 3>>,
      <<18, 7, 2, 13, 8, 19, 3, 14, 9, 4, 16, 15, 10, 5, 0, 17, 11, 6, 1, 12>>>>

\* The words of the message that words 16, ..., 19 of each group are made of.
Has160Sums ==
    <<<<<<0, 1, 2, 3>>, <<4, 5, 6, 7>>, <<8, 9, 10, 11>>, <<12, 13, 14, 15>>>>,
      <<<<3, 6, 9, 12>>, <<15, 2, 5, 8>>, <<11, 14, 1, 4>>, <<7, 10, 13, 0>>>>,
      <<<<12, 5, 14, 7>>, <<0, 9, 2, 11>>, <<4, 13, 6, 15>>, <<8, 1, 10, 3>>>>,
      <<<<7, 2, 13, 8>>, <<3, 14, 9, 4>>, <<15, 10, 5, 0>>, <<11, 6, 1, 12>>>>>>

\* Word k of group q; the words of the message itself are the same in each group.
Has160Word(c, q, k) == GetConditionWord(c, "W", IF k < 16 THEN k ELSE 20 * (q - 1) + k)

Has160Expansion(c, q) ==
    LET added == FoldLeft(LAMBDA d, k : Sub(d, "W", 20 * (q - 1) + k), c, <<16, 17, 18, 19>>)
        Summed(d, k) ==
            Apply(d, XOR4, [n \in 1..4 |-> GetConditionWord(added, "W", Has160Sums[q][k][n])] \o
                           <<Has160Word(added, q, 15 + k)>>)
    IN  FoldLeft(Summed, added, <<1, 2, 3, 4>>)

Has160Round(c, i) ==
    LET q    == i \div 20 + 1
        j    == i % 20
        new  == Main(Sub(c, "F", i), "A", i)
        A(k) == GetConditionWord(new, "A", i - k)
        F    == GetConditionWord(new, "F", i)
        f    == Apply(new, Has160F[q],
                      <<A(2), Rotl(A(3), Turn(q, j, 1)), Rotl(A(4), Turn(q, j, 2)), F>>)
        sum  == <<F, Has160Word(new, q, Has160Order[q][j + 1]), Rotl(A(1), Has160S1[j + 1]),
                  Rotl(A(5), Turn(q, j, 3))>>
    IN  IF q = 1 THEN Carry(f, ADD4, Append(sum, A(0)))
        ELSE Carry(f, ADD5, sum \o <<Constant(Has160K[q]), A(0)>>)

Has160(rounds) ==
    LET begin == Mains(Mains(Crypto(32), "A", -5, -1), "W", 0, 15)
    IN  Rounds(FoldLeft(Has160Expansion, begin, <<1, 2, 3, 4>>), Has160Round, rounds)

-----------------------------------------------------------------------------
(* RIPEMD-128: two streams of rounds from one state *)

RmdKA == <<<<0, 0>>, <<\h5a82, \h7999>>, <<\h6ed9, \heba1>>, <<\h8f1b, \hbcdc>>>>
RmdKB == <<<<0, 0>>, <<\h6d70, \h3ef3>>, <<\h5c4d, \hd124>>, <<\h50a2, \h8be6>>>>
RmdSA == <<11, 14, 15, 12, 5, 8, 7, 9, 11, 13, 14, 15, 6, 7, 9, 8,
           7, 6, 8, 13, 11, 9, 7, 15, 7, 12, 15, 9, 11, 7, 13, 12,
           11, 13, 6, 7, 14, 9, 13, 15, 14, 8, 13, 6, 5, 12, 7, 5,
           11, 12, 14, 15, 14, 15, 9, 8, 9, 14, 5, 6, 8, 6, 5, 12>>
RmdSB == <<8, 9, 9, 11, 13, 15, 15, 5, 7, 7, 8, 11, 14, 14, 12, 6,
           9, 13, 15, 7, 12, 8, 9, 11, 7, 7, 12, 7, 6, 15, 13, 11,
           9, 7, 15, 11, 8, 6, 6, 14, 12, 13, 5, 14, 13, 13, 7, 5,
           15, 5, 8, 11, 14, 14, 6, 14, 6, 9, 12, 9, 12, 5, 15, 8>>
RmdXA == <<0, 1, 2, 3, 4, 5, 6, 7, 8, 9, 10, 11, 12, 13, 14, 15,
           7, 4, 13, 1, 10, 6, 15, 3, 12, 0, 9, 5, 2, 14, 11, 8,
           3, 10, 14, 4, 9, 15, 8, 1, 2, 7, 0, 6, 13, 11, 5, 12,
           1, 9, 11, 10, 0, 8, 12, 4, 13, 3, 7, 15, 14, 5, 6, 2>>
RmdXB == <<5, 14, 7, 0, 9, 2, 11, 4, 13, 6, 15, 8, 1, 10, 3, 12,
           6, 11, 3, 7, 0, 13, 5, 10, 14, 15, 8, 12, 4, 9, 1, 2,
           15, 5, 1, 3, 7, 14, 6, 9, 11, 8, 12, 2, 10, 0, 4, 13,
           8, 6, 4, 1, 3, 11, 15, 0, 5, 12, 2, 13, 9, 7, 10, 14>>

\* The functions of the left stream and what of the state they read; the right stream has
\* them in the opposite order.
RmdF  == <<XOR3, IF3, ONX3, IF3>>
RmdOf == <<<<1, 2, 3>>, <<1, 2, 3>>, <<1, 3, 2>>, <<3, 1, 2>>>>

RmdState(name, i) == IF i < 0 THEN "A" ELSE name

\* One round of the stream that has its functions under fname and its state under name.
RmdStream(c, i, fname, name, q, word, k, shift) ==
    LET new  == Main(Sub(c, fname, i), name, i)
        S(n) == GetConditionWord(new, RmdState(name, i - n), i - n)
        F    == GetConditionWord(new, fname, i)
        f    == Apply(new, RmdF[q], [n \in 1..3 |-> S(RmdOf[q][n])] \o <<F>>)
    IN  Carry(f, ADD4, <<S(4), F, GetConditionWord(new, "W", word), Constant(k),
                         Rotr(S(0), shift)>>)

Ripemd128Round(c, i) ==
    LET q    == i \div 16 + 1
        left == RmdStream(c, i, "F", "A", q, RmdXA[i + 1], RmdKA[q], RmdSA[i + 1])
    IN  RmdStream(left, i, "G", "B", 5 - q, RmdXB[i + 1], RmdKB[5 - q], RmdSB[i + 1])

Ripemd128(rounds) ==
    Rounds(Mains(Mains(Crypto(32), "W", 0, 15), "A", -4, -1), Ripemd128Round, rounds)

-----------------------------------------------------------------------------
(* RIPEMD-160, begun in round 0, with all of its slices (ripemd160-bs 7)   *)

Rmd160KA == <<<<0, 0>>, <<\h5a82, \h7999>>, <<\h6ed9, \heba1>>, <<\h8f1b, \hbcdc>>,
              <<\ha953, \hfd4e>>>>
Rmd160KB == <<<<0, 0>>, <<\h7a6d, \h76e9>>, <<\h6d70, \h3ef3>>, <<\h5c4d, \hd124>>,
              <<\h50a2, \h8be6>>>>
Rmd160SA == RmdSA \o <<9, 15, 5, 11, 6, 8, 13, 12, 5, 12, 13, 14, 11, 8, 5, 6>>
Rmd160SB == RmdSB \o <<8, 5, 12, 9, 12, 5, 14, 6, 8, 13, 6, 5, 15, 13, 11, 11>>
Rmd160XA == RmdXA \o <<4, 0, 5, 9, 7, 12, 2, 10, 14, 1, 3, 8, 11, 6, 15, 13>>
Rmd160XB == RmdXB \o <<12, 15, 10, 4, 1, 5, 8, 7, 6, 2, 13, 14, 0, 3, 9, 11>>

\* The functions of the left stream; the right stream has them in the opposite order.
Rmd160F  == <<XOR3, IF3, ONX3, IF3, ONX3>>
Rmd160Of == <<<<1, 2, 3>>, <<1, 2, 3>>, <<1, 3, 2>>, <<3, 1, 2>>, <<2, 1, 3>>>>

\* The sum of both additions and their carries, that of the second as the lowest bit.
TwoSums(f, x, a) ==
    LET b   == f + x[1] + x[2] + x[3] + (a[2] \div 2)
        sum == (b % 2) + a[1] + (a[2] % 2)
    IN  <<b % 2, sum % 2, 2 * (b \div 2) + sum \div 2>>

Rmd160ADD4ADD2 == Tabled(
    [kName |-> "ADD4ADD2", inputs |-> 6, outputs |-> 3,
     symmetry |-> <<0, 0, 0, 0, 4, 5, 6, 7, 8>>,
     bitsize |-> <<1, 1, 1, 1, 1, 3, 1, 1, 3>>,
     f |-> [x \in {Append(bits, c) : bits \in Bits(5), c \in 0..7} |->
               TwoSums(x[1], <<x[2], x[3], x[4]>>, <<x[5], x[6]>>)]])

\* A function and both additions at once.
FunctionADD4ADD2(name, symmetry, F) == Tabled(
    [kName |-> name, inputs |-> 8, outputs |-> 4,
     symmetry |-> symmetry \o <<6, 7, 8, 9, 10, 11>>,
     bitsize |-> <<1, 1, 1, 1, 1, 1, 1, 3, 1, 1, 1, 3>>,
     f |-> [x \in {Append(bits, c) : bits \in Bits(7), c \in 0..7} |->
               LET f == F.f[[k \in 1..3 |-> x[k]]][1]
               IN  <<f>> \o TwoSums(f, <<x[4], x[5], x[6]>>, <<x[7], x[8]>>)]])

\* The third one has the name of the second one.
XOR3ADD4ADD2 == FunctionADD4ADD2("XOR3ADD4ADD2", <<0, 0, 0, 1, 1, 1>>, XOR3)
IFADD4ADD2   == FunctionADD4ADD2("IFADD4ADD2", <<0, 1, 2, 3, 3, 3>>, IF3)
ONXADD4ADD2  == FunctionADD4ADD2("IFADD4ADD2", <<0, 1, 2, 3, 3, 3>>, ONX3)
Rmd160FADD   == <<XOR3ADD4ADD2, IFADD4ADD2, ONXADD4ADD2, IFADD4ADD2, ONXADD4ADD2>>

LeftNames  == [F |-> "F", D |-> "D", A |-> "A", Co |-> "CA3", CD |-> "CD", CA |-> "CA"]
RightNames == [F |-> "G", D |-> "E", A |-> "B", Co |-> "CB3", CD |-> "CE", CA |-> "CB"]

\* The words of one stream in round i.
Rmd160StreamWords(c, i, names, s) ==
    LET new == AddConditionWord(Main(Sub(Sub(c, names.F, i), names.D, i), names.A, i),
                                names.Co, i, "CARRYWORD", 3)
        cd  == AddReferenceToConditionWord(new, Rotr(Last(new.words), s), names.CD, i,
                                           "CARRYWORD", 2, 1)
    IN  AddReferenceToConditionWord(cd, Last(new.words), names.CA, i, "CARRYWORD", 1, 0)

Rmd160Words(c, i) ==
    Rmd160StreamWords(Rmd160StreamWords(c, i, LeftNames, Rmd160SA[i + 1]),
                      i, RightNames, Rmd160SB[i + 1])

Rmd160CarryIn(carry, s) == SetZero(SetZero(Rotl(carry, 1), 0, 1, 0), s, 2, 1)

\* A word of the state once three rounds have passed: those of the first words of all
\* have been turned before.
Rmd160State(c, name, i, n) ==
    LET word == GetConditionWord(c, RmdState(name, i - n), i - n)
    IN  IF n > 2 /\ i - n > -3 THEN Rotl(word, 10) ELSE word

Rmd160Stream(c, i, names, q, word, k, s) ==
    LET Now(name) == GetConditionWord(c, name, i)
        S(n)    == Rmd160State(c, names.A, i, n)
        F       == Now(names.F)
        D       == Now(names.D)
        A       == Now(names.A)
        Co      == Now(names.Co)
        W       == GetConditionWord(c, "W", word)
        K       == Constant(k)
        of      == [n \in 1..3 |-> S(Rmd160Of[q][n])]
        carries == <<S(4), Rmd160CarryIn(Co, s)>>
        Turned(words) == [n \in DOMAIN words |-> Rotl(words[n], s)]
        f  == Apply(c, Rmd160F[q], Append(of, F))
        d  == Add(f, ADD4, <<S(5), F, W, K>>, Now(names.CD), D)
        a  == Add(d, ADD2, <<Rotl(D, s), S(4)>>, Now(names.CA), A)
        da == Apply(a, Rmd160ADD4ADD2,
                    Turned(<<S(5), F, W, K>>) \o carries \o <<Rotl(D, s), A, Co>>)
    IN  Apply(da, Rmd160FADD[q],
              Turned(of \o <<S(5), W, K>>) \o carries \o Turned(<<F, D>>) \o <<A, Co>>)

Ripemd160Round(c, i) ==
    LET q    == i \div 16 + 1
        left == Rmd160Stream(c, i, LeftNames, q, Rmd160XA[i + 1], Rmd160KA[q],
                             Rmd160SA[i + 1])
    IN  Rmd160Stream(left, i, RightNames, 6 - q, Rmd160XB[i + 1], Rmd160KB[6 - q],
                     Rmd160SB[i + 1])

\* The words before the first and behind the last round are added.
Rmd160FeedForward(c, rounds) ==
    LET added == Mains(c, "FA", 0, 4)
        Behind(name, n) == Rmd160State(added, name, rounds, (n % 5) + 1)
        Sum3(d, m) ==
            Carry(d, ADD3, <<GetConditionWord(d, "A", -m), Behind("A", m), Behind("B", m + 1),
                             GetConditionWord(d, "FA", (6 - m) % 5)>>)
    IN  FoldLeft(Sum3, added, <<1, 2, 3, 4, 5>>)

Ripemd160(rounds) ==
    LET begin == Mains(Mains(Crypto(32), "A", -5, -1), "W", 0, 15)
    IN  Rmd160FeedForward(Rounds(Rounds(begin, Rmd160Words, rounds), Ripemd160Round, rounds),
                          rounds)

-----------------------------------------------------------------------------
(* With all their rounds.  These are constants of their own, which TLC     *)
(* evaluates once.                                                         *)

WholeMd4       == Md4(48)
WholeMd5       == Md5(64)
WholeSha1      == Sha1(80)
WholeSha2      == Sha2(64)
WholeHas160    == Has160(80)
WholeRipemd128 == Ripemd128(64)
WholeRipemd160 == Ripemd160(80)

CryptoOf(h) ==
    CASE h = "md4"       -> WholeMd4
      [] h = "md5"       -> WholeMd5
      [] h = "sha1"      -> WholeSha1
      [] h = "sha2"      -> WholeSha2
      [] h = "has160"    -> WholeHas160
      [] h = "ripemd128" -> WholeRipemd128
      [] h = "ripemd160" -> WholeRipemd160

=============================================================================
