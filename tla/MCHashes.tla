------------------------------ MODULE MCHashes ------------------------------
(***************************************************************************)
(* The hash functions with all their rounds, for the empty message and     *)
(* "abc", each padded to one block.                                        *)
(***************************************************************************)
EXTENDS HashProperties

\* The state begins with these values; SHA-256 has its own.
IVa == <<\h6745, \h2301>>
IVb == <<\hefcd, \hab89>>
IVc == <<\h98ba, \hdcfe>>
IVd == <<\h1032, \h5476>>
IVe == <<\hc3d2, \he1f0>>

\* A word, by its name and round, that is turned.
Turned(name, round, r) == <<name, round, r>>
Unturned(name, round) == Turned(name, round, 0)

Given(word, first, second) == [word |-> word, values |-> <<first, second>>]
Both(word, value) == Given(word, value, value)

\* One block with one word of text and its length in bits.
Block(first, second, length) ==
    [k \in 1..16 |-> LET word == Unturned("W", k - 1)
                     IN  CASE k - 1 = 0      -> Given(word, first, second)
                           [] k - 1 = length -> Given(word, <<0, 0>>, <<0, 24>>)
                           [] OTHER          -> Both(word, <<0, 0>>)]

LittleEndian == Block(<<0, \h80>>, <<\h8063, \h6261>>, 14)
BigEndian == Block(<<\h8000, 0>>, <<\h6162, \h6380>>, 15)

\* The state begins with the last values in the first rounds.
Begins(name, values) == [k \in DOMAIN values |-> Both(Unturned(name, -k), values[k])]

State4 == Begins("A", <<IVb, IVc, IVd, IVa>>)
State5 == Begins("A", <<IVa, IVb, IVc, IVd, IVe>>)
RmdState5 == Begins("A", <<IVb, IVc, IVd, IVe, IVa>>)

\* SHA-1 keeps the last three of them turned.
Sha1State5 ==
    [k \in 1..5 |-> Both(Turned("I", -k, IF k > 2 THEN 2 ELSE 0), <<IVa, IVb, IVc, IVd, IVe>>[k])]

Sha2State8 ==
    Begins("A", <<<<\h6a09, \he667>>, <<\hbb67, \hae85>>, <<\h3c6e, \hf372>>, <<\ha54f, \hf53a>>>>) \o
    Begins("E", <<<<\h510e, \h527f>>, <<\h9b05, \h688c>>, <<\h1f83, \hd9ab>>, <<\h5be0, \hcd19>>>>)

AllGiven ==
    ("md4" :> {State4 \o LittleEndian}) @@ ("md5" :> {State4 \o LittleEndian}) @@
    ("sha1" :> {Sha1State5 \o BigEndian}) @@ ("sha2" :> {Sha2State8 \o BigEndian}) @@
    ("has160" :> {State5 \o LittleEndian}) @@ ("ripemd128" :> {State4 \o LittleEndian}) @@
    ("ripemd160" :> {RmdState5 \o LittleEndian})

\* RIPEMD-160 has many slices, and goes through them in one direction.
AllStates ==
    ("md4" :> {"A"}) @@ ("md5" :> {"A"}) @@ ("sha1" :> {"I", "A"}) @@ ("sha2" :> {"A", "E"}) @@
    ("has160" :> {"A"}) @@ ("ripemd128" :> {"A", "B"}) @@
    ("ripemd160" :> {})

\* The words before the first and behind the last round are added.
Sums4(r) == [i \in 1..4 |-> <<Unturned("A", <<-4, -1, -2, -3>>[i]), Unturned("A", r + <<-4, -1, -2, -3>>[i])>>]

AllSums ==
    ("md4" :> Sums4(48)) @@ ("md5" :> Sums4(64)) @@
    ("sha1" :> [i \in 1..5 |-> LET r == IF i > 2 THEN 2 ELSE 0
                               IN  <<Turned("I", -i, r), Turned("A", 80 - i, r)>>]) @@
    ("sha2" :> [i \in 1..8 |-> LET name == IF i > 4 THEN "E" ELSE "A"
                                   k    == IF i > 4 THEN i - 4 ELSE i
                               IN  <<Unturned(name, -k), Unturned(name, 64 - k)>>]) @@
    ("has160" :> [i \in 1..5 |-> <<Unturned("A", -i), Turned("A", 80 - i, IF i > 2 THEN -30 ELSE 0)>>]) @@
    ("ripemd128" :> <<<<Unturned("A", -1), Unturned("A", 62), Unturned("B", 61)>>,
                      <<Unturned("A", -2), Unturned("A", 61), Unturned("B", 60)>>,
                      <<Unturned("A", -3), Unturned("A", 60), Unturned("B", 63)>>,
                      <<Unturned("A", -4), Unturned("A", 63), Unturned("B", 62)>>>>) @@
    ("ripemd160" :> [i \in 1..5 |-> <<Unturned("FA", (6 - i) % 5)>>])

AllDigests ==
    ("md4" :>
        << <<<<\he0cf, \hd631>>, <<\h31e9, \h6ad1>>, <<\hd759, \h3cb7>>,
             <<\hc089, \hc0e0>>>>,
           <<<<\h7a01, \h48a4>>, <<\h52d8, \h21af>>, <<\he80a, \hc15f>>,
             <<\h9d72, \ha67a>>>> >>) @@
    ("md5" :>
        << <<<<\hd98c, \h1dd4>>, <<\h04b2, \h008f>>, <<\h9809, \h80e9>>,
             <<\h7e42, \hf8ec>>>>,
           <<<<\h9850, \h0190>>, <<\hb04f, \hd23c>>, <<\h7d3f, \h96d6>>,
             <<\h727f, \he128>>>> >>) @@
    ("sha1" :>
        << <<<<\hda39, \ha3ee>>, <<\h5e6b, \h4b0d>>, <<\h3255, \hbfef>>,
             <<\h9560, \h1890>>, <<\hafd8, \h0709>>>>,
           <<<<\ha999, \h3e36>>, <<\h4706, \h816a>>, <<\hba3e, \h2571>>,
             <<\h7850, \hc26c>>, <<\h9cd0, \hd89d>>>> >>) @@
    ("sha2" :>
        << <<<<\he3b0, \hc442>>, <<\h98fc, \h1c14>>, <<\h9afb, \hf4c8>>,
             <<\h996f, \hb924>>, <<\h27ae, \h41e4>>, <<\h649b, \h934c>>,
             <<\ha495, \h991b>>, <<\h7852, \hb855>>>>,
           <<<<\hba78, \h16bf>>, <<\h8f01, \hcfea>>, <<\h4141, \h40de>>,
             <<\h5dae, \h2223>>, <<\hb003, \h61a3>>, <<\h9617, \h7a9c>>,
             <<\hb410, \hff61>>, <<\hf200, \h15ad>>>> >>) @@
    ("has160" :>
        << <<<<\hef64, \h7930>>, <<\h371d, \h1534>>, <<\hde7a, \h04c8>>,
             <<\hf450, \habc7>>, <<\h2d76, \h89ff>>>>,
           <<<<\h0481, \h5e97>>, <<\h3d2a, \hcf88>>, <<\h7884, \h8349>>,
             <<\he4fc, \h4a12>>, <<\h0488, \hc7b1>>>> >>) @@
    ("ripemd128" :>
        << <<<<\h1362, \hf2cd>>, <<\h3edc, \h50a1>>, <<\h180f, \h61cb>>,
             <<\h468b, \hb3f6>>>>,
           <<<<\h1912, \h4ac1>>, <<\hbae4, \h669c>>, <<\h0f6b, \h6384>>,
             <<\h774c, \h1469>>>> >>) @@
    ("ripemd160" :>
        << <<<<\ha585, \h119c>>, <<\h54fc, \he9c5>>, <<\h9708, \h2861>>,
             <<\h48f5, \he87e>>, <<\h318d, \h25b2>>>>,
           <<<<\hf708, \hb28e>>, <<\h7a98, \h5de0>>, <<\h8e4a, \h049b>>,
             <<\h87b0, \hc698>>, <<\hfc0b, \h5af1>>>> >>)
\* The name says which crypto it is.
WithoutCrypto == <<hash, given, ch, forward, current, changed, pc>>

=============================================================================
