------------------------------ MODULE MCCaches ------------------------------
(***************************************************************************)
(* Small instances of the result caches.                                   *)
(***************************************************************************)
EXTENDS CacheInvariants

AllPairs == (0..1) \X (0..1)
One  == {<<1, 1>>}
Same == {<<0, 0>>, <<1, 1>>}
Diff == {<<0, 1>>, <<1, 0>>}

Conditions == <<{}, Same, Diff>>

-----------------------------------------------------------------------------
\* A static and a dynamic cache: XOR<2> has 12 bits, ADD<2> has 20.
XorAndAdd == ("xor" :> XOR(2)) @@ ("add" :> ADD(2))

AskedOfBoth ==
    (<<"xor", "Propagate">> :>
        {<<Same, Diff, Same>>, <<Diff, Same, Diff>>}) @@
    (<<"xor", "PropagateTwobit">> :> {<<Diff, Same, Diff>>}) @@
    (<<"xor", "Probability">> :> {<<Same, Diff, Diff>>}) @@
    (<<"add", "Propagate">> :>
        {<<Same, Diff, One, AllPairs, Same>>, <<Diff, Same, One, AllPairs, Same>>,
         <<Diff, One, AllPairs, Same, Same>>, <<Diff, Diff, Same, AllPairs, Diff>>}) @@
    (<<"add", "PropagateTwobit">> :>
        {<<Same, Diff, One, Diff, Same>>})

Dynamic == {"add"} \X Action

-----------------------------------------------------------------------------
\* XOR<2> and XOR<3> in one program, as in siphash.cpp and sm3.cpp.
TwoXors == ("xor2" :> XOR(2)) @@ ("xor3" :> XOR(3))

AskedOfXors ==
    (<<"xor2", "Propagate">> :> {<<Diff, Same, Diff>>}) @@
    (<<"xor3", "Propagate">> :> {<<Diff, Same, Same, Diff>>})

None == {}

-----------------------------------------------------------------------------
\* What the proofs about caches ask of the functions.
ASSUME CachesHypotheses == KeysHavePlaces /\ LoopIsRight

=============================================================================
