------------------------------ MODULE Bitmasks ------------------------------
(***************************************************************************)
(* The sparse masks of bit positions (bitmask.h): the words of which some  *)
(* bit is set, in rising order, each with the set of these bits.  A word   *)
(* without a bit has no entry; everything that reads a mask asserts this   *)
(* (CheckMask), because First takes its bit from the first entry.          *)
(***************************************************************************)
EXTENDS Integers, SequencesExt

EmptyMask == <<>>

CheckMask(mask) ==
    \A i \in DOMAIN mask :
        /\ mask[i].mask # {}
        /\ i > 1 => mask[i - 1].word < mask[i].word

\* The entry of a word, or where it would have to be inserted.
LowerBound(mask, word) ==
    CHOOSE i \in 1..(Len(mask) + 1) :
        /\ \A k \in 1..(i - 1) : mask[k].word < word
        /\ \A k \in i..Len(mask) : mask[k].word >= word

HasEntry(mask, word) == \E i \in DOMAIN mask : mask[i].word = word

\* A slip: a word of which the last bit is cleared keeps its entry.
ClearBits_Kept(mask, word, bits) ==
    IF HasEntry(mask, word)
    THEN [mask EXCEPT ![LowerBound(mask, word)].mask = @ \ bits]
    ELSE mask

ClearBits(mask, word, bits) ==
    LET i == LowerBound(mask, word)
    IN  IF ~HasEntry(mask, word) THEN mask
        ELSE IF mask[i].mask \subseteq bits THEN RemoveAt(mask, i)
        ELSE [mask EXCEPT ![i].mask = @ \ bits]

SetBits(mask, word, bits) ==
    LET i == LowerBound(mask, word)
    IN  IF bits = {} THEN mask
        ELSE IF HasEntry(mask, word) THEN [mask EXCEPT ![i].mask = @ \cup bits]
        ELSE InsertAt(mask, i, [word |-> word, mask |-> bits])

SetBit(mask, pos) == SetBits(mask, pos[1], {pos[2]})

\* The lowest bit of the first word.
First(mask) ==
    <<Head(mask).word, CHOOSE b \in Head(mask).mask : \A c \in Head(mask).mask : b <= c>>

\* The positions in rising order; as a set, as nothing depends on the order.
GetBitposList(mask) == UNION {{e.word} \X e.mask : e \in ToSet(mask)}

=============================================================================
