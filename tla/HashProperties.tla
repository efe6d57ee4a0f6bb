--------------------------- MODULE HashProperties ---------------------------
(***************************************************************************)
(* What a crypto of a hash function has to be, so that characteristics     *)
(* that are found are ones of the hash function.                           *)
(***************************************************************************)
EXTENDS Hashes

CONSTANTS
    DigestIs,     \* for each crypto, the two digests, word by word
    DigestOf      \* for each crypto, which words of the state are added for a word of them

\* The value of a word in the first (1) or second (2) message.
ValueOf(s, w, k) ==
    LET word == WordAt(w)
        BitOf(i) == LET x == CHOOSE y \in GetCondition(s, word.proxies[i]) : TRUE
                    IN  IF k = 1 THEN x % 2 ELSE x \div 2
        Half(from) == MapThenSumSet(LAMBDA i : BitOf(from + i) * 2 ^ i, 0..15)
    IN  <<Half(16), Half(0)>>

Plus(x, y) ==
    LET low == x[2] + y[2]
    IN  <<(x[1] + y[1] + low \div 65536) % 65536, low % 65536>>

SumOf(s, words, k) == FoldLeft(Plus, <<0, 0>>, [i \in DOMAIN words |-> ValueOf(s, words[i], k)])

Known(s) ==
    \A n \in 1..3 : \A k \in DOMAIN s.cond[n] : \A i \in DOMAIN s.cond[n][k] :
        Cardinality(s.cond[n][k][i]) = 1

-----------------------------------------------------------------------------
TypeOK ==
    /\ hash \in DOMAIN GivenTo
    /\ current = 1 \/ pc = "refused" =>
          \A n \in 1..3 : \A k \in DOMAIN ch.cond[n] : \A i \in DOMAIN ch.cond[n][k] :
              ch.cond[n][k][i] \subseteq AllOf(n)
    /\ current \in 1..(Max({steps, Len(given)}) + 1)
    /\ changed \in BOOLEAN
    /\ pc \in {"read", "forward", "backward", "done", "refused"}

(***************************************************************************)
(* The steps of a crypto do not contradict each other: some of them say    *)
(* again what others say, for wider slices (IFADD5, ADD4ADD2), and a pair  *)
(* of messages goes through all of them, in both directions.               *)
(***************************************************************************)
StepsAgree == pc # "refused"

(***************************************************************************)
(* A pair of messages decides every condition, and the last words of the   *)
(* state are those of the hash function: the digests are right.            *)
(***************************************************************************)
DigestsAreRight ==
    (pc = "backward" /\ current = 1) \/ pc = "done" =>
        /\ Known(forward)
        /\ \A k \in 1..2 : \A i \in DOMAIN DigestOf[hash] :
              SumOf(forward, DigestOf[hash][i], k) = DigestIs[hash][k][i]

(***************************************************************************)
(* The words of the state decide the messages, and all other words.        *)
(***************************************************************************)
MessageFollows == pc = "done" => ch = forward

=============================================================================
