------------------------------- MODULE Hashes -------------------------------
(***************************************************************************)
(* Messages in the cryptos of hash functions: a pair of messages is given  *)
(* and the conditions are updated until nothing changes                    *)
(* (Characteristic::Update), so that the words of the state follow round   *)
(* by round.  Then only the state is kept, and the messages have to follow *)
(* from it: the conditions go through the steps in the other direction.    *)
(*                                                                         *)
(* Steps are updated one behind the other and over again, slice by slice,  *)
(* while the code takes the slices by priority (CharacteristicCheck); both *)
(* end where no slice has more to say.                                     *)
(***************************************************************************)
EXTENDS HashCryptos

CONSTANTS
    GivenTo,      \* for each crypto, sequences of words and their pairs of values
    StateOf       \* for each, the names of the words of its state, if it goes back

ASSUME HashesAssumption ==
    DOMAIN GivenTo = DOMAIN StateOf

VARIABLES
    hash,         \* the name of the crypto
    crypto,       \* its main words
    steps,        \* how many steps it has
    given,        \* the messages and where the state begins
    ch,           \* the conditions of all containers
    forward,      \* the conditions that followed from the messages, once they have
    current,      \* the word to be read, or the step to be updated
    changed,      \* some condition has changed since the first step
    pc

vars == <<hash, crypto, steps, given, ch, forward, current, changed, pc>>

\* All slices are updated again and again: a container does not have to wake any.
NoTouches == [pos \in Nat \X Nat \X Nat |-> {}]

\* A word and how far it is turned.
WordAt(w) == Rotr(GetConditionWord(crypto, w[1], w[2]), w[3])

\* The lower half of a value is the second one.
Bit(halves, i) == (halves[2 - i \div 16] \div 2 ^ (i % 16)) % 2

Set(s, proxy, c) == SetCondition(NoTouches, s, proxy, c).ch

\* Both values of a word are given.
SetWord(s, w, values) ==
    LET word == WordAt(w)
    IN  FoldLeft(LAMBDA t, k :
                     Set(t, word.proxies[k - 1],
                         {2 * Bit(values[2], k - 1) + Bit(values[1], k - 1)}),
                 s, [k \in 1..32 |-> k])

Unread == [cond |-> Anything(crypto), updates |-> {}, twobit |-> {}]

\* All that is kept of a characteristic is what it says of the state: words of one bit.
OnlyState(s) ==
    LET kept == {w.proxies[0].pos[2] + 1 : w \in
                    {v \in ToSet(crypto.words) : v.name \in StateOf[hash]}}
    IN  [s EXCEPT !.cond = [Anything(crypto) EXCEPT
            ![1] = [k \in DOMAIN @ |-> IF k \in kept THEN s.cond[1][k] ELSE @[k]]]]

-----------------------------------------------------------------------------
Init ==
    /\ hash \in DOMAIN GivenTo
    /\ \E c \in {CryptoOf(hash)} :
          /\ crypto = [size |-> c.size, num |-> c.num,
                       words |-> SelectSeq(c.words, LAMBDA w : w.type = "MAINWORD")]
          /\ steps = Len(c.steps)
    /\ given \in GivenTo[hash]
    /\ ch = Unread
    /\ forward = <<>>
    /\ current = 1
    /\ changed = FALSE
    /\ pc = "read"

ReadWord ==
    /\ pc = "read"
    /\ ch' = SetWord(ch, given[current].word, given[current].values)
    /\ IF current = Len(given)
       THEN current' = 1 /\ pc' = "forward"
       ELSE current' = current + 1 /\ UNCHANGED pc
    /\ UNCHANGED <<hash, crypto, steps, given, forward, changed>>

Updating == pc \in {"forward", "backward"}

\* All slices of a step, up to the first one that fails.
UpdateStep ==
    /\ Updating /\ current <= steps
    /\ \E step \in {CryptoOf(hash).steps[current]} :
          LET Slice(r, k) ==
                  IF r.ok THEN UpdateSlice(NoTouches, step, r.ch, k - 1) ELSE r
              updated == FoldLeft(Slice, [ch |-> ch, ok |-> TRUE], [k \in 1..32 |-> k])
          IN  /\ ch' = updated.ch
              /\ changed' = (changed \/ ch' # ch)
              /\ pc' = IF updated.ok THEN pc ELSE "refused"
    /\ current' = current + 1
    /\ UNCHANGED <<hash, crypto, steps, given, forward>>

Again ==
    /\ Updating /\ current > steps /\ changed
    /\ current' = 1
    /\ changed' = FALSE
    /\ UNCHANGED <<hash, crypto, steps, given, ch, forward, pc>>

\* The messages have gone through; the state alone goes back.
KeepState ==
    /\ StateOf[hash] # {}
    /\ pc = "forward" /\ current > steps /\ ~changed
    /\ forward' = ch
    /\ ch' = OnlyState(ch)
    /\ current' = 1
    /\ pc' = "backward"
    /\ UNCHANGED <<hash, crypto, steps, given, changed>>

End ==
    /\ pc = IF StateOf[hash] = {} THEN "forward" ELSE "backward"
    /\ current > steps /\ ~changed
    /\ forward' = IF pc = "forward" THEN ch ELSE forward
    /\ pc' = "done"
    /\ UNCHANGED <<hash, crypto, steps, given, ch, current, changed>>

Done == pc \in {"done", "refused"} /\ UNCHANGED vars

Next ==
    \/ ReadWord
    \/ UpdateStep
    \/ Again
    \/ KeepState
    \/ End
    \/ Done

Spec == Init /\ [][Next]_vars

=============================================================================
