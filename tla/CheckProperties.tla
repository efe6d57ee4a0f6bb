--------------------------- MODULE CheckProperties ---------------------------
(***************************************************************************)
(* What a check of a characteristic promises.  The pairs of messages a     *)
(* crypto allows are given apart from its steps, as what the operations on *)
(* words compute.                                                          *)
(***************************************************************************)
EXTENDS CharacteristicCheck

CONSTANT Messages     \* for each name, functions from <<word, bit>> to pairs of values

ASSUME MessagesAssumption ==
    \A c \in DOMAIN CryptoOf : \A m \in Messages[c] :
        \A g \in GivenTo[c] : DOMAIN g = DOMAIN m

Bits1 == DOMAIN given

Conforms(m, s) == \A pos \in Bits1 : m[pos] \in BitConditionAt(s, pos)

Meant == {m \in Messages[name] : \A pos \in Bits1 : m[pos] \in given[pos]}

Passed ==
    \/ pc \in {"relations", "level2", "level3"}
    \/ answer = "0" /\ level > 0

Places == ContainerPositions(crypto)

\* A bit of which some choice goes through.
HasChoice(pos) == \E i \in 1..2 : Trial(pos, i).ok

-----------------------------------------------------------------------------
\* Every variable has its type, and what reads a mask may assert CheckMask.
TypeOK ==
    /\ \A pos \in Places : ConditionAt(ch, pos) \subseteq AllOf(pos[1])
    /\ ch.updates \subseteq UNION Range(touches)
    /\ \A t \in twobits : Cardinality(t[1]) = 2 /\ t[2] \in {{"=="}, {"!="}}
    /\ CheckMask(mask) /\ CheckMask(todo)
    /\ GetBitposList(todo) \subseteq GetBitposList(mask)
    /\ pc \in {"read", "update", "relations", "level2", "level3", "done"}
    /\ answer \in {"none", "0", "1", "2", "3"}

(***************************************************************************)
(* No step of the check excludes a pair of messages that the file allows:  *)
(* it conforms to the characteristic as long as there is one, and a check  *)
(* that fails has none.                                                    *)
(***************************************************************************)
NoMessageLost ==
    pc # "read" =>
        IF answer \in {"1", "2", "3"} THEN Meant = {}
        ELSE \A m \in Meant : Conforms(m, ch)

(***************************************************************************)
(* What the file says of a bit stays true of it, although the bits of a    *)
(* word may be spread over conditions of several bits, each of which other *)
(* bits and steps write too.                                               *)
(***************************************************************************)
GivenHolds ==
    pc # "read" => \A pos \in Bits1 : BitConditionAt(ch, pos) \subseteq given[pos]

(***************************************************************************)
(* characteristic.cpp:306, "should never fail!": after an update that went *)
(* well, and after each bit that was completed, no slice is left to update *)
(* and none has more to say.                                               *)
(***************************************************************************)
NothingMoreToUpdate ==
    Passed =>
        /\ ch.updates = {}
        /\ \A u \in UNION Range(touches) :
              LET r == UpdateSlice(touches, Step(u), ch, u[3])
              IN  r.ok /\ r.ch.cond = ch.cond

(***************************************************************************)
(* A relation of two bits holds for each pair of messages that conforms to *)
(* the characteristic (twobit_condition.h).                                *)
(***************************************************************************)
RelationsHold ==
    \A t \in twobits : \A m \in Meant :
        \A p, q \in t[1] : p # q /\ p \in Bits1 /\ q \in Bits1 =>
            IF t[2] = {"=="} THEN m[p] = m[q]
            ELSE m[p] \div 2 # m[q] \div 2 /\ m[p] % 2 # m[q] % 2

(***************************************************************************)
(* characteristic.h:104, "checkLevel 2: complete on all 2-bit conditions": *)
(* after a check of level 2 without a failure each '-' or 'x' bit that has *)
(* a relation has a choice that goes through.                              *)
(***************************************************************************)
RelatedBitsHaveChoice ==
    answer = "0" /\ level >= 2 =>
        \A pos \in UNION {t[1] : t \in twobits} :
            BitConditionAt(ch, pos) \in DashOrX => HasChoice(pos)

(***************************************************************************)
(* characteristic.h:105, "checkLevel 3: complete on all -/x conditions":   *)
(* the same for each '-' or 'x' bit after level 3.                         *)
(***************************************************************************)
AllBitsHaveChoice ==
    answer = "0" /\ level = 3 =>
        \A pos \in Bits1 : BitConditionAt(ch, pos) \in DashOrX => HasChoice(pos)

(***************************************************************************)
(* What is written can be read: a fresh characteristic that is read from   *)
(* the text of a checked one says the same of every word that is shown,    *)
(* with the flags of the main words as well as with those of all.          *)
(***************************************************************************)
WrittenIsRead ==
    answer = "0" =>
        \A onlyMain \in BOOLEAN :
            LET text == WriteCharacteristic(crypto, matrix, onlyMain, ch)
                copy == ReadCharacteristic(touches, crypto, matrix, onlyMain, Fresh, text)
            IN  /\ copy.ok
                /\ WriteCharacteristic(crypto, matrix, onlyMain, copy.ch) = text

(***************************************************************************)
(* Complete comes to an end, however often it starts again with all bits:  *)
(* each bit it looks at leaves fewer bits to look at, or fewer pairs in    *)
(* the conditions, or is the last one.                                     *)
(***************************************************************************)
Fewer(s, t) ==
    /\ \A pos \in Places : ConditionAt(t, pos) \subseteq ConditionAt(s, pos)
    /\ s.cond # t.cond

CompleteEnds ==
    Completing /\ todo # EmptyMask =>
        \A r1 \in {Trial(First(todo), 1)}, r2 \in {Trial(First(todo), 2)} :
            CASE r1.ok /\ r2.ok   -> GetBitposList(LeftAfter(r1, r2, todo))
                                         \subseteq GetBitposList(todo) \ {First(todo)}
              [] r1.ok /\ ~r2.ok  -> Fewer(ch, r1.ch)
              [] ~r1.ok /\ r2.ok  -> Fewer(ch, r2.ch)
              [] ~r1.ok /\ ~r2.ok -> TRUE

=============================================================================
