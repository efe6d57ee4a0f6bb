-------------------------- MODULE ConditionProxies --------------------------
(***************************************************************************)
(* How a step or a word gets at a condition (condition_proxy.h and its     *)
(* subclasses).  A container proxy reads and writes the characteristic, a  *)
(* konstant proxy answers with a fixed condition, and a virtual proxy puts *)
(* a condition together from bits of such proxies.                         *)
(*                                                                         *)
(* A condition of n bits (condition.h) is the set of the bits of its       *)
(* number: v of the first and w of the second message is bit               *)
(* w * 2^n + v.  A condition is possible as long as it is not empty.       *)
(***************************************************************************)
EXTENDS Integers, SequencesExt

AllOf(n) == 0..(4 ^ n - 1)

\* Bits start, ..., start + m - 1 of both values.
Part(n, x, start, m) ==
    LET Cut(v) == (v \div 2 ^ start) % 2 ^ m
    IN  Cut(x \div 2 ^ n) * 2 ^ m + Cut(x % 2 ^ n)

\* GetBit0, GetBits12 and the like.
GetBits(n, c, start, m) == {Part(n, x, start, m) : x \in c}

\* MergeBit0, MergeBits12 and the like: what d says of these bits holds as well.
MergeBits(n, c, start, m, d) == {x \in c : Part(n, x, start, m) \in d}

-----------------------------------------------------------------------------
(* Proxies.  mask is the bit of a word that the proxy stands for.          *)

Konstant(n, c) == [kind |-> "Konstant", bits |-> n, cond |-> c]

\* The links of a container are read only when a reference to it is made.
Container(n, mask, pos, links) ==
    [kind |-> "Container", bits |-> n, mask |-> mask, pos |-> pos, links |-> links]

MaskProxy(n, mask, links) ==
    [kind |-> "Mask", bits |-> n, mask |-> mask, links |-> links]

Virtual(n, links) == [kind |-> "Virtual", bits |-> n, links |-> links]

\* num bits of a proxy, from startLcp on, are the bits from startVcp on.
Link(num, startVcp, lcp, startLcp) ==
    [num |-> num, startVcp |-> startVcp, lcp |-> lcp, startLcp |-> startLcp]

IsMaskConditionProxy(p) == p.kind \in {"Container", "Mask"}

\* The containers behind a proxy.
Containers(p) ==
    CASE p.kind = "Konstant"  -> {}
      [] p.kind = "Container" -> {p.pos}
      [] OTHER -> {x.lcp.pos : x \in {y \in ToSet(p.links) : y.lcp.kind = "Container"}}

\* The links that num bits of p, from start on, are made of.
LinksOf(p, num, start) ==
    LET Clipped(x) ==
            LET from == IF x.startVcp > start THEN x.startVcp ELSE start
                to   == IF x.startVcp + x.num < start + num
                        THEN x.startVcp + x.num ELSE start + num
            IN  Link(to - from, from, x.lcp, x.startLcp + from - x.startVcp)
    IN  IF p.kind = "Konstant" THEN <<>>
        ELSE SelectSeq([k \in DOMAIN p.links |-> Clipped(p.links[k])],
                       LAMBDA x : x.num > 0)

-----------------------------------------------------------------------------
(* ch.cond has the conditions of the containers of one to three bits, word *)
(* by word, ch.updates the slices of steps that have to be updated,        *)
(* ch.twobit those whose relations of two bits may have changed; touches   *)
(* gives the updates a container causes.                                   *)

ConditionAt(ch, pos) == ch.cond[pos[1]][pos[2] + 1][pos[3]]

WithConditionAt(ch, pos, c) == [ch EXCEPT !.cond[pos[1]][pos[2] + 1][pos[3]] = c]

GetPart(ch, lcp, start, m) ==
    GetBits(lcp.bits, IF lcp.kind = "Container" THEN ConditionAt(ch, lcp.pos) ELSE lcp.cond,
            start, m)

GetVirtualCondition(ch, p) ==
    FoldLeft(LAMBDA c, x : MergeBits(p.bits, c, x.startVcp, x.num,
                                     GetPart(ch, x.lcp, x.startLcp, x.num)),
             AllOf(p.bits), p.links)

GetCondition(ch, p) ==
    CASE p.kind = "Konstant"  -> p.cond
      [] p.kind = "Container" -> ConditionAt(ch, p.pos)
      [] OTHER                -> GetVirtualCondition(ch, p)

Touch(touches, ch, p) ==
    LET slices == UNION {touches[pos] : pos \in Containers(p)}
    IN  [ch EXCEPT !.updates = @ \cup slices,
                   !.twobit = @ \cup {<<u[2], u[3]>> : u \in slices}]

\* A slip: no step hears of the new condition of a container.
Store_Silent(touches, ch, p, c) == WithConditionAt(ch, p.pos, c)

Store(touches, ch, p, c) ==
    IF ConditionAt(ch, p.pos) = c THEN ch
    ELSE WithConditionAt(Touch(touches, ch, p), p.pos, c)

\* A slip: bits of a wider container lose what it knows of the others.
SetPart_Replaced(touches, ch, lcp, start, m, d) ==
    LET c == MergeBits(lcp.bits, AllOf(lcp.bits), start, m, d)
    IN  [ch |-> Store(touches, ch, lcp, c), ok |-> c # {}]

\* SetCondition1, SetCondition2, SetCondition3 of a container or konstant proxy.
SetPart(touches, ch, lcp, start, m, d) ==
    IF lcp.kind = "Konstant"
    THEN [ch |-> ch, ok |-> GetBits(lcp.bits, lcp.cond, start, m) \cap d # {}]
    ELSE LET c == IF m = lcp.bits THEN d
                  ELSE MergeBits(lcp.bits, ConditionAt(ch, lcp.pos), start, m, d)
         IN  [ch |-> Store(touches, ch, lcp, c), ok |-> c # {}]

\* Three bits answer for their last link only.
SetVirtualCondition(touches, ch, p, c) ==
    LET SetLink(s, x) ==
            LET r == SetPart(touches, s.ch, x.lcp, x.startLcp, x.num,
                             GetBits(p.bits, c, x.startVcp, x.num))
            IN  [ch |-> r.ch, ok |-> (s.ok \/ p.bits = 3) /\ r.ok]
    IN  FoldLeft(SetLink, [ch |-> ch, ok |-> TRUE], p.links)

\* The new characteristic, and whether the condition is possible there.
SetCondition(touches, ch, p, c) ==
    CASE p.kind = "Konstant"  -> [ch |-> ch, ok |-> c \subseteq p.cond]
      [] p.kind = "Container" -> [ch |-> Store(touches, ch, p, c),
                                  ok |-> ConditionAt(ch, p.pos) = c \/ c # {}]
      [] OTHER                -> SetVirtualCondition(touches, ch, p, c)

=============================================================================
