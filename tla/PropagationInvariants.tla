------------------------ MODULE PropagationInvariants ------------------------
(***************************************************************************)
(* The inductive invariant of propagation with linear steps, part by part. *)
(***************************************************************************)
EXTENDS PropagationProperties

\* Rows 0..(n - 1), columns 0..c, the last of them the right-hand side.
MatrixRow(n, c) == [index : 0..(n - 1), pivot : 0..(c + 1)]

Moved(n, c) == UNION {[S -> MatrixRow(n, c)] : S \in SUBSET (0..(n - 1))}

Change(n, c) ==
    [kind : {"row"}, row : 0..(n - 1), equation : (SUBSET (0..c)) \ {{}}] \cup
    [kind : {"row to row"}, row : 0..(n - 1), by : 0..(n - 1)] \cup
    [kind : {"sort"}, out : Moved(n, c), in : Moved(n, c)]

MatrixSet(n, c) ==
    [columns     : {c},
     data        : [0..(n - 1) -> SUBSET (0..c)],
     row         : [0..(n - 1) -> MatrixRow(n, c)],
     rowinv      : [0..(n - 1) -> 0..(n - 1)],
     changes     : Seq(Change(n, c)),
     extract     : SUBSET (0..(n - 1)),
     updateRows  : SUBSET (0..(n - 1)),
     updatePivot : SUBSET (0..(n - 1))]

\* The rows are the data in some order; what is stored of them is right.
Shaped(m, n, c) ==
    /\ m \in MatrixSet(n, c)
    /\ \A q, r \in Rows(m) : m.row[q].index = m.row[r].index => q = r
    /\ \A i \in DOMAIN m.data : \E r \in Rows(m) : m.row[r].index = i
    /\ \A r \in Rows(m) : Pivot(m, r) = ComputePivot(m, Content(m, r))
    /\ m.rowinv = Positions(m.row)

\* The same equations in the same order.
Same(a, b) == a.columns = b.columns /\ a.data = b.data /\ a.row = b.row /\ a.rowinv = b.rowinv

\* Every change that is logged can be taken back.
Undoable(m, n, c) == \A k \in 0..Len(m.changes) : Shaped(Undone(m)[k], n, c)

-----------------------------------------------------------------------------
(* What a matrix says *)

\* The variables in O are 1: do they solve equation E, the rows of m?
Solves(O, E, c) == Odd(E \cap O) = (c \in E)

SolvesRows(O, m) == \A r \in Rows(m) : Solves(O, Content(m, r), RHS(m))

\* An equation of the bit at pos.
OneBit(E, pos, c) ==
    /\ E \in (SUBSET {2 * pos, 2 * pos + 1, c}) \ {{}}
    /\ E \cap {2 * pos, 2 * pos + 1} # {}

RowCount(s) == 2 * StepList[s].outputs

ColumnCount(s) == 2 * Len(StepList[s].bits)

\* What equations can say of a condition: nothing of one that lacks just one pair.
Hull(bc) == IF \E v \in Pair : bc = Pair \ {v} THEN Pair ELSE bc

Hulls(c) == [b \in Bit |-> Hull(c[b])]

\* The sets of variables that are 1 in an assignment that the conditions allow, as far as
\* equations can say.
Allowed(s, c) == {Ones(t) : t \in Assignment(StepList[s], Hulls(c))}

\* Matrices that fit not only the conditions, but all that their equations allow.
Exact(f, c) == Faithful(f, Hulls(c))

-----------------------------------------------------------------------------
(* The inductive invariant *)

\* The matrices of the linear steps.
StepMatrices ==
    {f \in [LinearSteps -> UNION {MatrixSet(RowCount(s), ColumnCount(s)) : s \in LinearSteps}] :
        \A s \in LinearSteps : Shaped(f[s], RowCount(s), ColumnCount(s))}

\* Every log can be taken back.
AllUndoable(f) == \A s \in LinearSteps : Undoable(f[s], RowCount(s), ColumnCount(s))

UndoAll(f) == [s \in LinearSteps |-> Undo(f[s])]

Typed ==
    /\ cond \in [Owner -> [Bit -> Condition]]
    /\ list \in [Owner -> SUBSET Entries]
    /\ at \in [Owner -> Cell]
    /\ heap \in [Cell -> StepMatrices]
    /\ pc \in {"update", "equations", "gauss", "held", "refused", "ready", "lost"}
    /\ call \in [name : Names, who : Owner, log : BOOLEAN, cond : [Bit -> Condition]]
    /\ guess \in [bit : Bit \cup {"none"}, choices : Condition \X Condition]
    /\ results \in BOOLEAN
    /\ equations \in Seq(SUBSET Nat) /\ Len(equations) <= 2

\* The characteristic of each call, and the one it shares matrices with.
Called ==
    /\ pc \in {"ready", "lost"} <=> call.name = "none"
    /\ who = IF call.name \in {"second", "try one", "try two"} THEN "tmp" ELSE "char"
    /\ at["kept"] # at["char"] /\ at["kept"] # at["tmp"]
    /\ Trying => at["char"] = at["tmp"] /\ call.log

\* The choices that are still to be tried narrow a condition.
Narrows ==
    /\ call.name = "first" => /\ guess.bit \in Bit
                              /\ guess.choices[2] \subseteq cond["tmp"][guess.bit]
    /\ call.name \in {"try one", "try two"} =>
          /\ guess.bit \in Bit
          /\ \A i \in {1, 2} : guess.choices[i] \subseteq cond["char"][guess.bit]

\* What waits to be added holds for the values that the conditions allow.
EquationsHold ==
    IF pc \in {"equations", "gauss"}
    THEN /\ list[who] # {} /\ Entry[1] \in LinearSteps
         /\ \A k \in DOMAIN equations :
               LET c == ColumnCount(Entry[1])
               IN  /\ equations[k] \in (SUBSET (0..c)) \ {{}} /\ OneBit(equations[k], Entry[2], c)
                   /\ \A O \in Allowed(Entry[1], cond[who]) : Solves(O, equations[k], c)
    ELSE equations = <<>>

\* The log of a guess can be taken back, to matrices that fit the other characteristic.
UndoFaithful ==
    Trying => /\ AllUndoable(heap[at[who]])
              /\ Exact(UndoAll(heap[at[who]]), cond[Untouched])

MatricesHold ==
    /\ Exact(heap[at["kept"]], cond["kept"])
    /\ pc # "lost" => Exact(heap[at[who]], cond[who])
    /\ UndoFaithful

PropInv == Typed /\ Called /\ Narrows /\ EquationsHold /\ MatricesHold

-----------------------------------------------------------------------------
(* The reduced form *)

\* The pivots of the rows in R are in no other row, and none of them is the right-hand side.
Eliminated(m, R) ==
    \A r \in R : ~ IsZeroRow(m, r) =>
        /\ ~ IsContradiction(m, r)
        /\ \A q \in Rows(m) : q # r => Pivot(m, r) \notin Content(m, q)

\* The rows in R are in the order of their pivots.
SortedOn(m, R) == \A q, r \in R : q < r => Pivot(m, q) <= Pivot(m, r)

\* In reduced form, but for the rows that are marked.
Pending(m) == Eliminated(m, Rows(m) \ m.updateRows) /\ SortedOn(m, Rows(m) \ m.updatePivot)

Settled(m) == Pending(m) /\ m.updateRows = {} /\ m.updatePivot = {}

AllSettled(f) == \A s \in LinearSteps : Settled(f[s])

\* The matrices of a characteristic are settled, but for those of the steps in S.
Reducing(f, S) == \A s \in LinearSteps : IF s \in S THEN Pending(f[s]) ELSE Settled(f[s])

\* The step whose matrix is being eliminated.
Eliminating == IF pc = "gauss" THEN {Entry[1]} ELSE {}

(***************************************************************************)
(* The matrices of the characteristic that is worked with and of the one   *)
(* that is kept are settled, and so are those that a guess leads back to.  *)
(***************************************************************************)
ReducedInv ==
    /\ AllSettled(heap[at["kept"]])
    /\ pc \notin {"refused", "lost"} => Reducing(heap[at[who]], Eliminating)
    /\ Trying => AllSettled(UndoAll(heap[at[who]]))

-----------------------------------------------------------------------------
(* What Update reaches *)

\* A condition that has equations, or none to add, or no value: it does not lack just one pair.
IsLinear(bc) == \A v \in Pair : bc # Pair \ {v}

ConditionsAreLinear ==
    \A x \in Owner : \A s \in LinearSteps : \A b \in BitsOf(StepList[s]) : IsLinear(cond[x][b])

\* It follows if no bit of a linear step starts with more than two pairs.
StartIsLinear ==
    \A s \in LinearSteps : \A b \in BitsOf(StepList[s]) :
        \A v \in Pair : ~ (Pair \ {v} \subseteq Start[b])

\* The columns that occur in a matrix.
Columns(m) == UNION {m.data[i] : i \in DOMAIN m.data}

ConditionAt(s, p, c) == c[StepList[s].bits[p + 1]]

EquationsAt(s, p, c) == LinearConditions(ConditionAt(s, p, c), p, ColumnCount(s))

\* The conditions at the positions P have been added: the columns they eliminate do not occur.
Entered(m, s, P, c) ==
    \A p \in P : \A k \in DOMAIN EquationsAt(s, p, c) :
        Min(EquationsAt(s, p, c)[k]) \notin Columns(m)

\* What an equation says if it has only columns of one bit, the condition of the bit says, too.
Known(E, s, c) ==
    \A p \in Places(s) : E \subseteq {2 * p, 2 * p + 1, ColumnCount(s)} =>
        \A v \in ConditionAt(s, p, c) : Satisfies(v, E, p, ColumnCount(s))

\* So for the rows in I, and for the sums of two of them.
RowsKnown(m, s, I, c) ==
    \A i, j \in I : Known(m.data[i], s, c) /\ Known(SymDiff(m.data[i], m.data[j]), s, c)

\* The positions of a step that are not in the worklist.
Through(s, l) == {p \in Places(s) : <<s, p>> \notin l}

\* What a linear step has still to do, and to look at, is in the worklist and marked.
LinearWaits(m, s, l, c) ==
    /\ Entered(m, s, Through(s, l), c)
    /\ RowsKnown(m, s, IF Through(s, l) = Places(s) THEN DOMAIN m.data
                       ELSE DOMAIN m.data \ m.extract, c)

BitsliceWaits(s, l, c) == <<s, 0>> \notin l => Computed(StepList[s], c) = c

\* So for all steps: what is not in the worklist leaves the conditions as they are.
WorkWaits(f, l, c) ==
    \A s \in DOMAIN StepList :
        IF s \in LinearSteps THEN LinearWaits(f[s], s, l, c) ELSE BitsliceWaits(s, l, c)

\* A step and the bits it relates, as module Characteristics has them.
AsBitslice(s) == [bits |-> BitsOf(StepList[s]), relation |-> StepList[s].relation]

\* A linear step sees of the conditions what equations can say of them.
AsSeen(s, c) == IF s \in LinearSteps THEN Hulls(c) ELSE c

\* No step narrows c, as far as it sees the conditions.
Closed(c) ==
    \A s \in DOMAIN StepList : \A b \in BitsOf(StepList[s]) :
        c[b] \subseteq {t[b] : t \in Combinations(AsBitslice(s), AsSeen(s, c))}

ClosedOnes == {c \in Characteristic : Closed(c)}

(***************************************************************************)
(* What Update reaches, in whatever order: the largest characteristic      *)
(* below the given one that no step narrows.  It is the closure of module  *)
(* Characteristics if no condition of a linear step lacks just one pair.   *)
(***************************************************************************)
Reaching ==
    [c \in Characteristic |->
        LET below == {d \in ClosedOnes : Below(d, c)}
        IN  [b \in Bit |-> UNION {d[b] : d \in below}]]

Reached(c) == Reaching[c]

\* A characteristic that Update has left: nothing waits, nothing is left to narrow.
Updated(f, l, c) ==
    /\ l = {} /\ Closed(c) /\ ~ Contradictory(c)
    /\ \A s \in LinearSteps : Entered(f[s], s, Places(s), c)

\* The equations of the first entry that are added are eliminated.
EquationsEntered ==
    pc \in {"equations", "gauss"} =>
        LET q == EquationsAt(Entry[1], Entry[2], cond[who])
        IN  \E k \in 0..Len(q) : /\ equations = SubSeq(q, k + 1, Len(q))
                                 /\ \A j \in 1..k : Min(q[j]) \notin Columns(Matrix)

\* What is to be reached is never taken away; only what leads to no values is refused.
ClosureStays ==
    /\ pc \notin {"ready", "lost"} => /\ Below(Reached(call.cond), cond[who])
                                      /\ Below(cond[who], call.cond)
    /\ pc = "refused" => Contradictory(Reached(call.cond))

\* The condition of the bit that is tried, in the characteristic a trial starts from.
Trial(x, i) == SetBitCondition(cond[x], guess.bit, guess.choices[i])

\* Update ends with what is to be reached, or refuses what leads to no values.
UpdateIsReached ==
    /\ pc = "held" => cond[who] = Reached(call.cond)
    /\ pc = "refused" => Contradictory(Reached(call.cond))

\* Choices have values; what is known of the trials of Complete.
TrialsMean ==
    /\ call.name = "first" => guess.choices[2] # {}
    /\ call.name \in {"try one", "try two"} =>
          guess.choices[1] # {} /\ guess.choices[2] # {}
    /\ call.name = "try one" => call.cond = Trial("char", 1)
    /\ call.name = "try two" => /\ call.cond = Trial("char", 2)
                                /\ results => ~ Contradictory(Reached(Trial("char", 1)))
    /\ call.name = "keep" => ~ Contradictory(Reached(call.cond))

ClosureInv ==
    /\ cond \in [Owner -> Characteristic] /\ call.cond \in Characteristic
    /\ call.name # "all" => Updated(heap[at["kept"]], list["kept"], cond["kept"])
    /\ pc = "ready" => Updated(heap[at["char"]], list["char"], cond["char"])
    /\ Trying => Updated(UndoAll(heap[at[who]]), list[Untouched], cond[Untouched])
    /\ Running \/ pc = "held" => /\ WorkWaits(heap[at[who]], list[who], cond[who])
                                 /\ ~ Contradictory(cond[who])
    /\ pc = "held" => list[who] = {}
    /\ EquationsEntered /\ ClosureStays /\ TrialsMean

(***************************************************************************)
(* The inductive invariant of propagation: matrices that fit and can be    *)
(* undone, in reduced form, and work that waits in the worklist.           *)
(***************************************************************************)
PropagationInv == PropInv /\ ReducedInv /\ ClosureInv

=============================================================================
