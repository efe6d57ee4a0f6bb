------------------------ MODULE PropagationProperties ------------------------
(***************************************************************************)
(* What propagation and the sharing of matrices are to guarantee.          *)
(***************************************************************************)
EXTENDS Propagation

Running == pc \in {"update", "equations", "gauss"}

\* The values that the conditions c allow for the bits of a step, in their order.
Assignment(step, c) ==
    {t \in [DOMAIN step.bits -> UNION {c[b] : b \in Range(step.bits)}] :
        \A k \in DOMAIN t : t[k] \in c[step.bits[k]]}

\* The values t gives the bits.
ValuesOf(step, t) ==
    [b \in Range(step.bits) |-> t[CHOOSE k \in DOMAIN t : step.bits[k] = b]]

\* The columns whose variable is 1.
Ones(t) ==
    {2 * (k - 1) : k \in {j \in DOMAIN t : ValueOne(t[j])}} \cup
    {2 * (k - 1) + 1 : k \in {j \in DOMAIN t : ValueTwo(t[j])}}

Odd(S) == Cardinality(S) % 2 = 1

\* t satisfies the rows of m.
InMatrix(m, t) ==
    \A r \in Rows(m) : Odd(Content(m, r) \cap Ones(t)) = (RHS(m) \in Content(m, r))

(***************************************************************************)
(* Together with the conditions c the matrices say what the functions of   *)
(* the steps say.  (Alone they do not: an equation of a condition is used  *)
(* to eliminate a column and is not kept.)                                 *)
(***************************************************************************)
Faithful(matrices, c) ==
    \A s \in LinearSteps : \A t \in Assignment(StepList[s], c) :
        InMatrix(matrices[s], t) <=> ValuesOf(StepList[s], t) \in StepList[s].relation

-----------------------------------------------------------------------------
Names == {"none", "all", "first", "second", "evaluate", "try one", "try two", "keep", "back"}

MatrixType(m, s) ==
    LET rows    == 0..(2 * StepList[s].outputs - 1)
        columns == 2 * Len(StepList[s].bits)
    IN  /\ m.columns = columns
        /\ m.data \in [rows -> SUBSET (0..columns)]
        /\ m.row \in [rows -> [index : rows, pivot : 0..(columns + 1)]]
        /\ m.rowinv \in [rows -> rows]
        /\ \A k \in DOMAIN m.changes : m.changes[k].kind \in {"row", "row to row", "sort"}
        /\ m.extract \subseteq rows
        /\ m.updateRows \subseteq rows /\ m.updatePivot \subseteq rows

\* Every variable has its type.
TypeOK ==
    /\ cond \in [Owner -> [Bit -> Condition]]
    /\ list \in [Owner -> SUBSET Entries]
    /\ at \in [Owner -> Cell]
    /\ DOMAIN heap = Cell
    /\ \A c \in Cell : 
          DOMAIN heap[c] = LinearSteps /\ \A s \in LinearSteps : MatrixType(heap[c][s], s)
    /\ pc \in {"update", "equations", "gauss", "held", "refused", "ready", "lost"}
    /\ call.name \in Names /\ call.who \in Owner /\ call.log \in BOOLEAN
    /\ call.cond \in [Bit -> Condition]
    /\ guess.bit \in Bit \cup {"none"} /\ guess.choices \in Condition \X Condition
    /\ results \in BOOLEAN
    /\ Len(equations) <= 2

-----------------------------------------------------------------------------
(* Matrices *)

(***************************************************************************)
(* At every step of an Update, and whenever the search goes on, the        *)
(* matrices a characteristic works with fit its conditions, although they  *)
(* were shared, changed for a guess and changed back, or copied.           *)
(***************************************************************************)
MatricesFaithful ==
    /\ Running => Faithful(heap[at[who]], cond[who])
    /\ pc = "ready" => Faithful(heap[at["char"]], cond["char"])
    /\ Faithful(heap[at["kept"]], cond["kept"])

\* A guess is tried on one of the two characteristics that share matrices.
Trying ==
    call.name \in {"first", "evaluate", "try one", "try two"} /\ pc \notin {"ready", "lost"}

Untouched == IF who = "char" THEN "tmp" ELSE "char"

(***************************************************************************)
(* Wherever an Update that tries a guess stops, Undo makes of the shared   *)
(* matrices what the other characteristic needs: reduced matrices that fit *)
(* its conditions, which know nothing of the guess.                        *)
(***************************************************************************)
UndoRestores ==
    Trying =>
        LET undone == EachMatrix(heap[at[who]], Undo)
        IN  /\ Faithful(undone, cond[Untouched])
            /\ \A s \in LinearSteps : IsReducedRowEchelon(undone[s])

(***************************************************************************)
(* The assertions of DEBUG_LINEARMATRIX: before and after every equation   *)
(* the matrix is in reduced row echelon form.  So are the data that speak  *)
(* of it: stored pivots and positions are right, no row waits.             *)
(***************************************************************************)
MatrixIsReduced ==
    pc \in {"equations", "ready"} =>
        \A s \in LinearSteps :
            LET m == heap[at[who]][s]
            IN  /\ IsReducedRowEchelon(m)
                /\ \A r \in Rows(m) : Pivot(m, r) = ComputePivot(m, Content(m, r))
                /\ m.rowinv = Positions(m.row)
                /\ m.updateRows = {} /\ m.updatePivot = {}

-----------------------------------------------------------------------------
(* Propagation *)

(***************************************************************************)
(* What Update reaches, one entry of the worklist after the other and with *)
(* matrices that other characteristics have used, is what the conditions   *)
(* and the relations alone determine: the closure that module Search       *)
(* takes Update for.  (For starts from which all conditions are linear.)   *)
(***************************************************************************)
UpdateIsClosure ==
    LET closure == Update(call.cond)
    IN  /\ pc = "held" => cond[who] = closure
        /\ pc = "refused" => Contradictory(closure)

(***************************************************************************)
(* "Should never fail!" (characteristic.cpp): Complete keeps a choice that *)
(* it has tried before on the other characteristic.                        *)
(***************************************************************************)
KeepNeverFails == call.name = "keep" => pc # "refused"

(***************************************************************************)
(* The worklist is emptied, although steps put entries back, also their    *)
(* own.                                                                    *)
(***************************************************************************)
UpdateEnds == Running ~> ~ Running

=============================================================================
