---------------------------- MODULE LinearMatrix ----------------------------
(***************************************************************************)
(* The matrix of a linear step (src/src/linear_matrix.{h,cpp},             *)
(* bit_matrix.{h,cpp}, change.{h,cpp}): linear equations over GF(2), kept  *)
(* in reduced row echelon form, with a log of the changes to take back.    *)
(*                                                                         *)
(* An equation is the set of the columns with a coefficient of 1; the last *)
(* column is its right-hand side.  Rows stay where they are in data; what  *)
(* is sorted is row, which names for every position the data and its first *)
(* column, the pivot.                                                      *)
(***************************************************************************)
EXTENDS Integers, SequencesExt

RHS(m) == m.columns

NOPIVOT(m) == m.columns + 1

Rows(m) == DOMAIN m.row

Pivot(m, r) == m.row[r].pivot

Content(m, r) == m.data[m.row[r].index]

\* A slip: a row without columns has a pivot behind the padding.
ComputePivot_Behind(m, equation) ==
    IF equation = {} THEN NOPIVOT(m) + 1 ELSE Min(equation)

ComputePivot(m, equation) == IF equation = {} THEN NOPIVOT(m) ELSE Min(equation)

IsContradiction(m, r) == Pivot(m, r) = RHS(m)

IsZeroRow(m, r) == Pivot(m, r) = NOPIVOT(m)

\* Of row_, as rowinv_ keeps it: the position of every row of data.
Positions(row) == [i \in DOMAIN row |-> CHOOSE r \in DOMAIN row : row[r].index = i]

(***************************************************************************)
(* The equations output + f(inputs) = 0, for the first and the second      *)
(* message: columns 2k and 2k + 1 belong to the bit at position k, outputs *)
(* before inputs; depends[k] are the inputs of output k.  All rows are to  *)
(* be looked at.                                                           *)
(***************************************************************************)
InitialMatrix(inputs, outputs, depends) ==
    LET rows == 0..(2 * outputs - 1)
    IN  [columns     |-> 2 * (inputs + outputs),
         data        |-> [r \in rows |->
                             {r} \cup {2 * (outputs + i) + (r % 2) : i \in depends[r \div 2]}],
         row         |-> [r \in rows |-> [index |-> r, pivot |-> r]],
         rowinv      |-> [r \in rows |-> r],
         changes     |-> <<>>,
         extract     |-> rows,
         updateRows  |-> {},
         updatePivot |-> {}]

-----------------------------------------------------------------------------
\* A slip: the row is not marked as one to look at.
XorInto_Unseen(m, r, equation, first) ==
    LET sum == SymDiff(Content(m, r), equation)
    IN  [m EXCEPT !.data[m.row[r].index] = sum,
                  !.row[r].pivot = IF Pivot(m, r) = first THEN ComputePivot(m, sum)
                                   ELSE Min({Pivot(m, r), first})]

(***************************************************************************)
(* Changes.  Adding an equation whose first column is known adjusts the    *)
(* stored pivot without a look at the row, unless the first columns meet.  *)
(***************************************************************************)
XorInto(m, r, equation, first) ==
    LET sum == SymDiff(Content(m, r), equation)
        p   == Pivot(m, r)
    IN  [m EXCEPT
            !.data[m.row[r].index] = sum,
            !.extract = @ \cup {m.row[r].index},
            !.row[r].pivot = IF p < first THEN p
                             ELSE IF p = first THEN ComputePivot(m, sum) ELSE first]

\* The changes that are logged: an equation or another row is added to a row.
XorRow(r, equation) == [kind |-> "row", row |-> r, equation |-> equation]

XorRowtoRow(a, b) == [kind |-> "row to row", row |-> a, by |-> b]

\* Rows R are to be looked at by EpsilonGauss, and to be sorted.
Touch(m, R, pivotchanged) ==
    [m EXCEPT !.updateRows = @ \cup R,
              !.updatePivot = IF pivotchanged THEN @ \cup R ELSE @]

Before(S, r) == Cardinality({s \in S : s < r})

\* A slip: the positions of the rows are not kept.
ApplyPermutation_NoPositions(m, out, in) ==
    LET kept == Rows(m) \ DOMAIN out
    IN  [m EXCEPT !.row = [r \in Rows(m) |->
            IF r \in DOMAIN in THEN in[r]
            ELSE m.row[CHOOSE s \in kept :
                         Before(kept, s) = Before(Rows(m) \ DOMAIN in, r)]]]

(***************************************************************************)
(* Sorting.  The rows at the positions in DOMAIN out leave, those of in    *)
(* take their new positions, and the others keep their order.  A           *)
(* permutation is the pair of out and in, and is undone by exchanging them. *)
(***************************************************************************)
ApplyPermutation(m, out, in) ==
    LET kept == Rows(m) \ DOMAIN out
        row == [r \in Rows(m) |->
                   IF r \in DOMAIN in THEN in[r]
                   ELSE m.row[CHOOSE s \in kept :
                                Before(kept, s) = Before(Rows(m) \ DOMAIN in, r)]]
    IN  [m EXCEPT !.row = row, !.rowinv = Positions(row)]

SortChange(out, in) == [kind |-> "sort", out |-> out, in |-> in]

Apply(m, change) ==
    CASE change.kind = "row" ->
            XorInto(m, change.row, change.equation, Min(change.equation))
      [] change.kind = "row to row" ->
            XorInto(m, change.row, Content(m, change.by), Pivot(m, change.by))
      [] change.kind = "sort" -> ApplyPermutation(m, change.out, change.in)

Changed(m, change, log) ==
    LET n == Apply(m, change) IN IF log THEN [n EXCEPT !.changes = Append(@, change)] ELSE n

\* The changes are made one after the other, in the order of the rows or columns they are for.
InOrder(m, change, log) ==
    LET after[k \in 0..(m.columns + 1)] ==
            IF k = 0 THEN m
            ELSE IF k - 1 \in DOMAIN change THEN Changed(after[k - 1], change[k - 1], log)
            ELSE after[k - 1]
    IN  after[m.columns + 1]

(***************************************************************************)
(* The rows of updatePivot move behind all rows with a smaller pivot.      *)
(***************************************************************************)
SortedPosition(m, r) ==
    LET changed == m.updatePivot
    IN  Cardinality({s \in Rows(m) \ changed : Pivot(m, s) < Pivot(m, r)}) +
        Cardinality({s \in changed : \/ Pivot(m, s) < Pivot(m, r)
                                     \/ Pivot(m, s) = Pivot(m, r) /\ s < r})

SortByPivot(m, log) ==
    LET changed == m.updatePivot
        out == [r \in changed |-> m.row[r]]
        in  == [p \in {SortedPosition(m, r) : r \in changed} |->
                   m.row[CHOOSE r \in changed : SortedPosition(m, r) = p]]
    IN  [Changed(m, SortChange(out, in), log) EXCEPT !.updatePivot = {}]

-----------------------------------------------------------------------------
(***************************************************************************)
(* Adding an equation.  It eliminates its first column: if that is a       *)
(* pivot, the row becomes its sum with the equation; if not, the equation  *)
(* is added to every row that has the column.  The equation itself is not  *)
(* stored: it says what the condition of a bit says.  The pivots in the    *)
(* rest of the equation are eliminated again, at once or by EpsilonGauss.  *)
(***************************************************************************)
GetPivotUpperBound(m, column) == Cardinality({r \in Rows(m) : Pivot(m, r) <= column})

\* The row that has the column as its pivot, if there is one.
RowOf(m, column) == GetPivotUpperBound(m, column) - 1

HasPivot(m, column) == RowOf(m, column) >= 0 /\ Pivot(m, RowOf(m, column)) = column

\* The first column of the equation is the pivot of a row.
ReplaceRow(m, row, equation, log) ==
    LET sum   == Changed(m, XorRow(row, equation), log)
        again == {c \in equation \ {Min(equation)} : HasPivot(sum, c) /\ RowOf(sum, c) # row}
    IN  Touch(InOrder(sum, [c \in again |-> XorRowtoRow(row, RowOf(sum, c))], log), {row}, TRUE)

\* It is not.  Rows behind the bound do not have the column.
Substitute(m, bound, equation, log) ==
    LET first == Min(equation)
        rows  == {r \in 0..bound : first \in Content(m, r)}
        sums  == InOrder(m, [r \in rows |-> XorRow(r, equation)], log)
    IN  Touch(sums, {RowOf(sums, c) : c \in {d \in equation \ {first} : HasPivot(sums, d)}}, FALSE)

AddEquation(m, equation, log) ==
    LET first == Min(equation)
    IN  IF HasPivot(m, first) THEN ReplaceRow(m, RowOf(m, first), equation, log)
        ELSE Substitute(m, RowOf(m, first), equation, log)

(***************************************************************************)
(* One turn of EpsilonGauss: the pivot of a touched row leaves all other   *)
(* rows.  A row that keeps its right-hand side only says 0 = 1; the turn   *)
(* stops at the first one, and the matrix is left as it is then.           *)
(***************************************************************************)
Eliminable(m, row) ==
    IF IsContradiction(m, row) \/ IsZeroRow(m, row) THEN {}
    ELSE {r \in Rows(m) \ {row} : Pivot(m, row) \in Content(m, r)}

Broken(m, row) ==
    {r \in Eliminable(m, row) : SymDiff(Content(m, r), Content(m, row)) = {RHS(m)}}

\* The turn returns false.
Contradicts(m) ==
    LET row == Min(m.updateRows)
    IN  IsContradiction(m, row) \/ Broken(m, row) # {}

EpsilonGauss(m, log) ==
    LET row    == Min(m.updateRows)
        rows   == {r \in Eliminable(m, row) : \A b \in Broken(m, row) : r <= b}
        pivots == {r \in rows : Pivot(m, row) <= Pivot(m, r)}
    IN  Touch(InOrder([m EXCEPT !.updateRows = @ \ {row}],
                      [r \in rows |-> XorRowtoRow(r, row)], log), pivots, TRUE)

-----------------------------------------------------------------------------
(***************************************************************************)
(* The log.  Undo takes the changes back, last one first.  (What it took   *)
(* back is kept for UndoAndRestore, which has no caller.)                  *)
(***************************************************************************)
UndoChange(change, m) ==
    IF change.kind = "sort" THEN ApplyPermutation(m, change.in, change.out) ELSE Apply(m, change)

\* A slip: the changes are taken back in the order they were made.
Undo_InOrder(m) ==
    [FoldLeft(LAMBDA n, change : UndoChange(change, n), m, m.changes) EXCEPT
        !.changes = <<>>, !.updateRows = {}, !.updatePivot = {}]

\* The matrix with the first k changes, for each k.
Undone(m) ==
    LET undone[k \in 0..Len(m.changes)] ==
            IF k = Len(m.changes) THEN m ELSE UndoChange(m.changes[k + 1], undone[k + 1])
    IN  undone

\* A slip: rows that wait for elimination still do.
Undo_Waiting(m) == [Undone(m)[0] EXCEPT !.changes = <<>>]

Undo(m) == [Undone(m)[0] EXCEPT !.changes = <<>>, !.updateRows = {}, !.updatePivot = {}]

\* A slip: the log goes on.
FixChanges_Not(m) == m

FixChanges(m) == [m EXCEPT !.changes = <<>>]

\* A copy has a log of its own.
CopyOf(m) == [m EXCEPT !.changes = <<>>]

-----------------------------------------------------------------------------
\* IsReducedRowEchelon, which DEBUG_LINEARMATRIX asserts before and after an equation.
IsRowEchelon(m) == \A r, s \in Rows(m) : r < s => Pivot(m, r) <= Pivot(m, s)

IsReducedRowEchelon(m) ==
    /\ IsRowEchelon(m)
    /\ \A r \in Rows(m) : ~ IsZeroRow(m, r) =>
          \A s \in Rows(m) : s < r => Pivot(m, r) \notin Content(m, s)

=============================================================================
