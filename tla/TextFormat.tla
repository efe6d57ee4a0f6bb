----------------------------- MODULE TextFormat -----------------------------
(***************************************************************************)
(* Characteristics as text (text_io_format.h): a matrix of words, which    *)
(* words of it are written, and which are read from a text.                *)
(*                                                                         *)
(* A text is the sequence of what stands behind each delimiter: the        *)
(* conditions of one word, the highest bit first.  Names, numbers of       *)
(* steps, two-bit degrees, probabilities and colours are left out, and a   *)
(* condition stands for its character.                                     *)
(***************************************************************************)
EXTENDS Cryptos

NoWord == -1

Padded(row, cols) == row \o [k \in 1..(cols - Len(row)) |-> NoWord]

\* Rows and columns are added when they are needed; both are counted from 0.
SetStep(matrix, row, col, word) ==
    LET cols == IF matrix = <<>> THEN col + 1 ELSE Max({Len(matrix[1]), col + 1})
        Row(r) == Padded(IF r \in DOMAIN matrix THEN matrix[r] ELSE <<>>, cols)
    IN  [[r \in 1..Max({Len(matrix), row + 1}) |-> Row(r)] EXCEPT ![row + 1][col + 1] = word]

\* The words of a crypto are added one by one, those of a layout with their row and column.
Matrix(layout) ==
    FoldLeft(LAMBDA matrix, x : SetStep(matrix, x[1], x[2], x[3]), <<>>, layout)

Type(c, word) == c.words[word + 1].type

\* Carries and constants are neither written nor read.
NeverRead == {"CARRYWORD", "CONSTANTWORD"}

-----------------------------------------------------------------------------
(* Which words *)

IsEmptyRow(c, row, onlyMain) ==
    LET types == {Type(c, word) : word \in ToSet(row) \ {NoWord}}
    IN  types \cap NeverRead # {} \/ (onlyMain /\ "MAINWORD" \notin types)

\* A slip: rows are counted that are gone when the next ones are erased.
NextRow_Counted(isEmpty, i) == i + 1

NextRow(isEmpty, i) == IF isEmpty THEN i ELSE i + 1

\* Rows are erased one after the other.
FilterForMainSteps(c, matrix, onlyMain) ==
    LET Look(r, row) ==
            LET isEmpty == IsEmptyRow(c, row, onlyMain)
            IN  [i |-> NextRow(isEmpty, r.i),
                 del |-> IF isEmpty THEN Append(r.del, r.i) ELSE r.del]
    IN  FoldLeft(RemoveAt, matrix, FoldLeft(Look, [i |-> 1, del |-> <<>>], matrix).del)

\* Row by row.
Words(matrix) == SelectSeq(FlattenSeq(matrix), LAMBDA word : word # NoWord)

WordsToRead(c, matrix, onlyMain) ==
    SelectSeq(Words(FilterForMainSteps(c, matrix, onlyMain)),
              LAMBDA word : /\ onlyMain => Type(c, word) = "MAINWORD"
                            /\ Type(c, word) \notin NeverRead)

\* With the flags of SetPrintOnlyMainSteps, or those of SetPrintMainAndSubSteps.
WordsToWrite(c, matrix, onlyMain) ==
    SelectSeq(Words(matrix),
              LAMBDA word : \/ Type(c, word) = "MAINWORD"
                            \/ Type(c, word) = "SUBWORD" /\ ~onlyMain)

-----------------------------------------------------------------------------
(* The text *)

\* Conditions of the bits of a word, given by bit.
InText(c, conds) == [n \in 1..c.size |-> conds[c.size - n]]

WriteCharacteristic(c, matrix, onlyMain, s) ==
    LET Line(word) ==
            InText(c, [b \in WordBits(c) |->
                          GetCondition(s, GetConditionProxy(c, <<word, b>>))])
        words == WordsToWrite(c, matrix, onlyMain)
    IN  [k \in DOMAIN words |-> Line(words[k])]

\* Words of more than one bit are passed over; what a condition that is impossible returns is
\* not asked.  A text that is too short ends it.
ReadCharacteristic(touches, c, matrix, onlyMain, s, text) ==
    LET words == WordsToRead(c, matrix, onlyMain)
        ReadBit(t, k, n) ==
            LET proxy == GetConditionProxy(c, <<words[k], c.size - n>>)
            IN  IF proxy.bits = 1 THEN SetCondition(touches, t, proxy, text[k][n]).ch ELSE t
        ReadWord(r, k) ==
            IF r.ok /\ k <= Len(text)
            THEN [r EXCEPT !.ch = FoldLeft(LAMBDA t, n : ReadBit(t, k, n), @,
                                           [n \in 1..c.size |-> n])]
            ELSE [r EXCEPT !.ok = FALSE]
    IN  FoldLeft(ReadWord, [ch |-> s, ok |-> TRUE], [k \in DOMAIN words |-> k])

=============================================================================
