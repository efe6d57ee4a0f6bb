----------------------------- MODULE Propagation -----------------------------
(***************************************************************************)
(* Characteristic::Update as its worklist runs it (src/src/                *)
(* characteristic.cpp), for bitslice and for linear steps, and the three   *)
(* callers that try a guess and take it back: Search::GuessBit,            *)
(* Search::EvaluatePos and Characteristic::Complete.  They work on two     *)
(* characteristics that share the matrices of the linear steps and keep    *)
(* conditions and worklist apart.                                          *)
(***************************************************************************)
EXTENDS Characteristics, LinearMatrix

CONSTANTS
    StepList, \* the steps, in the order of their priorities
    Keeping   \* whether characteristics reached by guesses are kept, too

\* The values of a bit in the two messages.
ValueOne(v) == v \in {"u", "1"}
ValueTwo(v) == v \in {"n", "1"}

(***************************************************************************)
(* A step has its bits and the relation between them.  The bits of a       *)
(* linear step are a sequence, outputs first, and the relation is that     *)
(* output k is the sum of the inputs in depends[k], in both messages.      *)
(***************************************************************************)
BitsliceStep(S, relation) == [kind |-> "bitslice", bits |-> S, relation |-> relation]

\* The outputs fit the inputs in a message whose bits with the value 1 are ones.
Fits(bits, outputs, depends, ones) ==
    \A k \in 0..(outputs - 1) :
        bits[k + 1] \in ones <=>
            Cardinality({i \in depends[k] : bits[outputs + i + 1] \in ones}) % 2 = 1

LinearStep(bits, outputs, depends) ==
    [kind |-> "linear", bits |-> bits,
     outputs |-> outputs, inputs |-> Len(bits) - outputs, depends |-> depends,
     relation |-> {t \in [Range(bits) -> Pair] :
                     /\ Fits(bits, outputs, depends, {b \in Range(bits) : ValueOne(t[b])})
                     /\ Fits(bits, outputs, depends, {b \in Range(bits) : ValueTwo(t[b])})}]

BitsOf(step) == IF step.kind = "linear" THEN Range(step.bits) ELSE step.bits

\* The steps of Characteristics, which only has the relations.
ASSUME StepListAssumption ==
    Steps = {[bits |-> BitsOf(s), relation |-> s.relation] : s \in Range(StepList)}

\* The bits of a linear step differ.
ASSUME LinearAssumption ==
    /\ StepList \in Seq(Range(StepList))
    /\ \A s \in Range(StepList) : s.kind = "linear" =>
          /\ s = LinearStep(s.bits, s.outputs, s.depends)
          /\ s.bits \in Seq(Bit) /\ IsInjective(s.bits)
          /\ s.outputs \in 1..Len(s.bits)
          /\ s.depends \in [0..(s.outputs - 1) -> SUBSET (0..(Len(s.bits) - s.outputs - 1))]

LinearSteps == {s \in DOMAIN StepList : StepList[s].kind = "linear"}

\* characteristic_, tmp_characteristic_ (and the tmp of Complete), and one that is kept
\* to go back to: start_characteristic_, or that of an element of the stack.
Owner == {"char", "tmp", "kept"}

Cell == 1..3

VARIABLES
    cond,       \* the conditions of each characteristic
    list,       \* step_update_list_ of each characteristic
    at,         \* where each characteristic has its matrices
    heap,       \* the matrices of the linear steps at each place
    pc,
    call,       \* the Update that runs: caller, characteristic, argument backtrack,
                \* and the conditions it was called with
    guess,      \* the bit that is tried and its two choices, in the order they are tried
    results,    \* in Complete, whether the first of them held
    equations   \* the equations AddLinearConditions has still to add

vars == <<cond, list, at, heap, pc, call, guess, results, equations>>

-----------------------------------------------------------------------------
(***************************************************************************)
(* The worklist: a set of pairs of a step and a position in it, ordered.   *)
(* A bitslice has one position; the bits of a linear step are numbered     *)
(* from 0.                                                                 *)
(***************************************************************************)
Places(s) == IF s \in LinearSteps THEN 0..(Len(StepList[s].bits) - 1) ELSE {0}

Entries == UNION {{s} \X Places(s) : s \in DOMAIN StepList}

StepsToUpdate(b) ==
    {e \in Entries : IF e[1] \in LinearSteps THEN StepList[e[1]].bits[e[2] + 1] = b
                     ELSE b \in StepList[e[1]].bits}

FirstEntry(updates) ==
    CHOOSE e \in updates : \A f \in updates : e[1] < f[1] \/ (e[1] = f[1] /\ e[2] <= f[2])

\* A slip: also those of a condition that stays the same.
Touched_Always(old, new) == UNION {StepsToUpdate(b) : b \in Bit}

\* SetCondition touches the steps of a condition that differs from the stored one.
Touched(old, new) == UNION {StepsToUpdate(b) : b \in {d \in Bit : old[d] # new[d]}}

who == call.who

Entry == FirstEntry(list[who])

\* The matrix that the first entry of the worklist speaks of.
Matrix == heap[at[who]][Entry[1]]

-----------------------------------------------------------------------------
\* BitsliceStep::Update: every bit keeps the values that occur in an allowed combination.
Computed(step, c) ==
    LET allowed == {t \in step.relation : \A b \in step.bits : t[b] \in c[b]}
    IN  [b \in Bit |-> IF b \in step.bits THEN {t[b] : t \in allowed} ELSE c[b]]

(***************************************************************************)
(* AddLinearConditions: the equations of a condition, none for one that is *)
(* not linear.  The column after the bit's two is the right-hand side.     *)
(***************************************************************************)
LinearConditions(bc, pos, rhs) ==
    LET x == 2 * pos
        y == 2 * pos + 1
        One(column, value) == {column} \cup (IF value THEN {rhs} ELSE {})
        Both(different) == {x, y} \cup (IF different THEN {rhs} ELSE {})
    IN  CASE bc = {"0"} -> <<One(x, FALSE), One(y, FALSE)>>
          [] bc = {"1"} -> <<One(x, TRUE), One(y, TRUE)>>
          [] bc = {"n"} -> <<One(x, FALSE), One(y, TRUE)>>
          [] bc = {"u"} -> <<One(x, TRUE), One(y, FALSE)>>
          [] bc = NoDifference -> <<Both(FALSE)>>
          [] bc = Difference -> <<Both(TRUE)>>
          [] bc = {"0", "u"} -> <<One(y, FALSE)>>
          [] bc = {"0", "n"} -> <<One(x, FALSE)>>
          [] bc = {"u", "1"} -> <<One(x, TRUE)>>
          [] bc = {"n", "1"} -> <<One(y, TRUE)>>
          [] OTHER -> <<>>

\* Whether a pair of values of the bit at pos satisfies an equation in its columns.
Satisfies(v, equation, pos, rhs) ==
    ((2 * pos \in equation /\ ValueOne(v)) # (2 * pos + 1 \in equation /\ ValueTwo(v)))
        = (rhs \in equation)

(***************************************************************************)
(* PropagateConditions: what the rows that were changed say of single      *)
(* bits.  A row that has only columns of the bit of its pivot is a         *)
(* condition of that bit, and so is the sum of the two rows that have a    *)
(* pivot in it, which are neighbours.                                      *)
(***************************************************************************)
Extracted(m, step, c) ==
    LET rows == {m.rowinv[i] : i \in m.extract}
        PivotBit(r) == Pivot(m, r) \div 2
        Neighbour(r) == IF Pivot(m, r) % 2 = 0 THEN r + 1 ELSE r - 1
        Pairs == {<<r, Neighbour(r)>> : r \in rows}
        Said ==  \* positions, and what is said of them
            {<<PivotBit(r), Content(m, r)>> : r \in {s \in rows : ~ IsZeroRow(m, s)}} \cup
            {<<PivotBit(p[1]), SymDiff(Content(m, p[1]), Content(m, p[2]))>> :
                p \in {q \in Pairs : /\ q[2] \in Rows(m)
                                     /\ ~ IsZeroRow(m, q[1])
                                     /\ PivotBit(q[1]) = PivotBit(q[2])}}
        Single == {x \in Said : x[2] \subseteq {2 * x[1], 2 * x[1] + 1, RHS(m)}}
        PosOf(b) == {p \in 0..(Len(step.bits) - 1) : step.bits[p + 1] = b}
    IN  [b \in Bit |->
            {v \in c[b] : \A x \in Single :
                x[1] \in PosOf(b) => Satisfies(v, x[2], x[1], RHS(m))}]

-----------------------------------------------------------------------------
(***************************************************************************)
(* The loop of Update.  An entry leaves the worklist after its step ran,   *)
(* also if the step has put it there again.                                *)
(***************************************************************************)
UpdateDone ==
    /\ pc = "update" /\ list[who] = {}
    /\ pc' = "held"
    /\ UNCHANGED <<cond, list, at, heap, call, guess, results, equations>>

UpdateBitslice ==
    /\ pc = "update" /\ list[who] # {} /\ Entry[1] \notin LinearSteps
    /\ cond' = [cond EXCEPT ![who] = Computed(StepList[Entry[1]], @)]
    /\ list' = [list EXCEPT ![who] = (@ \cup Touched(cond[who], cond'[who])) \ {Entry}]
    /\ pc' = IF \E b \in Bit : cond'[who][b] = Contradiction THEN "refused" ELSE "update"
    /\ UNCHANGED <<at, heap, call, guess, results, equations>>

\* LinearStep::Update: the equations of the condition of one bit go into the matrix.
UpdateLinear ==
    /\ pc = "update" /\ list[who] # {} /\ Entry[1] \in LinearSteps
    /\ LET b == StepList[Entry[1]].bits[Entry[2] + 1]
       IN  equations' = LinearConditions(cond[who][b], Entry[2], RHS(Matrix))
    /\ pc' = "equations"
    /\ UNCHANGED <<cond, list, at, heap, call, guess, results>>

ChangeMatrix(m) == heap' = [heap EXCEPT ![at[who]][Entry[1]] = m]

AddNext ==
    /\ pc = "equations" /\ equations # <<>>
    /\ ChangeMatrix(AddEquation(Matrix, Head(equations), call.log))
    /\ equations' = Tail(equations)
    /\ pc' = IF heap'[at[who]][Entry[1]].updateRows = {} THEN "equations" ELSE "gauss"
    /\ UNCHANGED <<cond, list, at, call, guess, results>>

Reduce ==
    /\ pc = "gauss" /\ Matrix.updateRows # {} /\ ~ Contradicts(Matrix)
    /\ ChangeMatrix(EpsilonGauss(Matrix, call.log))
    /\ UNCHANGED <<cond, list, at, pc, call, guess, results, equations>>

\* A row says 0 = 1.  The equations that are left are not added.
RefuseEquation ==
    /\ pc = "gauss" /\ Matrix.updateRows # {} /\ Contradicts(Matrix)
    /\ ChangeMatrix(EpsilonGauss(Matrix, call.log))
    /\ list' = [list EXCEPT ![who] = @ \ {Entry}]
    /\ equations' = <<>>
    /\ pc' = "refused"
    /\ UNCHANGED <<cond, at, call, guess, results>>

Sort ==
    /\ pc = "gauss" /\ Matrix.updateRows = {}
    /\ ChangeMatrix(SortByPivot(Matrix, call.log))
    /\ pc' = "equations"
    /\ UNCHANGED <<cond, list, at, call, guess, results, equations>>

(***************************************************************************)
(* The entry is done.  If it was the last one of its step, the rows that   *)
(* changed are looked at; if they leave no value for a bit, they stay      *)
(* marked.                                                                 *)
(***************************************************************************)
LinearDone ==
    /\ pc = "equations" /\ equations = <<>>
    /\ LET rest == list[who] \ {Entry}
           more == rest # {} /\ FirstEntry(rest)[1] = Entry[1]
           c    == IF more THEN cond[who] ELSE Extracted(Matrix, StepList[Entry[1]], cond[who])
           ok   == /\ \A b \in Bit : c[b] # Contradiction
                   /\ more \/ \A i \in Matrix.extract :
                                 ~ IsContradiction(Matrix, Matrix.rowinv[i])
       IN  /\ cond' = [cond EXCEPT ![who] = c]
           /\ list' = [list EXCEPT ![who] = rest \cup Touched(cond[who], c)]
           /\ ChangeMatrix(IF more \/ ~ ok THEN Matrix ELSE [Matrix EXCEPT !.extract = {}])
           /\ pc' = IF ok THEN "update" ELSE "refused"
    /\ UNCHANGED <<at, call, guess, results, equations>>

UpdateStep ==
    \/ UpdateDone \/ UpdateBitslice \/ UpdateLinear
    \/ AddNext \/ Reduce \/ RefuseEquation \/ Sort \/ LinearDone

-----------------------------------------------------------------------------
(***************************************************************************)
(* Trying a choice.  ShallowCopy gives a characteristic the conditions of  *)
(* another one and its matrices, the very same, and starts their log       *)
(* afresh.  The assignment of a characteristic writes over the matrices    *)
(* where they are; a characteristic handed back by the stack brings its    *)
(* own.                                                                    *)
(***************************************************************************)
EachMatrix(matrices, Op(_)) == [s \in LinearSteps |-> Op(matrices[s])]

Shared(f, to, from) == [f EXCEPT ![to] = f[from]]

\* SetBitCondition on x, and the call of Update.
SetAndUpdate(name, x, log, conds, lists, b, bc) ==
    /\ cond' = [conds EXCEPT ![x][b] = bc]
    /\ list' = [lists EXCEPT ![x] = @ \cup Touched(conds[x], cond'[x])]
    /\ call' = [name |-> name, who |-> x, log |-> log, cond |-> cond'[x]]
    /\ pc' = "update"

\* tmp becomes a shallow copy of char; the choice is tried on x.
TryOn(name, x, b, bc) ==
    /\ at' = Shared(at, "tmp", "char")
    /\ SetAndUpdate(name, x, TRUE, Shared(cond, "tmp", "char"), Shared(list, "tmp", "char"),
                    b, bc)

NewMatrices ==
    [s \in LinearSteps |->
        InitialMatrix(StepList[s].inputs, StepList[s].outputs, StepList[s].depends)]

\* Matrices end with their last owner: what tmp had alone.
Freed(h) == [c \in Cell |-> IF c \in {at["char"], at["kept"]} THEN h[c] ELSE NewMatrices]

\* The first choice of GuessBit, and the only one of EvaluatePos, is tried on char.
GuessBit(name, b, i) ==
    LET choices == CHOICES(cond["char"][b])
    IN  /\ pc = "ready" /\ IsOpen(cond["char"][b])
        /\ guess' = [bit |-> b, choices |-> <<choices[i], choices[3 - i]>>]
        /\ heap' = Freed([heap EXCEPT ![at["char"]] = EachMatrix(@, FixChanges)])
        /\ TryOn(name, "char", b, choices[i])
        /\ UNCHANGED <<results, equations>>

\* Complete tries both choices on tmp.
CompleteBit(b) ==
    LET choices == CHOICES(cond["char"][b])
    IN  /\ pc = "ready" /\ cond["char"][b] \in {NoDifference, Difference}
        /\ guess' = [bit |-> b, choices |-> choices]
        /\ heap' = Freed([heap EXCEPT ![at["char"]] = EachMatrix(@, FixChanges)])
        /\ TryOn("try one", "tmp", b, choices[1])
        /\ UNCHANGED <<results, equations>>

Returned(name) == pc \in {"held", "refused"} /\ call.name = name

\* The caller returns, and its frame is gone.
NoCall == [name |-> "none", who |-> "char", log |-> FALSE, cond |-> Start]

NoGuess == [bit |-> "none", choices |-> <<{}, {}>>]

Return(place) ==
    pc' = place /\ call' = NoCall /\ guess' = NoGuess /\ results' = FALSE

Ready == Return("ready")

\* The first choice failed: back to the matrices of tmp, and the other choice there.
FirstTried ==
    /\ Returned("first")
    /\ \/ /\ pc = "held" /\ Ready
          /\ UNCHANGED <<cond, list, heap>>
       \/ /\ pc = "refused"
          /\ heap' = [heap EXCEPT ![at["char"]] = EachMatrix(@, Undo)]
          /\ SetAndUpdate("second", "tmp", TRUE, cond, list, guess.bit, guess.choices[2])
          /\ UNCHANGED <<guess, results>>
    /\ UNCHANGED <<at, equations>>

\* char becomes a shallow copy of tmp.
ShallowCopyBack(matrices) ==
    /\ cond' = Shared(cond, "char", "tmp") /\ list' = Shared(list, "char", "tmp")
    /\ at' = Shared(at, "char", "tmp")
    /\ heap' = [heap EXCEPT ![at["tmp"]] = EachMatrix(matrices, FixChanges)]

SecondTried ==
    /\ Returned("second")
    /\ \/ /\ pc = "held" /\ Ready
          /\ ShallowCopyBack(heap[at["tmp"]])
       \/ /\ pc = "refused" /\ Return("lost")
          /\ UNCHANGED <<cond, list, at, heap>>
    /\ UNCHANGED equations

Evaluated ==
    /\ Returned("evaluate") /\ Ready
    /\ ShallowCopyBack(EachMatrix(heap[at["char"]], Undo))
    /\ UNCHANGED equations

OneTried ==
    /\ Returned("try one")
    /\ results' = (pc = "held")
    /\ heap' = [heap EXCEPT ![at["tmp"]] = EachMatrix(EachMatrix(@, Undo), FixChanges)]
    /\ TryOn("try two", "tmp", guess.bit, guess.choices[2])
    /\ UNCHANGED <<guess, equations>>

\* A slip: char takes the choice that failed.
TwoTried_Other ==
    /\ Returned("try two")
    /\ heap' = [heap EXCEPT ![at["tmp"]] = EachMatrix(@, Undo)]
    /\ \/ results /\ pc = "held" /\ Ready /\ UNCHANGED <<cond, list>>
       \/ ~ results /\ pc = "refused" /\ Return("lost") /\ UNCHANGED <<cond, list>>
       \/ /\ results # (pc = "held")
          /\ SetAndUpdate("keep", "char", FALSE, cond, list, guess.bit,
                          guess.choices[IF results THEN 2 ELSE 1])
          /\ UNCHANGED <<guess, results>>
    /\ UNCHANGED <<at, equations>>

\* A slip: the rows stay changed.
TwoTried_NotUndone ==
    /\ Returned("try two")
    /\ \/ results /\ pc = "held" /\ Ready /\ UNCHANGED <<cond, list>>
       \/ ~ results /\ pc = "refused" /\ Return("lost") /\ UNCHANGED <<cond, list>>
       \/ /\ results # (pc = "held")
          /\ SetAndUpdate("keep", "char", FALSE, cond, list, guess.bit,
                          guess.choices[IF results THEN 1 ELSE 2])
          /\ UNCHANGED <<guess, results>>
    /\ UNCHANGED <<at, heap, equations>>

\* Of one choice that holds, char takes the conditions, without a log.
TwoTried ==
    /\ Returned("try two")
    /\ heap' = [heap EXCEPT ![at["tmp"]] = EachMatrix(@, Undo)]
    /\ \/ /\ results /\ pc = "held" /\ Ready
          /\ UNCHANGED <<cond, list>>
       \/ /\ ~ results /\ pc = "refused" /\ Return("lost")
          /\ UNCHANGED <<cond, list>>
       \/ /\ results # (pc = "held")
          /\ SetAndUpdate("keep", "char", FALSE, cond, list, guess.bit,
                          guess.choices[IF results THEN 1 ELSE 2])
          /\ UNCHANGED <<guess, results>>
    /\ UNCHANGED <<at, equations>>

\* Complete does not look at the result: it "should never fail!".
Kept ==
    /\ Returned("keep") /\ Ready
    /\ UNCHANGED <<cond, list, at, heap, equations>>

-----------------------------------------------------------------------------
\* add_guess, push_back: the stack keeps a copy.
Keep ==
    /\ pc = "ready" /\ Keeping
    /\ cond' = Shared(cond, "kept", "char") /\ list' = Shared(list, "kept", "char")
    /\ heap' = [heap EXCEPT ![at["kept"]] = EachMatrix(heap[at["char"]], CopyOf)]
    /\ UNCHANGED <<at, pc, call, guess, results, equations>>

\* Restart assigns start_characteristic_.
Restart ==
    /\ pc \in {"ready", "lost"} /\ Ready
    /\ cond' = Shared(cond, "char", "kept") /\ list' = Shared(list, "char", "kept")
    /\ heap' = [heap EXCEPT ![at["char"]] = EachMatrix(heap[at["kept"]], CopyOf)]
    /\ UNCHANGED <<at, equations>>

\* A place that no other characteristic uses.
FreeCell == CHOOSE c \in Cell : c \notin {at["kept"], at["tmp"]}

(***************************************************************************)
(* backtrack, backtrack_to_other_choice: a guess is repeated or its other  *)
(* choice taken on a copy, with a log nobody will read; the copy becomes   *)
(* the characteristic of the search, or is dropped.                        *)
(***************************************************************************)
BackTrack(b, i) ==
    LET choices == CHOICES(cond["kept"][b])
    IN  /\ pc \in {"ready", "lost"} /\ IsOpen(cond["kept"][b])
        /\ at' = [at EXCEPT !["char"] = FreeCell]
        /\ heap' = [heap EXCEPT ![FreeCell] = EachMatrix(heap[at["kept"]], CopyOf)]
        /\ SetAndUpdate("back", "char", TRUE, Shared(cond, "char", "kept"),
                        Shared(list, "char", "kept"), b, choices[i])
        /\ UNCHANGED <<guess, results, equations>>

BackTracked ==
    /\ Returned("back")
    /\ Return(IF pc = "held" THEN "ready" ELSE "lost")
    /\ UNCHANGED <<cond, list, at, heap, equations>>

(***************************************************************************)
(* The main program updates every condition of the characteristic it has   *)
(* read; if that holds, the search starts with copies of it.               *)
(***************************************************************************)
Init ==
    /\ cond = [x \in Owner |-> Start]
    /\ list = [x \in Owner |-> UNION {StepsToUpdate(b) : b \in Bit}]
    /\ at = [x \in Owner |-> CASE x = "char" -> 1 [] x = "tmp" -> 2 [] x = "kept" -> 3]
    /\ heap = [c \in Cell |-> NewMatrices]
    /\ call = [name |-> "all", who |-> "char", log |-> FALSE, cond |-> Start]
    /\ guess = NoGuess
    /\ results = FALSE
    /\ equations = <<>>
    /\ pc = "update"

SearchStarts ==
    /\ Returned("all") /\ pc = "held" /\ Ready
    /\ cond' = [x \in Owner |-> cond["char"]]
    /\ list' = [x \in Owner |-> list["char"]]
    /\ heap' = [c \in Cell |-> EachMatrix(heap[at["char"]], CopyOf)]
    /\ UNCHANGED <<at, equations>>

Next ==
    \/ UpdateStep
    \/ SearchStarts
    \/ \E b \in Bit : \/ \E i \in {1, 2} : \/ GuessBit("first", b, i)
                                          \/ GuessBit("evaluate", b, i)
                                          \/ BackTrack(b, i)
                     \/ CompleteBit(b)
    \/ FirstTried \/ SecondTried \/ Evaluated \/ OneTried \/ TwoTried \/ Kept
    \/ Keep \/ Restart \/ BackTracked

Spec == Init /\ [][Next]_vars

\* One thread, which keeps running: an Update goes on.
FairSpec == Spec /\ WF_vars(UpdateStep)

=============================================================================
