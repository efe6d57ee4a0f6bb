--------------------------- MODULE CacheInvariants ---------------------------
(***************************************************************************)
(* Why the caches keep what CacheProperties says: their inductive          *)
(* invariant, and what has to be known of the functions and of the names   *)
(* of the files.                                                           *)
(***************************************************************************)
EXTENDS CacheProperties

\* The keys of a cache: a condition for each position.
Key(c) == Input(Fn(c))

\* What a step is told if there is no cache.
Uncached(c, input) ==
    LET s == SortInput(Fn(c), input)
    IN  ResortOutput(c[2], s.perm, Loop(Fn(c), c[2], s.input))

-----------------------------------------------------------------------------
(* Hypotheses *)

\* No two caches have the same file, and the tables of all results are written to their end.
OwnFiles ==
    /\ \A c, d \in Cache : HasFile(c) /\ HasFile(d) /\ File(c) = File(d) => c = d
    /\ \A c \in CutShort : ~ IsStatic(c)

\* A key is found at its place in a static cache.
KeysHavePlaces ==
    \A c \in DOMAIN Asked : IsStatic(c) =>
        \A input \in Asked[c] :
            LET key == SortInput(Fn(c), input).input
            IN  /\ PlaceOf(Fn(c), key) \in 1..Size(Fn(c))
                /\ KeyAt(Fn(c), PlaceOf(Fn(c), key)) = key

\* Without a cache the loop over all pairs, with sorted inputs, gives the right results.
LoopIsRight ==
    \A c \in DOMAIN Asked : \A input \in Asked[c] :
        Unordered(c, Uncached(c, input)) = Reference(c, input)

-----------------------------------------------------------------------------
(* The invariant *)

\* What a function without a step has: no file name, no table, no order of use.
StepsInv ==
    /\ steps \subseteq DOMAIN Functions
    /\ filepath = {c \in Cache : HasFile(c) /\ c[1] \in steps}
    /\ initialized = {c \in Cache : IsStatic(c) /\ c[1] \in steps}
    /\ toDump \subseteq filepath
    /\ \A c \in Cache : c[1] \notin steps => data[c] = <<>> /\ lru[c] = <<>>

\* The order of use has each key of the table once, and the table keeps to the capacity.
Ordered(m) ==
    /\ m.lru \in Seq(DOMAIN m.data) /\ DOMAIN m.data \subseteq ToSet(m.lru)
    /\ IsInjective(m.lru)
    /\ IsFiniteSet(DOMAIN m.data) /\ Cardinality(DOMAIN m.data) <= Capacity

IsSequence(s) == s \in Seq(ToSet(s))

TablesInv ==
    /\ DOMAIN data = Cache /\ DOMAIN lru = Cache
    /\ \A c \in Cache : IF IsStatic(c) THEN IsSequence(data[c])
                        ELSE Ordered([data |-> data[c], lru |-> lru[c]])
    /\ \A file \in DOMAIN disk : IsSequence(disk[file])

\* The question that was answered last, whose key is in front.
AnswerInv ==
    answer # NoAnswer =>
        LET c == answer.cache
        IN  /\ c \in DOMAIN Asked /\ answer.input \in Asked[c] /\ c[1] \in steps
            /\ ~ IsStatic(c) => /\ lru[c] # <<>>
                                /\ lru[c][1] = SortInput(Fn(c), answer.input).input

\* A key and its result.
RightEntry(c, key, value) == key \in Key(c) /\ value = Loop(Fn(c), c[2], key)

RightTable(c, table) == \A key \in DOMAIN table : RightEntry(c, key, table[key])

RightRecords(c, file) == \A i \in DOMAIN file : RightEntry(c, file[i][1], file[i][2])

\* The tables hold what the loop computes.
RightTables ==
    \A c \in Cache : IF IsStatic(c) THEN c[1] \in steps => data[c] = AllResults[c]
                     ELSE RightTable(c, data[c])

\* And so do the files.
RightFiles ==
    \A c \in Cache : HasFile(c) /\ File(c) \in DOMAIN disk =>
        IF IsStatic(c) THEN disk[File(c)] = AllResults[c]
        ELSE RightRecords(c, disk[File(c)])

(***************************************************************************)
(* An answer is what the loop computes: whether, when and by which program *)
(* it was computed cannot be seen.                                         *)
(***************************************************************************)
AnswersAreComputed ==
    answer # NoAnswer => answer.result = Uncached(answer.cache, answer.input)

(***************************************************************************)
(* The inductive invariant: the caches of a function appear with its first *)
(* step, empty and with an empty order of use, so that nothing is left     *)
(* over when LoadDump clears the table only; every table and file has what *)
(* the loop computes, unless two caches write the same file.               *)
(***************************************************************************)
CacheInv ==
    /\ StepsInv
    /\ TablesInv
    /\ AnswerInv
    /\ OwnFiles => RightTables /\ RightFiles /\ AnswersAreComputed

=============================================================================
