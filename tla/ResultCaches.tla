---------------------------- MODULE ResultCaches ----------------------------
(***************************************************************************)
(* The caches of Bitslice<F> (bitslice.h) over the runs of a program.      *)
(* Functions of at most MAX_STATIC_CACHE_SIZE bits have a table of all     *)
(* results (static_cache.h), the others one of the results used last       *)
(* (dynamic_cache.h).  The first step of a function fills its tables or    *)
(* loads them from files; the search writes all tables to their files      *)
(* before it ends the program (CheckforDump in search.cpp, and             *)
(* cache_manager.h).  A program may also be stopped at any time, and a     *)
(* file cannot always be opened or written to its end.                     *)
(***************************************************************************)
EXTENDS Bitslices

CONSTANTS
    Functions,  \* from the names of the functions of all steps to the functions
    Asked,      \* the inputs for which steps ask, a set for each cache
    Digits,     \* the conditions inputs of static caches can have, {} being the first
    Capacity,   \* the entries of a dynamic cache
    CutShort    \* the caches whose file may be written partly

Action == {"Propagate", "Probability", "PropagateTwobit"}

Cache == (DOMAIN Functions) \X Action

Fn(c) == Functions[c[1]]

MAX_STATIC_CACHE_SIZE == 16

NumBits(F) == MapThenSumSet(LAMBDA i : 4 ^ F.bitsize[i], Positions(F))

IsStatic(c) == NumBits(Fn(c)) <= MAX_STATIC_CACHE_SIZE

\* The name of the file: the action and the name of the function.
File(c) == <<c[2], Fn(c).kName>>

\* Probabilities are not kept.  Files of two-bit relations are written, but a result has
\* no bytes before it is read, reading ends at once and the caches stay as they are: the
\* model leaves these files out.
HasFile(c) == c[2] = "Propagate"

ASSUME CachesAssumption ==
    /\ Capacity \in Nat \ {0} /\ CutShort \subseteq Cache
    /\ DOMAIN Asked \subseteq Cache
    /\ \A c \in DOMAIN Asked : \A input \in Asked[c] : input \in Input(Fn(c))
    /\ Digits[1] = {}
    /\ \A f \in DOMAIN Functions : Functions[f].inputs \in Nat /\ Functions[f].outputs \in Nat

VARIABLES
    data,         \* results: by key (dynamic) or in the order of the keys (static)
    lru,          \* the keys of a dynamic cache, the one used last in front
    initialized,  \* the static caches that are marked as filled
    filepath,     \* the caches that have their file name
    disk,         \* from the files that exist to their records
    steps,        \* the functions that have a step in this program
    toDump,       \* the caches DumpAllCaches has still to write, or {}
    answer        \* the last result that was asked for

vars == <<data, lru, initialized, filepath, disk, steps, toDump, answer>>

-----------------------------------------------------------------------------
(* Static caches *)

\* The number of keys, and the place of a key: its conditions one behind the other.
Size(F) == Len(Digits) ^ (F.inputs + F.outputs)

\* A product, although the provers know nothing of powers.
ASSUME SizeAssumption == \A f \in DOMAIN Functions : Size(Functions[f]) \in Nat

KeyAt(F, n) ==
    [i \in Positions(F) |-> Digits[(((n - 1) \div Len(Digits) ^ (i - 1)) % Len(Digits)) + 1]]

PlaceOf(F, key) ==
    1 + MapThenSumSet(LAMBDA i : ((CHOOSE d \in DOMAIN Digits : Digits[d] = key[i]) - 1)
                                     * Len(Digits) ^ (i - 1), Positions(F))

\* The loop of InitStaticCachePropagate and of its two relatives.
AllResults ==
    [c \in {d \in Cache : IsStatic(d)} |->
        [n \in 1..Size(Fn(c)) |-> Loop(Fn(c), c[2], KeyAt(Fn(c), n))]]

\* A slip: the bits are rounded down to bytes, and the last condition is lost.
ReadAs_Rounded(F, raw) ==
    [i \in Positions(F) |-> IF i \in DOMAIN raw /\ i < F.inputs + F.outputs THEN raw[i] ELSE {}]

\* The bits of a record as the conditions of F, whatever function wrote them.
ReadAs(F, raw) ==
    [i \in Positions(F) |-> IF i \in DOMAIN raw THEN raw[i] ELSE {}]

-----------------------------------------------------------------------------
(* Dynamic caches: m.data is the table, m.lru the order of use. *)

\* f, and this value for this key.
With(f, key, value) == [k \in DOMAIN f \cup {key} |-> IF k = key THEN value ELSE f[k]]

\* A slip: the list keeps the key.
Evict_Listed(m) == [m EXCEPT !.data = RestrictDomain(@, LAMBDA k : k # Last(m.lru))]

\* The key used longest ago goes.
Evict(m) == [data |-> RestrictDomain(m.data, LAMBDA k : k # Last(m.lru)),
             lru  |-> Front(m.lru)]

Insert(m, key, value) ==
    LET room == IF Cardinality(DOMAIN m.data) = Capacity THEN Evict(m) ELSE m
    IN  IF key \in DOMAIN room.data THEN room
        ELSE [data |-> With(room.data, key, value), lru |-> <<key>> \o room.lru]

\* A slip: a result that is used keeps its place.
Used_InPlace(m, key) == m

\* Find moves a key that it finds to the front.
Used(m, key) ==
    LET place == CHOOSE i \in DOMAIN m.lru : m.lru[i] = key
    IN  [m EXCEPT !.lru = <<key>> \o RemoveAt(m.lru, place)]

-----------------------------------------------------------------------------
(* Files *)

\* The records of a file inserted into m, one after the other.
Read(F, m, records) ==
    FoldLeft(LAMBDA n, r : Insert(n, ReadAs(F, r[1]), ReadAs(F, r[2])), m, records)

\* LoadDump of a dynamic cache empties the table and inserts what it reads.
LoadedDynamic(c) ==
    IF File(c) \notin DOMAIN disk THEN [data |-> data[c], lru |-> lru[c]]
    ELSE Read(Fn(c), [data |-> <<>>, lru |-> lru[c]], disk[File(c)])

LoadedStatic(c) ==
    IF File(c) \notin DOMAIN disk THEN data[c]
    ELSE [n \in DOMAIN disk[File(c)] |-> ReadAs(Fn(c), disk[File(c)][n])]

\* What SaveDump writes, entries of a dynamic cache in any order.
Contents(c) ==
    IF IsStatic(c) THEN {data[c]}
    ELSE {[k \in DOMAIN keys |-> <<keys[k], data[c][keys[k]]>>] :
             keys \in SetToSeqs(DOMAIN data[c])}

\* The contents of the file afterwards: cut somewhere if the writing failed.
Written(c) ==
    IF c \in CutShort
    THEN {SubSeq(s, 1, n) : s \in Contents(c), n \in 0..Cardinality(DOMAIN data[c])}
    ELSE Contents(c)

-----------------------------------------------------------------------------
(* Actions *)

NoAnswer == [cache |-> <<>>, input |-> <<>>, result |-> {}]

Nothing == [c \in Cache |-> <<>>]

Init ==
    /\ data = Nothing /\ lru = Nothing
    /\ initialized = {} /\ filepath = {} /\ steps = {} /\ toDump = {}
    /\ answer = NoAnswer
    /\ disk = <<>>

\* The program ends and is started again; its files stay.
Restarted ==
    /\ data' = Nothing /\ lru' = Nothing
    /\ initialized' = {} /\ filepath' = {} /\ steps' = {} /\ toDump' = {}
    /\ answer' = NoAnswer

(***************************************************************************)
(* A step of function f is created (BitsliceStep::Init, InitCaches): each  *)
(* cache gets its file name and loads the file, if it does not have it     *)
(* already; a static cache that is not marked as filled then is filled.    *)
(***************************************************************************)
InitCaches(f) ==
    LET mine  == {f} \X Action
        fresh == {c \in mine : HasFile(c) /\ c \notin filepath}
        loaded == [c \in Cache |->
                      IF c \notin fresh THEN data[c]
                      ELSE IF IsStatic(c) THEN LoadedStatic(c) ELSE LoadedDynamic(c).data]
        marked == initialized \cup {c \in fresh : IsStatic(c) /\ loaded[c] # <<>>}
        toFill == {c \in mine : IsStatic(c) /\ c \notin marked}
    IN  /\ toDump = {}
        /\ data' = [c \in Cache |-> IF c \in toFill THEN AllResults[c] ELSE loaded[c]]
        /\ lru' = [c \in Cache |-> IF c \in fresh /\ ~ IsStatic(c)
                                   THEN LoadedDynamic(c).lru ELSE lru[c]]
        /\ initialized' = marked \cup toFill
        /\ filepath' = filepath \cup fresh
        /\ steps' = steps \cup {f}
        /\ UNCHANGED <<disk, toDump, answer>>

\* A slip: the result is left in the order of the sorted conditions.
Answer_Sorted(c, input, perm, result) ==
    answer' = [cache |-> c, input |-> input, result |-> result]

Answer(c, input, perm, result) ==
    answer' = [cache |-> c, input |-> input, result |-> ResortOutput(c[2], perm, result)]

\* What memory behind the end of a static cache may hold.
Garbage(c) == {[i \in Positions(Fn(c)) |-> {}], AnyPair(Fn(c))}

\* A static cache is taken to have every result.
ComputeStatic(c, input) ==
    LET s     == SortInput(Fn(c), input)
        place == PlaceOf(Fn(c), s.input)
    IN  /\ \E result \in IF place \in DOMAIN data[c] THEN {data[c][place]} ELSE Garbage(c) :
              Answer(c, input, s.perm, result)
        /\ UNCHANGED <<data, lru>>

\* A dynamic cache computes what it does not have.
ComputeDynamic(c, input) ==
    LET s     == SortInput(Fn(c), input)
        m     == [data |-> data[c], lru |-> lru[c]]
        after == IF s.input \in DOMAIN data[c] THEN Used(m, s.input)
                 ELSE Insert(m, s.input, Loop(Fn(c), c[2], s.input))
    IN  /\ Answer(c, input, s.perm, after.data[s.input])
        /\ data' = [data EXCEPT ![c] = after.data]
        /\ lru' = [lru EXCEPT ![c] = after.lru]

\* Bitslice<F>::Compute, ComputeProbability, ComputeTwobit.
Compute(c, input) ==
    /\ c[1] \in steps /\ toDump = {}
    /\ IF IsStatic(c) THEN ComputeStatic(c, input) ELSE ComputeDynamic(c, input)
    /\ UNCHANGED <<initialized, filepath, disk, steps, toDump>>

\* A slip: a cache without a file name is written too.
ToDump_Unnamed == {c \in Cache : data[c] # <<>>}

\* SaveDump returns at once for the others.
ToDump == {c \in filepath : data[c] # <<>>}

\* The time or the number of restarts for a dump is reached.
DumpAllCaches ==
    /\ toDump = {}
    /\ toDump' = ToDump
    /\ toDump' # {}
    /\ UNCHANGED <<data, lru, initialized, filepath, disk, steps, answer>>

\* SaveDump of the caches with a file name and with results, in the order in which the
\* caches were registered, which the linker chooses; then exit(0).
SaveDump(c) ==
    /\ c \in toDump
    /\ \/ UNCHANGED disk     \* the file cannot be opened
       \/ \E s \in Written(c) :
              disk' = With(disk, File(c), s)
    /\ IF toDump = {c} THEN Restarted
       ELSE /\ toDump' = toDump \ {c}
            /\ UNCHANGED <<data, lru, initialized, filepath, steps, answer>>

\* The program is stopped.
Stop == steps # {} /\ Restarted /\ UNCHANGED disk

Next ==
    \/ \E f \in DOMAIN Functions : InitCaches(f)
    \/ \E c \in DOMAIN Asked : \E input \in Asked[c] : Compute(c, input)
    \/ DumpAllCaches
    \/ \E c \in Cache : SaveDump(c)
    \/ Stop

Spec == Init /\ [][Next]_vars

=============================================================================
