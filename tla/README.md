# A TLA+ model of nldtool

nldtool searches for differential characteristics of hash functions and ciphers: it starts
from a *characteristic*, a generalized condition for every bit of two messages and of the
state they lead to, guesses conditions of single bits, propagates what follows from a guess
through the steps of the algorithm, and goes back when a condition has no value left.  This
directory holds TLA+ modules translated from the code in `src/src`, the TLC configurations
that check them and the proofs that TLAPS checks.

## 1. The system's parts

| Part | State | Operations | Works with | Hard behaviour | What makes it correct |
|---|---|---|---|---|---|
| **Search** (`search.{h,cpp}`) | phase, credits, critical bits and their index, two flags, counters of completeness checks | `Start`, `Restart`, `Guess`/`GuessBit`, `BackTrack`, `CompleteCheck`, `ChooseGuessPos` | owns the stack and the current characteristic; callbacks of the crypto | flags and an index that are kept over calls that change what they speak of; both choices fail; phases are entered again after going back | no solution is lost, nothing is tried twice, a result is a result, the search does not get stuck |
| **Search stack** (`search_stack.{h,cpp}`) | elements: a full characteristic, the guesses since, the phase | `push_back`, `add_guess`, `backtrack`, `backtrack_to_other_choice`, `clear`, `size` | copies of characteristics; `Update` on the way back | a state is rebuilt from a snapshot and guesses; an `assert` with an effect; limits of an element | what comes back is what the guesses make of the start |
| **Characteristic** (`characteristic.{h,cpp}`, `step_update.h`) | container of conditions, worklist of steps, data of steps | `Update`, `Touch`, `SetBitCondition`, `Complete`, `ShallowCopy`, `Undo` | steps of the crypto, proxies | the worklist drops an entry after the step ran; shallow copies share matrices | propagation reaches a fixpoint, a copy is independent |
| **Conditions** (`condition.{h,cpp}`, `Search::CHOICES`) | sets of pairs of values, for one, two and three bits | merge, filter, the two choices | everywhere | shifts and masks | the choices divide a condition |
| **Bitslices** (`functions.h`, `bitslice*.h`, `carry_step.h`, `propagate.h`, `index.h`, `pair.h`) | none but the caches | `Compute`, `Loop`, `SortInput`, `ResortOutput` | caches, functions of the algorithms | symmetric inputs, boundaries of carries | exact one-bit conditions of a relation |
| **Two-bit conditions** (`propagate_twobit.h`, `twobit_container.*`) | a list, degrees of bits, a mask of what to update | `GenerateTwobitConditions`, `ComputeTwobitDegrees` | `Search::ComputeTwobitMask` | stale parts of the mask | a relation is reported iff it holds |
| **Linear conditions** (`linear_*`, `bit_matrix.*`, `change.*`) | a matrix in reduced form, a log of changes | add an equation, propagate, undo | shallow copies | shared matrices, undo | the space of solutions |
| **Proxies and words** (`*_condition_proxy.*`, `condition_word.*`) | positions | get and set parts of conditions | container | rotations, borders of words | a part that is set is the part that is read |
| **Caches** (`dynamic_cache.h`, `static_cache.h`, `cache_manager.h`) | a map and an order of use; files that outlive the program | insert, find, evict, load, save | bitslices | capacity, partial dumps, names of files, sorted keys | a cached result is the computed one |
| **Bit masks** (`bitmask.*`) | a sorted vector of words | set operations, iteration | search, two-bit conditions | change while iterating | a set of bits |
| **Configuration** (`xml_config.*`) | phases, settings, guesses | parsing | search | missing attributes | the documented defaults |
| **Cryptos** (`crypto.*`, `src/examples`) | words, steps | `Add`, `AddConditionWord`, `AddReferenceToConditionWord`, `Callback` | all | rounds and rotations that differ from round to round | the steps say what the algorithm computes |
| **Input and output** (`text_io_format.*`, `print*`, `latex*`, `printable.*`) | a matrix of words, flags of what is shown | `ReadCharacteristic`, `GenerateMatrix`, `FilterForMainSteps` | words, characteristic | rows erased by index | what is written can be read |
| **Probabilities** (`probability.h`, `probability_matrix*`) | a cache | `Compute` | bitslices | | figures for ranking and printing |

A search is one thread.  What is hard about it are not interleavings but long sequences:
guesses, failures, ways back over several phases and restarts in an order nobody writes a
test for, with state (an index, a flag, a snapshot) that was right when it was stored.
`PROJECT.json` lists these hazards, each at its line.

## 2. Modules

| Module | Models | Built on |
|---|---|---|
| `Conditions` | conditions of one bit as sets of pairs; `Search::CHOICES` | |
| `Characteristics` | a characteristic, bitslices as relations, what `Update` reaches | `Conditions` |
| `SearchStack` | the stack: `push_back`, `add_guess`, both ways back step by step | `Characteristics` |
| `Search` | the search: `Start` and all it calls | `SearchStack` |
| `SearchProperties` | type invariant, safety and liveness of the search | `Search` |
| `DecisionStack` | abstract: a trail of decisions, no elements and no snapshots | `Characteristics` |
| `SearchInvariants` | the inductive invariant of the search, part by part | `SearchProperties` |
| `SearchRefinement` | the mapping under which `Search` implements `DecisionStack`, and the invariant that shows it | `SearchInvariants` |
| `CharacteristicProofs` | theorems about the choices and `Update` | `Characteristics`, TLAPS |
| `SearchProofs` | theorems about the variables of the search (types, bounds) and about the stack | `SearchInvariants`, `CharacteristicProofs` |
| `SolutionProofs` | theorems about solutions, and about what is found | `SearchProofs` |
| `RefinementProofs` | the theorem that `Search` implements `DecisionStack` | `SolutionProofs`, `SearchRefinement`, `FoldLemmas` |
| `LinearMatrix` | the matrix of a linear step: equations, elimination, sorting, the log and its undo | |
| `Propagation` | the worklist of `Update`, linear steps, and the calls that try a guess on shared matrices | `Characteristics`, `LinearMatrix` |
| `PropagationProperties` | what propagation and shared matrices promise | `Propagation` |
| `PropagationInvariants` | the inductive invariant of propagation with linear steps, part by part | `PropagationProperties` |
| `PropagationProofs` | theorems about the matrices, their logs, and the characteristics that share them | `PropagationInvariants`, `FoldLemmas`, `CharacteristicProofs` |
| `ClosureProofs` | theorems about what `Update` reaches with linear steps | `PropagationProofs` |
| `Bitslices` | the functions of the steps; for one bit position the loop over all pairs, the sorting of symmetric inputs, and the three actions: propagate, probability, two-bit relations | |
| `ResultCaches` | static and dynamic caches of these results, their files, the program stopped and started again | `Bitslices` |
| `CacheProperties` | what caches promise, against all values at once | `ResultCaches` |
| `CacheInvariants` | the inductive invariant of the caches, part by part, and what it takes for granted | `CacheProperties` |
| `CacheProofs` | theorems about the caches | `CacheInvariants`, `FoldLemmas` |
| `FoldLemmas` | lemmas about folds and flattened sequences | TLAPS |
| `ConditionProxies` | conditions of one to three bits, and the proxies that read and write parts of them | |
| `Bitmasks` | sparse masks of bit positions | |
| `Cryptos` | words with rotations, shifts and references; steps, their slices and what wakes them; one slice at work | `Bitslices`, `ConditionProxies` |
| `TextFormat` | the matrix of words, what is read and what is written | `Cryptos` |
| `CharacteristicCheck` | reading a characteristic and checking it on levels 0 to 3 | `TextFormat`, `Bitmasks`, `Conditions` |
| `CheckProperties` | what a check promises, against all pairs of messages | `CharacteristicCheck` |
| `HashCryptos` | seven hash functions as cryptos | `Cryptos` |
| `Hashes` | messages that go through all steps of a hash function, and back | `HashCryptos` |
| `HashProperties` | what the cryptos have to compute | `Hashes` |
| `MCSearch`, `MCSearchRefinement`, `MCPropagation`, `MCHulls`, `MCCaches`, `MCCheck`, `MCHashes` | instances for TLC | |

The system is seen in four views, since no instance that holds all of them can be checked.
The search takes `Update` for one step that reaches a closure; `Propagation` shows that the
worklist with linear steps reaches it.  `CharacteristicCheck` runs the worklist of bitslices
on real words, proxies and carries, and takes the result of a slice from all pairs at once;
`ResultCaches` shows that the loop, the sorting and the caches give that result.  `Hashes`
runs the same slices through the words of whole hash functions.

**State of the search.** `stack` is `search_stack_`; an element is a record of its characteristic, guesses
and phase.  `char` is `characteristic_`, `critical`, `criticalIndex` and `guessCritical` are
`critical_bits_`, `critical_bit_index_` and `guess_critical_bits_`, `switched` is
`switched_back_or_stack_empty_`; `phase`, `credits`, `checks` and `passes` are fields of
`current_status_`.  Phases and indices are counted from 1, as sequences of TLA+ are.  `pc`
names a place between two steps; `task` and `caller` are what a call of `Guess` or
`BackTrack` keeps in the stack frame, `mask`, `todo` and `clean` the locals of
`CompleteCheck` and `Characteristic::Complete`.

**Steps.** One step is one turn of a loop of the code, or one call made by a loop.
`GuessBit` is `Search::GuessBit` as a whole: first choice, second choice, the guess on the
stack, and, if both fail, the critical bit that `Start` adds.  A way back runs in the steps
of `SearchStack`: one for each element or guess that is dropped, one for each other choice
that is tried.  `Settle` is the rest of `BackTrack`.  A completeness check takes one step
for every bit it tries.

**Propagation.** `Search` takes `Update` for one step; `Propagation` runs its loop.  `cond`
and `list` are the conditions and the worklist of each characteristic, `at` says at which place
of `heap` it has its matrices: `ShallowCopy` makes two characteristics point to the same
place, an assignment writes over the matrices where they are, a copy from the stack brings
its own.  `call` is the frame of the `Update` that runs: who called it, on which
characteristic, whether changes are logged, and (for the properties only) the conditions it
was called with.  `UpdateBitslice` is the turn of one bitslice; the turn of a linear step is
`UpdateLinear`, one `AddNext` for each equation of a condition, one `Reduce` for each turn of
`EpsilonGauss`, `Sort`, and `LinearDone` with the erased entry and, after the last entry of the
step, the extraction of conditions.  The callers are `GuessBit` with `FirstTried` and
`SecondTried` (`Search::GuessBit`) or `Evaluated` (`EvaluatePos`), and `CompleteBit` with
`OneTried`, `TwoTried`, `Kept` (`Characteristic::Complete`); any of them may come next, with
any bit.  A row of `LinearMatrix` is the set of its columns; `row`, `rowinv`, `extract`,
`updateRows` and `updatePivot` are the members of the same names.

**Caches.** `data` and `lru` are the tables and orders of use of all caches, `initialized`
and `filepath` the flags of the same names, `disk` the files.  `InitCaches` is the creation of
the first or a further step of a function, `Compute` a question of a step, `DumpAllCaches` and
one `SaveDump` for each cache are `CheckforDump`, and `Stop` ends the program anywhere else.
The files stay.  A file cannot be opened, or is cut short where `CutShort` says so.

**Check.** `crypto`, `touches` and `matrix` are what the constructor of a crypto builds;
`ch` has the conditions of the three containers, the slices to update and those that may have
relations.  `Read`, `UpdateAll`, `StartComplete`, one `CompleteBit` for each bit that is
tried, and `EndComplete` are `CheckCharacteristic`; `twobits`, `mask` and `todo` are the list
of `TwobitContainer` and the masks of `Complete`, `answer` what is returned.

**Hash functions.** `crypto` has the main words, which are given or looked at; the steps stay with
the constant they come from, and `steps` is their number.  `ReadWord` gives a word of the messages or of the start, `UpdateStep`
updates all slices of a step, `Again` goes back to the first step while something has
changed, `KeepState` forgets everything but the words of the state, `End` is reached when
nothing changes any more.

**What is abstracted.**
- A bitslice is a relation: the set of the values its bits can take together.  `Update` is
  the largest characteristic below the given one that no bitslice narrows, for every bit the
  values that occur in an allowed combination; that is what `Propagate::Collect` gathers, and
  the order of the worklist does not matter for it.  `UpdateIsClosure` says that `Propagation`
  gets there (section 5: proved, unless a bit of a linear step is left with three pairs).
- Where `GuessBit` finds both choices contradictory the code leaves a characteristic whose
  propagation was cut off.  `BackTrack` assigns to it before anything else reads it; the model
  has the contradictory fixpoint there.
- The lookahead strategies choose some bit of a mask, after trials that they undo: any bit.
- Which bits have enough two-bit conditions is any of the sets in `TwobitMasks`; a mask of a
  setting is a set of bits without a two-bit threshold.
- Random numbers are choices; a probability is 0, 1 or between.
- Callbacks belong to the cryptos: they refuse or do not (`MayReject`).  The callback on
  restart and the one for a found characteristic change nothing.
- In `Propagation` a bitslice has one position; a step of several positions is several
  entries of `StepList`.  Rows are looked at in any order (the conditions they give are
  intersected), and the purge of entries by priority is left out: its limit exceeds every priority.
- `UndoAndRestore`, with the stash it reads, and `LinearMatrix::XorBit` have no caller, and
  `TRANSFER_LINEAR_CONDITIONS` is defined nowhere.  The log's entry for the initialisation of
  a matrix is dropped by the first copy, before anything is undone.
- In `CharacteristicCheck` and `Hashes` conditions are sets of numbers as in `condition.h`.
  Linear steps are not among the steps of a crypto; those of the hash functions say again
  what bitslice steps say.
- A cache is asked for the inputs in `Asked`; its keys are conditions, not the bytes they are
  packed into.  Files of two-bit relations have records of no bytes, so reading one changes
  nothing; they are left out.
- A text is the sequence of the conditions of its words; names, counters, columns and colours
  are left out.
- `Hashes` takes the steps in turn, not by priority: what is reached is the same.
- `get_pop_back` has no caller.  The strategy `custom` is empty in the code and not modelled.

## 3. What is checked

| Run | Shows |
|---|---|
| `choice` | every choice remembered: `TypeOK`, `NoSolutionLost`, `NothingTwice`, `StackDoable`, `SnapshotsNested`, `StackShape`, `FoundIsDone`, and the inductive invariant `SearchInv` of the proofs |
| `jump` | leaps, callbacks that refuse, the program's ends, no snapshots (`stack-frequency` below 0), a build with assertions: `TraceInv`, `StateIsRebuilt`, `CriticalInRange`; the search implements `DecisionStack`; under fairness `StartsOver` |
| `kept` | a sum and an AND of three bits; characteristics after guesses are kept and come back: `TypeOK`, `MatricesFaithful`, `UpdateIsClosure`, `KeepNeverFails`, the inductive invariant `PropagationInv` of the proofs, under fairness `UpdateEnds` |
| `hulls` | a linear function with two outputs, and a rule that leaves conditions that lack just one pair: `UndoRestores`, `MatrixIsReduced`, `UpdateIsReached`, `KeepNeverFails` |
| `results` | a static and a dynamic cache over evictions, dumps, cut files and restarts: `TypeOK`, `ResultsAreRight`, `OrderKnowsTable`, `LastResultStays`, and the inductive invariant `CacheInv` of the proofs |
| `check` | four cryptos, levels 1 and 3: `TypeOK`, `NoMessageLost`, `GivenHolds`, `NothingMoreToUpdate`, `RelationsHold`, `RelatedBitsHaveChoice`, `CompleteEnds`, `WrittenIsRead` |
| `hashes` | MD4, MD5, SHA-1, SHA-256, HAS-160, RIPEMD-128 and RIPEMD-160 with all rounds: `TypeOK`, `StepsAgree`, `DigestsAreRight`, `MessageFollows` |
| `empty_stack` | violated: `assert(!search_stack_.empty())` in `BackTrack` |
| `unchecked` | violated: a phase with `twobit_complete` ends unchecked |
| `release` | violated: a leap returns a state that is propagated |
| `shared_file` | violated: with XOR of two and of three inputs, `ResultsAreRight` |
| `level3` | violated: after level 3 every '-' or 'x' bit has a choice that goes through |

The properties of search and propagation, in words:
- `NoSolutionLost`: between two restarts each solution is still allowed by the current
  characteristic or by a choice on the stack.  It needs `Exhaustive`: all choices remembered,
  ways back by choice, no callback.  (A guess on '?' brings guesses along that are not
  remembered, so such a configuration gives solutions up by design.)  It could break where a
  choice fails, where a snapshot is narrower than its guesses, and where an element is dropped
  with its phase.
- `NothingTwice`: the remaining choices exclude each other and the current characteristic.
- `StackDoable`: "there should only be doable guesses on the stack", as the code says.
- `SnapshotsNested`: a snapshot lies below what the element under it leads to.
- `StackShape`: phases in order on the stack, the top one being the current, and the limit
  of an element.
- `CriticalInRange`: the assertion on `critical_bit_index_`.
- `FoundIsDone`: a characteristic that is reported has a solution and no bit to guess in any
  phase.  It speaks of configurations whose phases guess down to single pairs.
- `SearchInv`: the inductive invariant of section 5.  What it adds to the others: guesses fit
  the condition they divide, snapshots descend over the whole stack, the characteristic lies
  below what the guesses make, bits that an earlier phase decided stay decided in each snapshot,
  and the search goes back only from a characteristic without a solution.
- `StateIsRebuilt`: what comes back from the stack is propagated.
- `StartsOver`: a start always ends, by a restart or the end of the program.
- `ImplementsDecisionStack`: what the client sees does not depend on elements and snapshots,
  and a decision is given up only if its other choice is no way out.
- `TraceInv`: the characteristic and each snapshot are exactly what the guesses below them make of
  the start, and a leap never has more guesses to discard than there are.
- `MatricesFaithful`: at every step of an `Update`, and whenever the search goes on, the
  matrices say, together with the conditions, exactly what the linear functions say.  The
  conditions are needed: an equation of a condition eliminates a column and is not kept.
- `PropagationInv`: the inductive invariant of section 5, in three parts.  `PropInv` adds to the
  others that every change in a log can be taken back, that the equations that wait hold for the
  values the conditions allow, and that a characteristic that is kept shares its matrices with none.
  `ReducedInv` says which rows are not reduced while an equation is eliminated, and that no log leads
  back to such a matrix.  `ClosureInv` says that whatever `Update` has still to do is in its
  worklist, or marked in a matrix, and that nothing is taken away that it should leave.
- `UndoRestores`: wherever an `Update` stops that tries a guess, `Undo` leaves reduced matrices
  that fit the conditions of the characteristic that knows nothing of the guess.
- `MatrixIsReduced`: the assertions of `DEBUG_LINEARMATRIX` and the data kept beside the rows.
- `UpdateIsClosure`: the conditions after an `Update` that holds are the closure that `Search`
  uses, and one that fails has a contradictory closure, whatever was tried on the matrices
  before.  It needs conditions that have equations, as they do in `kept`: from a
  condition of three pairs a linear step learns nothing, and leaves more than the closure.
- `UpdateIsReached`: for all conditions, what `Update` reaches is the largest characteristic that
  no step narrows, if a linear step takes a condition that lacks just one pair for '?'.  So it
  depends neither on the order of the worklist nor on what was tried before.
- `KeepNeverFails`: "should never fail!" in `Complete`.
- `UpdateEnds`: the worklist gets empty.

Of the caches:
- `ResultsAreRight`: a result is that of the function for the conditions that were asked for,
  whatever was asked, evicted, dumped and loaded before, and though symmetric inputs are
  sorted before the lookup and sorted back after it.  The reference is the set of all
  values of the function.
- `OrderKnowsTable`: the assertions of `Evict`, and the capacity.
- `LastResultStays`: the result used last is not what makes room for the next one.
- `CacheInv`: the inductive invariant of section 5.  What it adds to the others: the caches of a
  function are empty before its first step, tables and files hold what the loop computes, and
  an answer is what the loop computes, whoever computed it and when.
- `ASSUME`s of `CacheProperties` compare the functions with each other: an adder of two
  bits is two adders, selections are their tables.

Of the check (the pairs of messages are computed apart from the steps, by addition and
XOR of words):
- `NoMessageLost`: no step excludes a pair of messages that the file allows; a check that
  fails has none.
- `GivenHolds`: what the file says of a bit stays true, although the bits of a word may
  be spread over conditions that other bits and steps write.
- `NothingMoreToUpdate`: when an update has gone well no slice has more to say.  It depends
  on what wakes a slice: rotations, carries of the neighbour, parts of wider conditions.
- `RelationsHold`: a two-bit relation holds for each pair of messages that conforms.
- `RelatedBitsHaveChoice`: level 2 leaves a choice to each bit with a relation.  A change
  at a later bit can take it from an earlier one, which is why all bits are looked at again.
- `CompleteEnds`: each bit leaves fewer bits to look at or fewer pairs; so the loop ends.
  (It is an invariant on the next turn, no fairness is needed.)
- `WrittenIsRead`: a fresh characteristic, read from what is written of a checked one, says
  the same of every word shown, both for the main words and for all.  Reading filters rows and
  writing filters words; the two have to agree.

Of the hash functions:
- `StepsAgree`: a pair of messages goes through all steps, forwards and backwards; some
  steps of a crypto say again what others say, for wider slices.
- `DigestsAreRight`: all conditions get decided, and the last words are the digests of the
  standards.
- `MessageFollows`: from the words of the state alone all other words follow again.

**Bounds.** The search has five bits: `a`, `b` and `c` have no difference, `d` and `e`
have one.  Bitslices are chosen so that a guess of the first phase fails in the second: on one
choice at once, on the other after the next guess (`MCSearch!Rising`).  `Trap` adds two that
leave some solutions; `DeadEnd` has none.  `Credits` is between 2 and 6, so that a start has a
few ways back and ends by running out; `CriticalLimit` is 1 or 2 instead of 10, so that
the list overflows; `CompleteLimit` 1 instead of 20, so that the limit of checks is met;
`BackFraction` 2 or 3 instead of 10, so that a leap over a few guesses is not empty;
`Frequency` 2, so that elements fill, or below 0.  These are the code's constants as
CONSTANTS; no state constraint is used.  Five bits are enough for two guesses in the
phase of differences and three in the phase of values, a full element in each and ways back
over both; `jump` has a phase with nothing to guess before them, so that an element is left
without a guess.  Nothing else bounds the state: counters are reset by a restart.

`MCPropagation` has three bits and a linear step with one output; only it has `Keeping`, which
multiplies states.  `MCHulls` has four bits and a linear step with two outputs, so four rows move; it
starts with three bits of which nothing is known: conditions of three pairs need that.  The number of guesses, trials and ways back is not
bounded: conditions only get narrower until something is taken back.

`MCCaches` has XOR of two inputs (12 bits, static) and an adder of two inputs (20 bits,
dynamic), a capacity of 2 for four inputs of which two are the same after sorting, and three
conditions for the keys of the static cache.  Only files of the dynamic cache are cut
short: a static cache with a cut file gives wrong results by design of its loading (see the
hazards).  Programs may be started, stopped and dumped any number of times.

`MCCheck` has an adder of the tests (`add2`), a round with a rotation, an XOR and an adder
with a carry word (`round`), an XOR of two-bit conditions over horizontal words of three bits
with a rotation (`horizontal`), and selections that decide a bit only together (`copied`).
Words have two bits, or three where a rotation of two bits would be its own inverse: enough for a carry to
come from and go to a neighbour.  All pairs of messages of these sizes are compared.

`MCHashes` has full words and rounds, with the empty message as first and "abc" as second
message.  One pair shows that each step is what the standard says on two inputs, which a
wrong rotation, constant or order of words does not survive.  RIPEMD-160 goes forward only.
The VIEW leaves out the words, which the name of the crypto determines.

**Fairness.** `FairSpec` has weak fairness of `Next`: the program is a single thread that
keeps running.  `UpdateEnds` needs it of the steps of `Update` only.  No fairness is assumed
of random choices.

**Deadlock** is checked where the program cannot stop; `jump` and `empty_stack` can
end it (`MayStop`, `EndFound`, the assertion).

## 4. Where the code and its text disagree

- `empty_stack`: the first guess after a start can fail with both choices; `BackTrack` then
  runs into its assertion.  The check before a search tries bits with two-bit conditions only.
- `unchecked`: the flag `switched_back_or_stack_empty_` from the last way back is still set
  when the search reaches the end of the earlier phase; `CompleteCheck` is left at once, with
  the result that all is well.
- `release`: `SearchStack::backtrack` calls `Update` in an `assert`; the default build type,
  Release, has none.  (The next guess propagates again, so no wrong result follows:
  `FoundIsDone` is proved without the assertions.)
- `shared_file`: the file of a cache is named after the action and the function's name, and
  XOR has the name `XOR<N>` for every number of inputs.  A crypto with two of them (SipHash, SM3) reads
  the results of one for the other after a dump.  `IFADD4ADD2` of RIPEMD-160 and `ADD4ADD2`
  of MD5 and RIPEMD-160 clash in the same way.
- `level3`: `Complete(f)` hands on a mask without a bit, so level 3 completes nothing.

## 5. What is proved

All theorems hold for all values of the constants that satisfy the assumptions of the
modules: any finite or infinite set of bits, any bitslices, any phases, limits and credits.
Every safety property that the runs check of the search and of the caches is a theorem (of the
caches all but the types) and of propagation is a theorem, and so is the refinement; TLC checks
the same formulas on the instances.

**`CharacteristicProofs`: the choices, and what `Update` reaches.**
- `ChoicesDivide`: the two choices of a condition are parts of it and, if more than one pair
  is left, divide it.
- `UpdateIsPropagated`: the union of all fixpoints below a characteristic is a fixpoint, so
  the largest one exists, and `Update` reaches it.  With the lemmas beside it `Update` narrows,
  is monotone and idempotent.
- `UpdateKeepsSolutions`, `ChoicesKeepSolutions`: no solution is lost by propagation; one of
  the two choices for a bit keeps it.
- `DecidedIsSolution`: one pair for each bit and no contradiction is a solution.  This one
  needs that a bitslice has a bit (`s.bits # {}` in `StepsAssumption`, as every step of the
  code has an output): one without bits and with an empty relation is never noticed.

**`SearchProofs`: the variables.** `TypeCorrect` and `CriticalIndexInRange`, from `Inv`.  `TypeOK`
is not inductive: the bound of the credits needs to know that they are positive behind the
head of the loop and at least -1 inside a completeness check (`CreditsInv`); the index of the
critical bits needs to know, while a guess is under way, that the flag implies an index of at
most one behind the list (`CriticalInv`); `TodoInv` places the bits of a completeness check.

**`SearchProofs`: the stack.** `StackHasShape`, `StackIsDoable`, `SnapshotsAreNested`,
`PopsRebuild` and `NothingIsTriedTwice`, from `StackInv`, which speaks of
- each element: a guess has two choices without a common pair, parts of what the bit had
  before (`GuessesFit`), and the guesses can be repeated (`Doable`);
- any two elements: the upper starts below what the guesses of the lower make (`Descending`).
  Neighbours alone would not do: a way back drops elements and returns to any of them.  The
  phases ascend, no element is longer than the frequency;
- stack and client (`OpInv`): the stack works while the client waits, it ends with the phase
  of its top element and with room for a guess there.  A leap that discards nothing finds the
  room that was there before, which is why `OpInv` follows the number of guesses left to discard;
- the characteristic (`CharInv`): it lies below what the guesses of the top element make.  It
  may be narrower: a completeness check decides bits without a guess, and what it found is
  forgotten on the way back.  Equality, the first attempt, is invariant only where such a check has
  nothing left to decide, as `TraceInv` says.

`SnapshotsAreNested` and `PopsRebuild` assume `Rebuilds`: the build has assertions or no phase
leaps.  Without it they are false, as the run `release` shows for the second; everything else,
also that what is found is a solution, is proved for the release build as well.
`NothingIsTriedTwice` follows from `StackInv` alone: of two remaining choices the later one
is below the choice that was taken where the earlier one branches off.

**`SolutionProofs`: the solutions.** `NoSolutionIsLost`, from `SolutionInv`: the property itself
and that the search goes back only from a characteristic without a solution.  For a choice
both of whose guesses fail this is `ChoicesKeepSolutions`.  When an element is dropped, a
solution that was in the characteristic of a later one is in no way left, so it must be in a
choice of one of those that stay.  `WhatIsFoundIsDone` assumes `AllDecided`: each bit belongs to
a phase that guesses it down to one pair.  `MCSearch` states that its instances do
(`BitsAreDecided`); without it a search reports characteristics that still leave bits open, which
is how the tool is meant to be used.  `DecidedInv` says where the decided bits of a phase are
found again: in each snapshot of a later phase.  So phases that are left and entered again
need no second look.

**`RefinementProofs`: the abstract stack.** `SearchImplementsDecisions`: `Spec` implies
`ImplementsDecisionStack`, from `TraceInv`, which `TraceInvariance` shows to be invariant.
- The abstract state is a function of the trail alone: all decisions are made at once on the
  start, and then propagated.  The code propagates after each guess, keeps a snapshot now and
  then and repeats only the guesses since.  What it reaches lies between the decisions on the
  start and their propagation; everything between these two is propagated to the same
  characteristic, so the snapshot and the frequency make no difference.
- The trail is the concatenation (`FlattenSeq`) of the guesses of all elements.  Lemmas say what
  a guess, a dropped guess and a dropped element make of it: a decision more, a decision less,
  nothing, since an element is dropped when it has no guess left.
- Then each action is a step or a stutter: a choice on the stack is `Decide`; a choice of
  which both guesses fail, or a callback that refuses, is `Fail`; a dropped guess is `Discard`, the
  other choice `Flip`, a guess discarded by a leap `Leap`, the return to the client
  `Resume`, the end of a phase `EnterPhase`, a restart `Restart`.  All other actions,
  dropping an element and starting one among them, change nothing the abstract stack sees.

It has two hypotheses.  `Rebuilds` is the one above: a leap of a release build returns what is not
propagated.  `ChecksDecideNothing` says that the phases up to a completeness check decide every
bit; otherwise the check decides bits without a guess, and the search then knows more than its
guesses say.  `MCSearchRefinement` states both of its instances (`RefinementAssumption`), and
`jump` checks `TraceInv` on them.

**`CacheProofs`: the caches.** For any functions, questions, capacity and names of files, and over
every history of questions, dumps, cut files, stops and restarts:
- `OrderIsKnown`: `OrderKnowsTable`, from `ShapeInvariance`, without a hypothesis.  `LoadDump` of a
  dynamic cache empties the table and leaves the order of use as it is, and the assertions of
  `Evict` would fail after that.  It does no harm since `StepsInv` holds: a cache gets its
  file name with the first step of its function, before any question, so the order is empty too.
  What is then read is inserted record by record, whatever is in the file.
- `LastResultIsKept`: `LastResultStays`, for a capacity above 1 (the code's is 2^22).  With room
  for one the next question evicts the last result.
- `AnswersComputed`: an answer is what the loop over all pairs computes for the sorted input, sorted
  back.  The argument is `RightTables` and `RightFiles`: tables and files hold what
  the loop computes for their keys; inserting, evicting, moving to the front, and reading a part of
  the records keep that.
- `ResultsRight`: `ResultsAreRight`, from that.
- `SortInputRearranges`: what `SortInput` returns is a rearrangement of its input, and `perm` says
  which.  So a sorted input is a key again.

The theorems name what they take for granted.  `OwnFiles`: no two caches have the same file, and
files of static caches are not cut short; without the first half the results are wrong (the run
`shared_file`), without the second as well (see the hazards).  `KeysHavePlaces`: the key of a
question is found at its place in a static cache.  It is arithmetic of powers, of which the
provers know nothing.  `LoopIsRight`, for `ResultsRight` only: the loop over all pairs, sorted inputs
included, gives the results of the function for the inputs in question, which is induction over
data.  TLC evaluates the last two on the instances (`CachesHypotheses` of `MCCaches`), and
`OwnFiles` holds in `results`.

**`PropagationProofs`: the matrices.** For any list of steps, any start and any order of guesses,
trials and ways back: `PropInvariant` (`Spec` implies `[]PropInv`), and from it `PropagationTypeOK`,
`MatricesStayFaithful` (`MatricesFaithful`) and `UndoIsFaithful`, the first half of
`UndoRestores`.  Their only hypotheses are the assumptions of the modules: `LinearAssumption` says
what a linear step is, its bits different from each other and its dependencies among its inputs.
Lemmas add the reduced form (`StepReduces`), for the theorems of `ClosureProofs`.
- What is to be shown is an equivalence, not an inclusion: for values that the conditions allow, the
  rows hold exactly if the relation of the step does.  Adding an equation that these values
  satisfy keeps it (`Follows` in the lemmas: each change adds one row, or an equation that
  holds, to a row, or moves rows).  So `EquationsHold` has to say of the equations that
  wait, while others are added and rows are reduced, that the conditions imply them.
- `Exact` says a little more than `MatricesFaithful`: the equivalence holds also for the one value
  that a condition of three pairs lacks, since no equation excludes it (`Hull`).  `ClosureProofs`
  needs that, to say what `Update` reaches from such conditions.
- `Shaped`: the stored pivots are the first columns of the rows, the places of the rows are a
  permutation and `rowinv` is its inverse.  `XorInto` relies on it: it does not look at the row for a
  new pivot unless the two first columns are the same.
- `Undoable`: taking changes back one by one leads through matrices that are `Shaped`.  A change is
  its own inverse (two sums cancel, a permutation is undone by exchanging `out` and `in`), which for a
  permutation needs that the rows that stay keep their order; so what `Undo` reaches from a log with
  one change more is what it reached before (`Leads`).  That is why a log is a part of the
  invariant: a trial may stop in the middle of an elimination.
- `Called` says whose matrices are whose: the two characteristics of a trial share, the one that is
  kept never does.  `Narrows`: a choice narrows the condition of the bit it is tried on, so
  matrices that fit the condition fit the choice.
- `ReducedInv`: between two equations every matrix of the working characteristic, of those it
  shares with and of those that are kept is `Settled`: no pivot column in another row, rows in the order
  of their pivots.  While an equation is eliminated, `Pending` says how much of that is left:
  rows marked in `updateRows` wait for an elimination, those of `updatePivot` for the sorting, all
  others are reduced already.  A turn of `EpsilonGauss` reduces one marked row with those that
  are not marked and marks the rows that hold its new pivot; `SortByPivot` puts the rows in
  order once none is marked.  The invariant also speaks of what `Undo` makes of a log, so
  that a turn that ends with a contradiction leaves no row waiting in the matrix that comes back.

**`ClosureProofs`: what `Update` reaches.** `ClosureInvariant`: `Spec` implies
`[]PropagationInv`; its three parts need each other.  From it follow, without
a hypothesis, `ReducedInvariant`, `UpdateReachesOne` (`UpdateIsReached`), `CompleteKeepsOnlyWhatHolds` (`KeepNeverFails`),
`MatricesAreReduced` (`MatrixIsReduced`) and `UndoAlwaysRestores` (`UndoRestores`, both halves);
and `UpdateReachesClosure`: wherever `ConditionsAreLinear`, `UpdateIsClosure`.
`LinearStartSuffices` gives a start from which this is always so (`StartIsLinear`; `MCPropagation`
states that its instance has it).
- The goal: `Reached` is the largest characteristic below the one `Update` was called with that is
  `Closed`, that is, no step narrows it.  A linear step sees of a condition only its `Hull`.
  Closed characteristics have a largest one since what a step sees grows with the
  conditions.
- Nothing too much is taken away (`ClosureStays`): what a row with the columns of one bit says
  follows from the hulls and the relation (`ValueHolds`), so a closed characteristic below has only
  values that satisfy it.  The same argument shows that `Update` refuses only what leads to no
  values: a solution of the rows is none of 0 = 1.
- Nothing is left to take away.  `WorkWaits` says of all steps whatever is not in the worklist:
  a bitslice that is not changes nothing; the equations of a position that is not have
  eliminated their first columns for good, no row has them any more (`Entered`); and what the rows of
  `data` that are not marked for extraction say of single bits, alone or as the sum of two, the
  conditions say as well (`RowsKnown`).  Each change of a matrix only adds rows together, so no
  column comes back, and marks the rows it changes (`Rewritten`).
- When the worklist is empty, take a value that a condition allows (`NothingLeftAt`).  The matrix is
  in reduced form, so what it says of the two columns of one bit is said by at most two rows, and by
  their sum; since the conditions know these, the value is part of a solution of all rows
  (`SolutionFor`).  Columns that occur in no row were eliminated by equations of conditions, and
  there the hull of the condition has a value that fits (`HullHasValue`).  So the value is part of a
  combination that relation and hulls allow.
- `Updated` says that of every characteristic that is kept, shared or copied: nothing waits,
  everything is closed, and the first columns are gone from its matrix.  So a guess can start
  from it with the entries of one bit in the worklist, and what `Undo` makes of the matrices
  has it again.
- What holds, or is refused, is thereby a function of the conditions alone.  `Complete` keeps a
  choice that held on the other characteristic with the same conditions, so it holds again:
  "should never fail!" is right.  The reduced form depends on it, since `Complete` ignores what
  the `Update` of the choice it keeps returns: if that failed, half an elimination would be left.

`FoldLemmas` makes the folds of the community modules accessible: `FoldLeft` takes its value from a
recursive function on sets of places, which has to be shown to exist (`FoldExists`); what holds at
the start and is kept by each place then holds of the result (`FoldStays`).  `CacheProofs` uses
them for `LoadDump` and `SortInput`.

The choice of a minimal or maximal place (the last guess of a bit, the first element that lost a
solution) uses the well-founded order of the natural numbers (`WFMin` of
`WellFoundedInduction`), since induction schemes take an operator as a parameter.

Out of the prover's reach, and left to TLC: `StartsOver` and `UpdateEnds` (liveness under
fairness), and what recursive definitions compute for every input (induction over data): the loop of
`Bitslices`, the worklist of `CharacteristicCheck`, the steps of `Hashes`.  Not yet proved, checked by TLC
only: the types of the caches (they rest on the loop), and the properties of check and hash functions.

## 6. Not modelled, and the plan

Done, in this order, because the search is what the other parts serve: search and stack with
the first theorems; `LinearMatrix` and `Propagation`; caches with bitslices; proxies, words,
masks, the check and the text; the cryptos of seven hash functions.

Left to prove: `NoMessageLost`.  `CharacteristicCheck` has a RECURSIVE operator (the worklist); it
needs a recursive function first.

Not modelled, and why:
- Cryptos: SHA-512, DHA-256, Skein, SipHash and Salsa would be more of the same; Keccak,
  Ascon, Ketje and ICEPOLE rest on linear steps and S-boxes over hundreds of words.  SM3 reads its
  option `sm3-bs` into a local variable, and the member `bitslice_flags_` that decides which steps
  exist is not initialised (`sm3.cpp:236`): which crypto it builds is not determined.
- Parsing of configurations (`xml_config.cpp`): attributes and text.  The phases it yields
  are constants of `Search`.  `GuessesAssumption` excludes a guess of a condition with one
  pair left, which nothing in the parser does.
- LaTeX, colours, statistics, and what is printed of carries: a characteristic printed with
  carries cannot be read again, since `FilterForMainSteps` drops their rows.
- `GenerateCharacteristic` ignores what `ReadCharacteristic` returns: a text with too few
  lines is read partly.  Checked texts have all their lines.
- Probabilities as floating-point numbers; the pair of counts they come from is modelled.
- Code without a caller: `UndoAndRestore`, `XorBit`, `get_pop_back`, `Clear` of the caches, `Shl`
  and `Shr` of horizontal words, the wider accessors of `VirtualConditionProxy`, references
  to horizontal words that begin above bit 0.
- Words of one bit (`condition_container.h:22` takes the logarithm of a size reduced by one), and
  256 relations at a bit, where the degree wraps: the model wraps too, instances are smaller.
