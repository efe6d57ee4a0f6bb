------------------------------- MODULE Search -------------------------------
(***************************************************************************)
(* The guess-and-determine search (Search::Start, src/src/search.cpp).     *)
(*                                                                         *)
(* A search runs through phases.  In a phase it guesses conditions of the  *)
(* bits the phase's settings name and propagates every guess; when both    *)
(* choices of a condition are contradictory it goes back.  The bits that   *)
(* failed are critical: they are guessed first after going back.  When     *)
(* nothing is left to guess the characteristic can be checked for          *)
(* completeness, a callback of the crypto can refuse it, and the search    *)
(* goes on with the next phase.  Going back costs a credit; without        *)
(* credits, and after the last phase, the search starts over.              *)
(*                                                                         *)
(* One step is one turn of a loop of the code, or one call that a loop     *)
(* makes; the variable pc names the place between two of them:             *)
(*   loop       head of the loop in Start                                  *)
(*   guess      head of the loop in Guess                                  *)
(*   backtrack  call of BackTrack                                          *)
(*   unwind     the stack goes back, see SearchStack                       *)
(*   check      head of the loop in CompleteCheck                          *)
(*   probe      the loop over the bits in Characteristic::Complete         *)
(*   callback   call of the phase's callback                               *)
(*   found      a characteristic was found                                 *)
(*   exit       the program has ended; abort: an assertion has ended it    *)
(***************************************************************************)
EXTENDS SearchStack

CONSTANTS
    Phases,         \* the phases of the configuration, in their order
    Credits,        \* attribute credits of <search>
    CriticalLimit,  \* btlimit in AddCriticalBit, 10
    CompleteLimit,  \* complete_limit in Start, 20
    BackFraction,   \* backtrack strategy 10perc goes back a tenth: 10
    TwobitMasks,    \* the bits that enough two-bit conditions hold: any of these sets
    MayReject,      \* a callback can refuse a characteristic
    EndFound,       \* option end-found: end with the first characteristic found
    MayStop         \* end-time or a dump option can end the program

PhaseNumber == DOMAIN Phases

Setting == [mask : SUBSET Bit, guesses : SUBSET (Condition \X Probability)]

Phase == [twobit : BOOLEAN, backtrack : {"choice", "10perc"}, settings : SUBSET Setting]

ASSUME PhasesAssumption == Phases # <<>> /\ Phases \in Seq(Phase)

\* A setting that guesses a bit with one pair left would guess it forever.
ASSUME GuessesAssumption ==
    \A p \in PhaseNumber : \A s \in Phases[p].settings : \A g \in s.guesses : IsOpen(g[1])

ASSUME LimitsAssumption ==
    /\ Credits \in Nat
    /\ CriticalLimit \in Nat \ {0}
    /\ CompleteLimit \in Nat
    /\ BackFraction \in Nat \ {0}
    /\ TwobitMasks \subseteq SUBSET Bit
    /\ {MayReject, EndFound, MayStop, NDEBUG} \subseteq BOOLEAN

VARIABLES
    pc,             \* the place in the code, see above
    phase,          \* current_status_.phase, counted from 1
    credits,        \* current_status_.remaining_credits
    critical,       \* critical_bits_: pairs of a bit and the phase whose guesses it takes
    criticalIndex,  \* critical_bit_index_, counted from 1
    guessCritical,  \* guess_critical_bits_
    switched,       \* switched_back_or_stack_empty_
    checks,         \* complete_data: the completeness checks of each phase
    passes,         \* complete_data: those that succeeded
    task,           \* the bit Guess works on and the guesses it may take
    caller,         \* who called Guess or BackTrack
    mask,           \* the bits CompleteCheck looks at
    todo,           \* those Complete has not tried yet
    clean           \* CompleteCheck has not gone back

searchVars == <<phase, credits, critical, criticalIndex, guessCritical, switched,
                checks, passes>>
taskVars == <<task, caller>>
checkVars == <<mask, todo, clean>>
vars == <<stackVars, pc, searchVars, taskVars, checkVars>>

-----------------------------------------------------------------------------
(* The configuration, as XmlConfig leaves it *)

\* Guesses on '?' bring along those on the mixed conditions, with probability 1.
Mixed == {bc \in Condition : IsOpen(bc)} \ {NoDifference, Difference, Pair}

SettingGuesses(s) ==
    s.guesses \cup
        (IF \E g \in s.guesses : g[1] = Pair THEN {<<bc, "one">> : bc \in Mixed} ELSE {})

\* A critical bit may take the guesses of its phase and of the phases before.
BacktrackGuesses(p) ==
    {<<g[1], DefaultProbability(g[1])>> :
        g \in UNION {UNION {SettingGuesses(s) : s \in Phases[q].settings} : q \in 1..p}}

\* The bits of a setting that can be guessed.
SearchMask(s, c) == {b \in s.mask : \E g \in SettingGuesses(s) : g[1] = c[b]}

\* GenerateSearchMasks returned true.
Guessable(p, c) == \E s \in Phases[p].settings : SearchMask(s, c) # {}

NoTask == [pos |-> CHOOSE b \in Bit : TRUE, guesses |-> {}]

\* The bits in a set whose condition is '-' or 'x'.
TwoPairs(S, c) == {b \in S : c[b] \in {NoDifference, Difference}}

-----------------------------------------------------------------------------
(* Restart and the head of the loop *)

RestartSearch ==
    /\ stack' = <<Element(Start, 1)>>
    /\ char' = Start
    /\ phase' = 1
    /\ credits' = Credits
    /\ critical' = <<>>
    /\ criticalIndex' = 1
    /\ guessCritical' = FALSE
    /\ switched' = FALSE
    /\ checks' = [p \in PhaseNumber |-> 0]
    /\ passes' = [p \in PhaseNumber |-> 0]
    /\ pc' = "loop"
    /\ UNCHANGED <<back, op, steps, taskVars, checkVars>>

Init ==
    /\ stack = <<Element(Start, 1)>>
    /\ char = Start
    /\ back = 1 /\ op = "idle" /\ steps = 0
    /\ pc = "loop"
    /\ phase = 1
    /\ credits = Credits
    /\ critical = <<>> /\ criticalIndex = 1 /\ guessCritical = FALSE
    /\ switched = FALSE
    /\ checks = [p \in PhaseNumber |-> 0]
    /\ passes = [p \in PhaseNumber |-> 0]
    /\ task = NoTask /\ caller = "bit"
    /\ mask = {} /\ todo = {} /\ clean = TRUE

\* The time given by end-time is over, or UpdateStatus wrote a dump.
Stop ==
    /\ MayStop
    /\ pc = "loop"
    /\ pc' = "exit"
    /\ UNCHANGED <<stackVars, searchVars, taskVars, checkVars>>

(***************************************************************************)
(* The code also restarts on an empty stack if credits_ is below the       *)
(* configured credits; nothing lowers credits_, so it never does.          *)
(***************************************************************************)
OutOfCredits ==
    /\ pc = "loop"
    /\ credits <= 0
    /\ RestartSearch

AtHead == pc = "loop" /\ credits > 0

PickCritical ==
    /\ AtHead
    /\ guessCritical
    /\ LET bit == critical[criticalIndex]
       IN  task' = [pos |-> bit[1], guesses |-> BacktrackGuesses(bit[2])]
    /\ criticalIndex' = criticalIndex + 1
    /\ caller' = "critical"
    /\ pc' = "guess"
    /\ UNCHANGED <<stackVars, phase, credits, critical, guessCritical, switched,
                   checks, passes, checkVars>>

\* ChooseGuessPos: any lookahead strategy picks a bit of one of the masks.
PickBit ==
    /\ AtHead
    /\ ~ guessCritical
    /\ \E s \in Phases[phase].settings : \E b \in SearchMask(s, char) :
          task' = [pos |-> b, guesses |-> SettingGuesses(s)]
    /\ caller' = "bit"
    /\ pc' = "guess"
    /\ UNCHANGED <<stackVars, searchVars, checkVars>>

NothingToGuess == AtHead /\ ~ guessCritical /\ ~ Guessable(phase, char)

-----------------------------------------------------------------------------
(* Guess and GuessBit *)

\* A slip: the limit is checked before the new bit is in front.
WithCritical_Unlimited(b, p) == <<<<b, p>>>> \o critical

\* AddCriticalBit: in front, and the oldest leaves when there are too many.
WithCritical(b, p) ==
    LET added == <<<<b, p>>>> \o critical
    IN  IF Len(added) > CriticalLimit THEN Front(added) ELSE added

\* A slip: a choice that was tried first never leaves the other one behind.
Remembered_Never(p, other) == Contradiction

\* The other choice stays on the stack for a probability between 0 and 1 only.
Remembered(p, other) == IF PushStack(p) THEN other ELSE Contradiction

Push(c, b, first, second) ==
    /\ char' = c
    /\ stack' = WithGuess(stack, c, [pos |-> b, first |-> first, second |-> second])

(***************************************************************************)
(* The first choice, and if that is a contradiction the second.  The other *)
(* choice goes on the stack only with the first.  If both fail,            *)
(* characteristic_ is left contradictory until BackTrack assigns to it,    *)
(* and Start makes the bit a critical one unless it was one.               *)
(***************************************************************************)
GuessBit ==
    /\ pc = "guess"
    /\ \E g \in task.guesses :
          /\ g[1] = char[task.pos]
          /\ \E i \in FirstIndex(g[2]) :
                LET b     == task.pos
                    first == CHOICES(g[1])[i]
                    other == CHOICES(g[1])[3 - i]
                    c1    == Choose(char, b, first)
                    c2    == Choose(char, b, other)
                IN  \/ /\ ~ Contradictory(c1)
                       /\ Push(c1, b, first, Remembered(g[2], other))
                       /\ UNCHANGED <<pc, critical, task>>
                    \/ /\ Contradictory(c1) /\ ~ Contradictory(c2)
                       /\ Push(c2, b, other, Contradiction)
                       /\ UNCHANGED <<pc, critical, task>>
                    \/ /\ Contradictory(c1) /\ Contradictory(c2)
                       /\ char' = c1
                       /\ pc' = "backtrack"
                       /\ critical' = IF caller = "bit" THEN WithCritical(b, phase) ELSE critical
                       /\ task' = NoTask
                       /\ UNCHANGED stack
    /\ UNCHANGED <<back, op, steps, phase, credits, criticalIndex, guessCritical,
                   switched, checks, passes, caller, checkVars>>

\* No guess for the bit's condition is left.  The last critical bit ends their turn.
GuessDone ==
    /\ pc = "guess"
    /\ \A g \in task.guesses : g[1] # char[task.pos]
    /\ guessCritical' = (guessCritical /\ criticalIndex <= Len(critical))
    /\ pc' = "loop"
    /\ task' = NoTask
    /\ UNCHANGED <<stackVars, phase, credits, critical, criticalIndex, switched,
                   checks, passes, caller, checkVars>>

-----------------------------------------------------------------------------
(* BackTrack *)

\* assert(!search_stack_.empty()), in a build that has it.
AbortBackTrack ==
    /\ pc = "backtrack"
    /\ ~ NDEBUG
    /\ NoGuesses(stack)
    /\ pc' = "abort"
    /\ UNCHANGED <<stackVars, searchVars, taskVars, checkVars>>

\* A slip: the flag does not ask whether there is a critical bit.
HasCritical_Always == TRUE

HasCritical == critical # <<>>

\* BackTrack up to the call of the stack by the strategy of the phase.
BackTrack ==
    /\ pc = "backtrack"
    /\ NDEBUG \/ ~ NoGuesses(stack)
    /\ guessCritical' = HasCritical
    /\ criticalIndex' = 1
    /\ IF Phases[phase].backtrack = "choice"
       THEN op' = "choice" /\ steps' = 0
       ELSE op' = "jump" /\ steps' = Size \div BackFraction
    /\ pc' = "unwind"
    /\ UNCHANGED <<stack, char, back, phase, credits, critical, switched, checks,
                   passes, taskVars, checkVars>>

Unwind ==
    /\ pc = "unwind"
    /\ StackStep
    /\ UNCHANGED <<pc, searchVars, taskVars, checkVars>>

\* A slip: going back is free.
Spent_Nothing == credits

Spent == credits - 1

\* A slip: the search stays in its phase.
PhaseAfter_Kept == phase

PhaseAfter == back

(***************************************************************************)
(* BackTrack after the call, and what its caller does next: CompleteCheck  *)
(* lowers the flag for the critical bits and looks again, the others go on *)
(* with the loop.                                                          *)
(***************************************************************************)
Settle ==
    /\ pc = "unwind"
    /\ op = "done"
    /\ op' = "idle"
    /\ switched' = (back # phase \/ NoGuesses(stack))
    /\ phase' = PhaseAfter
    /\ credits' = Spent
    /\ guessCritical' = (guessCritical /\ caller # "complete")
    /\ pc' = IF caller = "complete" THEN "check" ELSE "loop"
    /\ UNCHANGED <<stack, char, back, steps, critical, criticalIndex, checks, passes,
                   taskVars, checkVars>>

-----------------------------------------------------------------------------
(* The completeness check *)

\* The check is due, unless it was done too often with too little success.
BeginCheck ==
    /\ NothingToGuess
    /\ Phases[phase].twobit
    /\ checks[phase] + 1 <= CompleteLimit * (1 + passes[phase])
    /\ checks' = [checks EXCEPT ![phase] = @ + 1]
    /\ \E m \in TwobitMasks : mask' = m
    /\ clean' = TRUE
    /\ pc' = "check"
    /\ UNCHANGED <<stackVars, phase, credits, critical, criticalIndex, guessCritical,
                   switched, passes, taskVars, todo>>

TooManyChecks ==
    /\ NothingToGuess
    /\ Phases[phase].twobit
    /\ checks[phase] + 1 > CompleteLimit * (1 + passes[phase])
    /\ RestartSearch

(***************************************************************************)
(* The loop of CompleteCheck is left without a look at the characteristic  *)
(* if the flag is set or the credits are spent.  The flag tells what the   *)
(* last BackTrack did, which can be before the check began.                *)
(***************************************************************************)
LeaveLoop == switched \/ credits < 0

CheckPassed ==
    /\ passes' = [passes EXCEPT ![phase] = @ + 1]
    /\ pc' = "callback"
    /\ UNCHANGED <<stackVars, phase, credits, critical, criticalIndex, guessCritical,
                   switched, checks, taskVars, checkVars>>

\* CompleteCheck returned false: another credit, and on with the loop.
CheckFailed ==
    /\ credits' = credits - 1
    /\ pc' = "loop"
    /\ mask' = {} /\ todo' = {} /\ clean' = TRUE
    /\ UNCHANGED <<stackVars, phase, critical, criticalIndex, guessCritical,
                   switched, checks, passes, taskVars>>

EndCheck == IF clean THEN CheckPassed ELSE CheckFailed

Check ==
    /\ pc = "check"
    /\ \/ LeaveLoop /\ EndCheck
       \/ /\ ~ LeaveLoop
          /\ todo' = TwoPairs(mask, char)
          /\ pc' = "probe"
          /\ UNCHANGED <<stackVars, searchVars, taskVars, mask, clean>>

(***************************************************************************)
(* One bit of Characteristic::Complete.  A bit whose choices both hold     *)
(* leaves the list, with every bit that got another condition in either    *)
(* trial.  If one choice fails the bit gets the other, and the list is     *)
(* made anew; if both fail the characteristic is not complete.             *)
(***************************************************************************)
ProbeBit(b) ==
    LET r(i)  == Choose(char, b, CHOICES(char[b])[i])
        ok(i) == ~ Contradictory(r(i))
    IN  \/ /\ ok(1) /\ ok(2)
           /\ todo' = TwoPairs(TwoPairs(todo, r(1)), r(2))
           /\ UNCHANGED <<char, pc, caller, clean>>
        \/ \E i \in {1, 2} :
              /\ ok(i) /\ ~ ok(3 - i)
              /\ char' = r(i)
              /\ todo' = TwoPairs(mask, r(i))
              /\ UNCHANGED <<pc, caller, clean>>
        \/ /\ ~ ok(1) /\ ~ ok(2)
           /\ pc' = "backtrack"
           /\ caller' = "complete"
           /\ clean' = FALSE
           /\ todo' = {}
           /\ UNCHANGED char

Probe ==
    /\ pc = "probe"
    /\ \E b \in todo : ProbeBit(b)
    /\ UNCHANGED <<stack, back, op, steps, searchVars, task, mask>>

\* Complete returned true.
ProbesDone ==
    /\ pc = "probe"
    /\ todo = {}
    /\ EndCheck

-----------------------------------------------------------------------------
(* The end of a phase *)

NoCheck ==
    /\ NothingToGuess
    /\ ~ Phases[phase].twobit
    /\ pc' = "callback"
    /\ UNCHANGED <<stackVars, searchVars, taskVars, checkVars>>

LastPhase == phase = Len(Phases)

\* The callback of the crypto refuses the characteristic.
Reject ==
    /\ pc = "callback"
    /\ MayReject
    /\ caller' = "callback"
    /\ pc' = "backtrack"
    /\ mask' = {}
    /\ UNCHANGED <<stackVars, searchVars, task, todo, clean>>

NextPhase ==
    /\ pc = "callback"
    /\ ~ LastPhase
    /\ phase' = phase + 1
    /\ stack' = WithPhase(stack, char, phase + 1)
    /\ pc' = "loop"
    /\ mask' = {}
    /\ UNCHANGED <<char, back, op, steps, credits, critical, criticalIndex,
                   guessCritical, switched, checks, passes, taskVars, todo, clean>>

Found ==
    /\ pc = "callback"
    /\ LastPhase
    /\ pc' = "found"
    /\ mask' = {}
    /\ UNCHANGED <<stackVars, searchVars, taskVars, todo, clean>>

AfterFound ==
    /\ pc = "found"
    /\ IF EndFound
       THEN pc' = "exit" /\ UNCHANGED <<stackVars, searchVars, taskVars, checkVars>>
       ELSE RestartSearch

Next ==
    \/ Stop
    \/ OutOfCredits
    \/ PickCritical
    \/ PickBit
    \/ GuessBit
    \/ GuessDone
    \/ AbortBackTrack
    \/ BackTrack
    \/ Unwind
    \/ Settle
    \/ BeginCheck
    \/ TooManyChecks
    \/ Check
    \/ Probe
    \/ ProbesDone
    \/ NoCheck
    \/ Reject
    \/ NextPhase
    \/ Found
    \/ AfterFound

Spec == Init /\ [][Next]_vars

\* The program is one thread that keeps running.
FairSpec == Spec /\ WF_vars(Next)

=============================================================================
