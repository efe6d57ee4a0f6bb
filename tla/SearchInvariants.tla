-------------------------- MODULE SearchInvariants --------------------------
(***************************************************************************)
(* The inductive invariant of the search: what every step keeps, so that   *)
(* the properties of SearchProperties follow from it.  It has three parts. *)
(* The first is about the variables alone, the second about the stack and  *)
(* what its guesses lead to (both in SearchProofs), the third about the    *)
(* solutions (SolutionProofs).                                             *)
(***************************************************************************)
EXTENDS SearchProperties

-----------------------------------------------------------------------------
(* The variables *)

\* The flag for the critical bits is up only while one of them is left.
CriticalInv ==
    /\ pc \in {"loop", "unwind"} /\ guessCritical => criticalIndex <= Len(critical)
    /\ pc \in {"check", "probe", "callback"} => ~ guessCritical

(***************************************************************************)
(* Credits at each place.  A guess, and a check that has not gone back,    *)
(* starts with one at least; only the check goes back without asking for   *)
(* credits at the head of the loop, and stops below zero.                  *)
(***************************************************************************)
CreditsInv ==
    /\ pc \in {"guess", "callback"} => credits >= 1
    /\ pc = "guess" => caller \in {"bit", "critical"}
    /\ pc \in {"backtrack", "unwind"} =>
          IF caller = "complete" THEN credits >= 0 /\ ~ clean ELSE credits >= 1
    /\ pc = "check" => credits >= -1
    /\ pc = "probe" => credits >= 0
    /\ pc \in {"check", "probe"} /\ clean => credits >= 1

\* Bits are left to try inside the loop of Complete only.
TodoInv == pc # "probe" => todo = {}

Inv == TypeOK /\ CriticalInv /\ CreditsInv /\ TodoInv

-----------------------------------------------------------------------------
(* One element of the stack *)

(***************************************************************************)
(* The two choices of a guess exclude each other, and both are part of the *)
(* condition the bit had when it was guessed: that of the element, after   *)
(* the guesses of the same bit before.                                     *)
(***************************************************************************)
GuessFits(el, j) ==
    LET g == el.guesses[j]
    IN  /\ g.first \cap g.second = {}
        /\ g.first \cup g.second \subseteq el.characteristic[g.pos]
        /\ \A k \in 1..(j - 1) :
              el.guesses[k].pos = g.pos => g.first \cup g.second \subseteq el.guesses[k].first

GuessesFit(el) == \A j \in DOMAIN el.guesses : GuessFits(el, j)

\* Repeating the guesses of an element is not a contradiction.
Doable(el) == ~ Contradictory(Update(Replay(el)))

-----------------------------------------------------------------------------
(* The stack *)

\* What a later element starts from lies below what the guesses of an earlier one lead to.
Descending(st) ==
    \A i, j \in DOMAIN st : i < j => Below(st[j].characteristic, Replay(st[i]))

Updated(c) == Update(c) = c

\* Snapshots are propagated, each of them from what the guesses below it make.
SnapshotsUpdated(st) ==
    /\ \A i \in DOMAIN st : Updated(st[i].characteristic)
    /\ \A i \in 2..Len(st) : Below(st[i].characteristic, Update(Replay(st[i - 1])))

\* The leaps propagate what they repeat, or no phase leaps.
Rebuilds == ~ NDEBUG \/ \A p \in PhaseNumber : Phases[p].backtrack = "choice"

\* The elements are in the order of the phases, and no longer than Frequency.
PhasesAscend(st) == \A i, j \in DOMAIN st : i <= j => st[i].phase <= st[j].phase

Short(st) == Frequency > 0 => \A i \in DOMAIN st : Len(st[i].guesses) <= Frequency

Consistent(st) ==
    /\ \A i \in DOMAIN st : GuessesFit(st[i]) /\ Doable(st[i])
    /\ Descending(st)
    /\ Rebuilds => SnapshotsUpdated(st)
    /\ PhasesAscend(st)
    /\ Short(st)

-----------------------------------------------------------------------------
(* The stack and its client *)

(***************************************************************************)
(* The stack works while its client waits.  It ends with the phase of the  *)
(* top element, and with room for a guess there: a leap that discards no   *)
(* guess at all finds the room that was there before.                      *)
(***************************************************************************)
OpInv ==
    /\ pc = "unwind" <=> op # "idle"
    /\ op = "idle" => Top.phase = phase
    /\ op = "done" => back = Top.phase
    /\ Top.phase <= phase
    /\ op = "jump" => \E p \in PhaseNumber : Phases[p].backtrack # "choice"
    /\ Frequency > 0 =>
          /\ op \in {"idle", "done"} => Len(Top.guesses) < Frequency
          /\ op = "jump" => steps > 0 \/ Len(Top.guesses) < Frequency

\* BackTrack is called with a contradiction, and the stack works without char.
Usable == pc \notin {"backtrack", "abort"} /\ op \in {"idle", "done"}

(***************************************************************************)
(* The characteristic is what the guesses make of the snapshot on top, or  *)
(* narrower: a completeness check decides bits without a guess.            *)
(***************************************************************************)
CharInv ==
    /\ op \in {"idle", "done"} => Below(char, Replay(Top))
    /\ Usable => ~ Contradictory(Update(char))
    /\ Rebuilds => Updated(char)

\* A guess has two choices, and the other one is remembered in an exhaustive search.
TaskInv == \A g \in task.guesses : IsOpen(g[1]) /\ (Exhaustive => PushStack(g[2]))

StackInv == Consistent(stack) /\ OpInv /\ CharInv /\ TaskInv

-----------------------------------------------------------------------------
(* The solutions *)

\* The search goes back.
Exhausted == pc = "backtrack" \/ op \in {"choice", "jump"}

\* It goes back only from a characteristic without a solution.
SolutionInv ==
    Exhaustive =>
        NoSolutionLost /\ (Exhausted => \A s \in Solution : ~ Below(s, char))

\* The bits that phase p guesses until one pair is left, whatever they are.
Decides(p) ==
    {b \in Bit : \A bc \in SUBSET Start[b] : IsOpen(bc) =>
        \E s \in Phases[p].settings :
            b \in s.mask /\ \E g \in SettingGuesses(s) : g[1] = bc}

\* Each bit is decided in some phase.
AllDecided == \A b \in Bit : \E p \in PhaseNumber : b \in Decides(p)

(***************************************************************************)
(* The bits of a phase are decided when it ends, and in the snapshots of   *)
(* the phases behind it, to which the search may go back.                  *)
(***************************************************************************)
DecidedInv ==
    /\ \A i \in DOMAIN stack : \A p \in 1..(stack[i].phase - 1) : \A b \in Decides(p) :
          ~ IsOpen(stack[i].characteristic[b])
    /\ pc \in {"callback", "found"} \/ (pc \in {"check", "probe"} /\ clean) =>
          \A b \in Decides(phase) : ~ IsOpen(char[b])
    /\ pc = "found" => LastPhase

-----------------------------------------------------------------------------
(***************************************************************************)
(* All parts at once: what lets the search go back over any number of      *)
(* snapshots and phases and go on from there as if it had never left.      *)
(***************************************************************************)
SearchInv == Inv /\ StackInv /\ SolutionInv /\ DecidedInv

=============================================================================
