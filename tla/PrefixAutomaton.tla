--------------------------- MODULE PrefixAutomaton ---------------------------
(***************************************************************************)
(* automaton.PrefixAutomaton (src/internal/automaton/prefix.go), driven   *)
(* one byte at a time from Start while CanMatch holds, as a term walk     *)
(* drives an Automaton.  State s > 0 stands for position s - 1 in the     *)
(* prefix; 0 is DeadState.  Bytes are the members of Alphabet.            *)
(***************************************************************************)
EXTENDS Integers, Sequences, SequencesExt

CONSTANTS Alphabet,      \* input bytes
          MaxPrefixLen,  \* longest prefix enumerated
          TextLen        \* longest input fed

VARIABLES prefix,     \* a.prefix
          preState,   \* the State reached on the bytes fed so far
          preInput    \* the bytes fed so far

preVars == <<prefix, preState, preInput>>

DeadState == 0

TypeOK ==
    /\ prefix \in BoundedSeq(Alphabet, MaxPrefixLen)
    /\ preState \in 0..MaxPrefixLen + 1
    /\ preInput \in BoundedSeq(Alphabet, TextLen)

(* Start: state 1 (position 0), for an empty prefix too.                  *)
Start == 1

(* Mutant: past the prefix a byte kills the walk instead of looping.       *)
StepPastPrefixDies(s, b) ==
    CASE s = DeadState -> DeadState
      [] s - 1 < Len(prefix) -> IF b = prefix[s] THEN s + 1 ELSE DeadState
      [] OTHER -> DeadState

(* Step: a byte matching the prefix at pos advances, any other dies; past *)
(* the prefix every byte loops.                                           *)
Step(s, b) ==
    CASE s = DeadState -> DeadState
      [] s - 1 < Len(prefix) -> IF b = prefix[s] THEN s + 1 ELSE DeadState
      [] OTHER -> s

IsAccept(s) == s # DeadState /\ s - 1 >= Len(prefix)

CanMatch(s) == s # DeadState

(* NewPrefixAutomaton, then Start.                                        *)
Init ==
    /\ prefix \in BoundedSeq(Alphabet, MaxPrefixLen)
    /\ preState = Start /\ preInput = <<>>

Feed(b) ==
    /\ CanMatch(preState) /\ Len(preInput) < TextLen
    /\ preState' = Step(preState, b)
    /\ preInput' = Append(preInput, b)
    /\ UNCHANGED prefix

Next == \E b \in Alphabet : Feed(b)

Spec == Init /\ [][Next]_preVars
-----------------------------------------------------------------------------
(* The walk accepts exactly the inputs that start with the prefix, and    *)
(* CanMatch prunes exactly the inputs no extension of which does: Step's  *)
(* position arithmetic (state = pos + 1) and the loop past the prefix.    *)
PrefixAutomatonExact ==
    /\ IsAccept(preState) <=> IsPrefix(prefix, preInput)
    /\ CanMatch(preState) <=> (IsPrefix(prefix, preInput) \/ IsPrefix(preInput, prefix))
=============================================================================
