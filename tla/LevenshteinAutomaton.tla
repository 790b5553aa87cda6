------------------------ MODULE LevenshteinAutomaton ------------------------
(***************************************************************************)
(* coordinator.LevenshteinAutomaton (src/internal/coordinator/            *)
(* query_plan.go): NewLevenshteinAutomaton's checks, then the automaton   *)
(* driven one byte at a time the way a term-dictionary walk drives an     *)
(* Automaton: Step from Start, continuing only while CanMatch holds.      *)
(* The parametric state (pos, editsUsed) is kept in the code's single     *)
(* integer encoding pos * (maxDist + 1) + editsUsed + 1, 0 being dead.    *)
(* Bytes are the members of Alphabet.                                     *)
(***************************************************************************)
EXTENDS Integers, Sequences, SequencesExt

CONSTANTS Alphabet,      \* input bytes
          MaxTargetLen,  \* longest target enumerated
          TextLen        \* longest input fed

VARIABLES levTarget,  \* a.target
          levDist,    \* the maxDist argument (a.maxDist once built)
          levPhase,   \* "init", "ok", "too_large"
          levState,   \* the State reached on the bytes fed so far
          levInput    \* the bytes fed so far

levVars == <<levTarget, levDist, levPhase, levState, levInput>>

MaxEditDistance == 2
DeadState == 0

TypeOK ==
    /\ levTarget \in BoundedSeq(Alphabet, MaxTargetLen)
    /\ levDist \in -1..MaxEditDistance + 1
    /\ levPhase \in {"init", "ok", "too_large"}
    /\ levState \in Nat
    /\ levInput \in BoundedSeq(Alphabet, TextLen)
-----------------------------------------------------------------------------
EncodeState(p, e) ==
    IF e > levDist \/ p > Len(levTarget) + levDist THEN DeadState
    ELSE p * (levDist + 1) + e + 1

PosOf(s) == (s - 1) \div (levDist + 1)
EditsOf(s) == (s - 1) % (levDist + 1)

(* bestState: the first non-dead state of largest position, in argument   *)
(* order (a later one must be strictly further to win).                   *)
BestState(ss) ==
    LET live == {i \in 1..Len(ss) : ss[i] # DeadState}
        best == {i \in live : \A j \in live : PosOf(ss[j]) <= PosOf(ss[i])
                                 /\ (PosOf(ss[j]) = PosOf(ss[i]) => i <= j)}
    IN IF live = {} THEN DeadState ELSE ss[CHOOSE i \in best : TRUE]

Start == EncodeState(0, 0)

Step(s, b) ==
    IF s = DeadState THEN DeadState
    ELSE LET p == PosOf(s)
             e == EditsOf(s)
         IN CASE p >= Len(levTarget) ->
                    IF e + 1 > levDist THEN DeadState ELSE EncodeState(p, e + 1)
              [] b = levTarget[p + 1] -> EncodeState(p + 1, e)
              [] e >= levDist -> DeadState
              [] p + 1 < Len(levTarget) /\ b = levTarget[p + 2] ->
                    BestState(<<EncodeState(p + 1, e + 1), EncodeState(p, e + 1),
                                EncodeState(p + 2, e + 1)>>)
              [] OTHER ->
                    BestState(<<EncodeState(p + 1, e + 1), EncodeState(p, e + 1),
                                DeadState>>)

(* Mutant: acceptance forgets the edits already spent.                    *)
IsAcceptIgnoringEdits(s) ==
    s # DeadState /\ Len(levTarget) - PosOf(s) <= levDist

IsAccept(s) ==
    s # DeadState /\ Len(levTarget) - PosOf(s) <= levDist - EditsOf(s)

CanMatch(s) == s # DeadState
-----------------------------------------------------------------------------
Init ==
    /\ levTarget \in BoundedSeq(Alphabet, MaxTargetLen)
    /\ levDist \in -1..MaxEditDistance + 1
    /\ levPhase = "init" /\ levState = DeadState /\ levInput = <<>>

(* NewLevenshteinAutomaton refuses maxDist > 2 and maxDist < 0 with      *)
(* ErrEditDistanceTooLarge.                                               *)
Reject ==
    /\ levPhase = "init"
    /\ levDist > MaxEditDistance \/ levDist < 0
    /\ levPhase' = "too_large"
    /\ UNCHANGED <<levTarget, levDist, levState, levInput>>

(* It builds the automaton otherwise; the walk begins at Start().         *)
New ==
    /\ levPhase = "init" /\ levDist \in 0..MaxEditDistance
    /\ levPhase' = "ok" /\ levState' = Start
    /\ UNCHANGED <<levTarget, levDist, levInput>>

(* The walk feeds one more byte to a state that CanMatch.                 *)
Feed(b) ==
    /\ levPhase = "ok" /\ CanMatch(levState) /\ Len(levInput) < TextLen
    /\ levState' = Step(levState, b)
    /\ levInput' = Append(levInput, b)
    /\ UNCHANGED <<levTarget, levDist, levPhase>>

Next == Reject \/ New \/ \E b \in Alphabet : Feed(b)

Spec == Init /\ [][Next]_levVars
-----------------------------------------------------------------------------
(* Reference: the strings within d single-byte edits (insert, delete,     *)
(* substitute) of a set of strings.                                       *)
Edits(S) ==
    UNION {{RemoveAt(s, i) : i \in 1..Len(s)}
           \cup {ReplaceAt(s, i, c) : i \in 1..Len(s), c \in Alphabet}
           \cup {InsertAt(s, i, c) : i \in 1..Len(s) + 1, c \in Alphabet} : s \in S}

RECURSIVE Within(_, _)
Within(S, d) == IF d <= 0 THEN S ELSE Within(S \cup Edits(S), d - 1)

(* Every input the automaton accepts is within maxDist edits of the      *)
(* target: Step's match, substitution, insertion and deletion-then-match *)
(* moves and IsAccept's remaining-budget test never under-count edits.   *)
LevenshteinSound ==
    levPhase = "ok" /\ IsAccept(levState) =>
        levInput \in Within({levTarget}, levDist)

(* Spec 4.F.1: CanMatch is sound for pruning, i.e. the walk abandons an   *)
(* input only when no continuation of it is within maxDist edits of the  *)
(* target, so every string within maxDist edits is accepted.             *)
PruningKeepsMatches ==
    levPhase = "ok" /\ ~CanMatch(levState) =>
        \A u \in Within({levTarget}, levDist) : ~IsPrefix(levInput, u)
=============================================================================
