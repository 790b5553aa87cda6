-------------------------- MODULE WildcardAutomaton --------------------------
(***************************************************************************)
(* automaton.NewWildcardAutomaton (src/internal/automaton/wildcard.go):   *)
(* buildWildcardNFA, then subsetConstruct's breadth-first loop as steps:  *)
(* Dequeue takes the next state set off the queue, ExpandByte handles one *)
(* input byte of the inner loop.  State sets are identified by setKey, a  *)
(* 64-bit XOR hash, exactly as in the code, and a DFA state is numbered   *)
(* by len(transitions) at creation.                                        *)
(*                                                                         *)
(* The 256 byte values are abstracted to the classes in ByteClasses:      *)
(* ByteClasses[1] stands for every byte no literal of the pattern names   *)
(* ('*' and '?' as input bytes included); all bytes of one class give the *)
(* same NFA successor set, so only the first of a class in byte order     *)
(* creates a DFA state, and ByteClasses lists the classes in the order    *)
(* their first byte comes (byte 0 before any letter).                     *)
(***************************************************************************)
EXTENDS Integers, Sequences, SequencesExt, FiniteSetsExt, Bitwise

CONSTANTS ByteClasses,               \* the input byte classes, in byte order
          MaxWildcardPatternLength,  \* the constant of wildcard.go
          MaxDFAStates,              \* the DFA state limit subsetConstruct obeys
          TextLen                    \* longest input checked against the DFA

VARIABLES pattern,    \* the pattern given to NewWildcardAutomaton
          trans,      \* dfa.transitions: DFA state id + 1 -> byte -> id
          accepting,  \* dfa.accepting, indexed like trans
          setToID,    \* setKey of a state set -> DFA state id
          queue,      \* queue and queueIDs: [set, id]
          cur,        \* the [set, id] being expanded
          bi,         \* index into ByteClasses of the byte being expanded
          phase       \* "init", "build", "expand", "ok", "limit", "too_long"

vars == <<pattern, trans, accepting, setToID, queue, cur, bi, phase>>

ByteSet == ToSet(ByteClasses)
Literals == {ByteClasses[i] : i \in 2..Len(ByteClasses)}
Patterns == BoundedSeq(Literals \cup {"*", "?"}, MaxWildcardPatternLength + 1)
Texts == BoundedSeq(ByteSet, TextLen)

DeadState == 0
Row0 == [b \in ByteSet |-> DeadState]
NoSet == [set |-> {}, id |-> DeadState]

TypeOK ==
    /\ pattern \in Patterns
    /\ trans \in Seq([ByteSet -> 0..MaxDFAStates])
    /\ accepting \in Seq(BOOLEAN)
    /\ queue \in Seq([set : SUBSET (0..Len(pattern)), id : 0..MaxDFAStates])
    /\ phase \in {"init", "build", "expand", "ok", "limit", "too_long"}
-----------------------------------------------------------------------------
(* buildWildcardNFA: NFA state i - 1 goes to state i on pattern[i].  A    *)
(* '*' adds an epsilon move from i - 1 to i and a loop on any byte at i;  *)
(* '?' moves on any byte; a literal moves on its own byte.                *)
NfaTrans(s, b) ==
    {i \in 1..Len(pattern) : i - 1 = s /\ pattern[i] \in {"?", b}}
    \cup {i \in 1..Len(pattern) : i = s /\ pattern[i] = "*"}

(* Mutant: a '*' gets its loop but no epsilon move, so it needs a byte.   *)
NfaEpsNone(s) == {}

NfaEps(s) == {i \in 1..Len(pattern) : i - 1 = s /\ pattern[i] = "*"}

(* The last state built is the only accepting one.                        *)
NfaAccepting(s) == s = Len(pattern)

(* epsilonClosure, as the least fixed point its stack loop computes.      *)
RECURSIVE Closure(_)
Closure(S) ==
    LET T == S \cup UNION {NfaEps(s) : s \in S}
    IN IF T = S THEN S ELSE Closure(T)

(* setKey: h ^= uint64(k)*2654435761 + uint64(k) over the set, in 16-bit  *)
(* limbs (least significant first) so that no product leaves TLC's       *)
(* integers; 2654435761 = 40503 * 2^16 + 31153, and the third limb holds  *)
(* every higher bit for the ids a pattern of this size has.               *)
HashLimbs(k) ==
    LET lo == k * 31153 + k
        mid == k * 40503 + lo \div 65536
    IN <<lo % 65536, mid % 65536, mid \div 65536>>

SetKey(S) ==
    FoldSet(LAMBDA k, h : [i \in 1..3 |-> h[i] ^^ HashLimbs(k)[i]], <<0, 0, 0>>, S)

IsAccepting(S) == \E s \in S : NfaAccepting(s)

NextSet(S, b) == UNION {NfaTrans(s, b) : s \in S}
-----------------------------------------------------------------------------
Init ==
    /\ pattern \in Patterns
    /\ trans = <<>> /\ accepting = <<>> /\ setToID = <<>> /\ queue = <<>>
    /\ cur = NoSet /\ bi = 1 /\ phase = "init"

(* NewWildcardAutomaton rejects a pattern over the length limit.          *)
TooLong ==
    /\ phase = "init" /\ Len(pattern) > MaxWildcardPatternLength
    /\ phase' = "too_long"
    /\ UNCHANGED <<pattern, trans, accepting, setToID, queue, cur, bi>>

(* subsetConstruct's set-up: the dead state 0, the start state 1 for the  *)
(* closure of NFA state 0, queued.                                        *)
Compile ==
    /\ phase = "init" /\ Len(pattern) <= MaxWildcardPatternLength
    /\ LET start == Closure({0})
       IN /\ trans' = <<Row0, Row0>>
          /\ accepting' = <<FALSE, IsAccepting(start)>>
          /\ setToID' = SetKey(start) :> 1
          /\ queue' = <<[set |-> start, id |-> 1]>>
    /\ phase' = "build"
    /\ UNCHANGED <<pattern, cur, bi>>

Dequeue ==
    /\ phase = "build" /\ queue # <<>>
    /\ cur' = Head(queue) /\ queue' = Tail(queue)
    /\ bi' = 1 /\ phase' = "expand"
    /\ UNCHANGED <<pattern, trans, accepting, setToID>>

IsDead(ns) == ns = {}

(* Mutant: the limit check lets one state more through.                   *)
ExceedsOffByOne(newID) == newID > MaxDFAStates

Exceeds(newID) == newID >= MaxDFAStates

SetTrans(id, b, t) == trans' = [trans EXCEPT ![id + 1][b] = t]

(* One byte of the inner loop: an empty successor set goes to the dead    *)
(* state; otherwise its closure is looked up by setKey and either reuses  *)
(* the state found or becomes a new state, unless the new id reaches the  *)
(* limit, which aborts the construction.                                  *)
ExpandByte ==
    /\ phase = "expand" /\ bi <= Len(ByteClasses)
    /\ LET b == ByteClasses[bi]
           ns == NextSet(cur.set, b)
           cs == Closure(ns)
           key == SetKey(cs)
           newID == Len(trans)
       IN \/ /\ IsDead(ns)
             /\ SetTrans(cur.id, b, DeadState)
             /\ bi' = bi + 1
             /\ UNCHANGED <<setToID, accepting, queue, phase>>
          \/ /\ ~IsDead(ns) /\ key \in DOMAIN setToID
             /\ SetTrans(cur.id, b, setToID[key])
             /\ bi' = bi + 1
             /\ UNCHANGED <<setToID, accepting, queue, phase>>
          \/ /\ ~IsDead(ns) /\ key \notin DOMAIN setToID /\ Exceeds(newID)
             /\ phase' = "limit"
             /\ UNCHANGED <<trans, setToID, accepting, queue, bi>>
          \/ /\ ~IsDead(ns) /\ key \notin DOMAIN setToID /\ ~Exceeds(newID)
             /\ setToID' = setToID @@ (key :> newID)
             /\ trans' = Append([trans EXCEPT ![cur.id + 1][b] = newID], Row0)
             /\ accepting' = Append(accepting, IsAccepting(cs))
             /\ queue' = Append(queue, [set |-> cs, id |-> newID])
             /\ bi' = bi + 1
             /\ UNCHANGED phase
    /\ UNCHANGED <<pattern, cur>>

EndBytes ==
    /\ phase = "expand" /\ bi > Len(ByteClasses)
    /\ phase' = "build"
    /\ UNCHANGED <<pattern, trans, accepting, setToID, queue, cur, bi>>

(* The queue is empty: subsetConstruct returns the DFA.                   *)
Finish ==
    /\ phase = "build" /\ queue = <<>>
    /\ phase' = "ok"
    /\ UNCHANGED <<pattern, trans, accepting, setToID, queue, cur, bi>>

Next == TooLong \/ Compile \/ Dequeue \/ ExpandByte \/ EndBytes \/ Finish

Spec == Init /\ [][Next]_vars
-----------------------------------------------------------------------------
(* The Automaton methods of WildcardAutomaton.                            *)
Start == 1

Step(s, b) == IF s = DeadState \/ s >= Len(trans) THEN DeadState ELSE trans[s + 1][b]

IsAccept(s) == IF s = DeadState \/ s >= Len(accepting) THEN FALSE ELSE accepting[s + 1]

CanMatch(s) == s # DeadState

RECURSIVE Run(_, _)
Run(s, t) == IF t = <<>> THEN s ELSE Run(Step(s, Head(t)), Tail(t))
-----------------------------------------------------------------------------
(* Reference: glob matching of '*' (any run of bytes) and '?' (one byte). *)
RECURSIVE Glob(_, _)
Glob(p, t) ==
    CASE p = <<>> -> t = <<>>
      [] Head(p) = "*" -> Glob(Tail(p), t) \/ (t # <<>> /\ Glob(p, Tail(t)))
      [] t = <<>> -> FALSE
      [] OTHER -> Head(p) \in {"?", Head(t)} /\ Glob(Tail(p), Tail(t))

(* The state sets subset construction must reach, found without hashing.  *)
RECURSIVE ReachFrom(_)
ReachFrom(R) ==
    LET N == R \cup ({Closure(NextSet(S, b)) : S \in R, b \in ByteSet} \ {{}})
    IN IF N = R THEN R ELSE ReachFrom(N)

DfaSets == ReachFrom({Closure({0})})

(* A compiled automaton accepts exactly the inputs the pattern matches    *)
(* ('*' any run, '?' one byte, literals themselves): the NFA's epsilon    *)
(* and loop moves, the closure and the hashed state identity together.   *)
AutomatonMatchesGlob ==
    phase = "ok" => \A t \in Texts : IsAccept(Run(Start, t)) = Glob(pattern, t)

(* The state limit is kept and never refused wrongly: a built DFA has    *)
(* at most MaxDFAStates states, and ErrDFAStateLimitExceeded is returned  *)
(* only when the dead state and the reachable state sets really exceed   *)
(* it.  (setKey hashes NFA state 0 to 0, so a start set {0} \cup S and S  *)
(* share a state; the DFA may be smaller than the sets, never larger.)    *)
StateLimitRespected ==
    /\ phase = "ok" => Len(trans) <= MaxDFAStates
    /\ phase = "limit" => 1 + Cardinality(DfaSets) > MaxDFAStates
=============================================================================
