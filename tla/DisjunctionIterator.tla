------------------------- MODULE DisjunctionIterator -------------------------
(***************************************************************************)
(* engine.DisjunctionIterator (declared, with iterHeap, in               *)
(* src/internal/engine/engine_test.go) over SlicePostingsIterators.  The  *)
(* heap is the set of children it holds; heap order matters only through  *)
(* h[0], a child of least DocID, and both loops advance every child at    *)
(* the least doc whichever of equal children heap.Fix/Pop puts first, so  *)
(* each call is one step.  The caller makes Next and Advance(t) calls in  *)
(* any order and stops at the first that returns false.                   *)
(***************************************************************************)
EXTENDS Integers, Sequences, SequencesExt, FiniteSets

CONSTANTS DisjChildren,  \* the children under the OR
          DocIds,        \* document ids a postings list may hold
          MaxCalls       \* calls the caller makes at most

VARIABLES dDocs,   \* child -> its docIDs slice (sorted ascending)
          dPos,    \* child -> SlicePostingsIterator.pos
          dHeap,   \* the children in d.h
          dCur,    \* d.current
          dOut,    \* the calls so far: [op, target, doc], doc = -1 for false
          dDone    \* a call has returned false

dVars == <<dDocs, dPos, dHeap, dCur, dOut, dDone>>

SortedLists == {SetToSortSeq(S, <) : S \in SUBSET DocIds}

TypeOK ==
    /\ dDocs \in [DisjChildren -> SortedLists]
    /\ dPos \in [DisjChildren -> -1..Cardinality(DocIds)]
    /\ dHeap \subseteq DisjChildren
    /\ dOut \in Seq([op : {"next", "advance"}, target : DocIds \cup {0},
                     doc : DocIds \cup {-1}])
    /\ dDone \in BOOLEAN

(* SlicePostingsIterator.DocID of child c.                                *)
DocOf(c) == dDocs[c][dPos[c] + 1]

(* SlicePostingsIterator.Advance(t) of child c: the new pos, or len when  *)
(* no doc at or past t is left (the call returns false).                  *)
SliceAdvancePos(c, t) ==
    IF dPos[c] >= 0 /\ dPos[c] < Len(dDocs[c]) /\ DocOf(c) >= t THEN dPos[c]
    ELSE LET later == {q \in (dPos[c] + 1)..(Len(dDocs[c]) - 1) : dDocs[c][q + 1] >= t}
         IN IF later = {} THEN Len(dDocs[c]) ELSE Min(later)

MinDoc == Min({DocOf(c) : c \in dHeap})

(* NewDisjunctionIterator: Next on every child, the ones with a doc go in *)
(* the heap.                                                              *)
Init ==
    /\ dDocs \in [DisjChildren -> SortedLists]
    /\ dPos = [c \in DisjChildren |-> 0]
    /\ dHeap = {c \in DisjChildren : Len(dDocs[c]) > 0}
    /\ dCur = 0 /\ dOut = <<>> /\ dDone = FALSE

Callable == ~dDone /\ Len(dOut) < MaxCalls

Record(op, t, d) ==
    /\ dOut' = Append(dOut, [op |-> op, target |-> t, doc |-> d])
    /\ dDone' = (d = -1)

(* Mutant: Next moves only the child at h[0], not every child on the doc. *)
AtCurrentTopOnly == {CHOOSE c \in dHeap : DocOf(c) = MinDoc}

(* The children Next's loop moves: all those whose doc is current.       *)
AtCurrent == {c \in dHeap : DocOf(c) = MinDoc}

(* Next: current is the least doc; every child on it takes its own Next,  *)
(* leaving the heap when it runs out.                                     *)
DisjNext ==
    /\ Callable
    /\ IF dHeap = {}
       THEN Record("next", 0, -1) /\ UNCHANGED <<dPos, dHeap, dCur>>
       ELSE LET at == AtCurrent
            IN /\ dCur' = MinDoc
               /\ dPos' = [c \in DisjChildren |-> IF c \in at THEN dPos[c] + 1 ELSE dPos[c]]
               /\ dHeap' = dHeap \ {c \in at : dPos[c] + 1 >= Len(dDocs[c])}
               /\ Record("next", 0, MinDoc)
    /\ UNCHANGED dDocs

(* Advance(t): every child below t takes Advance(t), leaving the heap     *)
(* when it fails; current becomes the least doc left.                     *)
DisjAdvance(t) ==
    /\ Callable
    /\ LET moved == {c \in dHeap : DocOf(c) < t}
           p == [c \in DisjChildren |-> IF c \in moved THEN SliceAdvancePos(c, t) ELSE dPos[c]]
           h == dHeap \ {c \in moved : p[c] >= Len(dDocs[c])}
           least == Min({dDocs[c][p[c] + 1] : c \in h})
       IN /\ dPos' = p /\ dHeap' = h
          /\ IF h = {}
             THEN Record("advance", t, -1) /\ UNCHANGED dCur
             ELSE dCur' = least /\ Record("advance", t, least)
    /\ UNCHANGED dDocs

Next == DisjNext \/ \E t \in DocIds : DisjAdvance(t)

Spec == Init /\ [][Next]_dVars
-----------------------------------------------------------------------------
Union == {d \in DocIds : \E c \in DisjChildren : \E i \in 1..Len(dDocs[c]) : dDocs[c][i] = d}

Produced == {dOut[i].doc : i \in 1..Len(dOut)} \ {-1}

(* The OR returns only documents of some child, never goes back, two     *)
(* Nexts in a row never return one doc twice (duplicates across children  *)
(* collapse), and when it reports the end it has returned every document  *)
(* of the union except those an Advance skipped (below its target):       *)
(* Next's and Advance's loops over the heap lose nothing.                 *)
DisjunctionCoversUnion ==
    /\ Produced \subseteq Union
    /\ \A i \in 1..(Len(dOut) - 1) :
          dOut[i].op = "next" /\ dOut[i + 1].op = "next" /\ dOut[i + 1].doc # -1
          => dOut[i].doc < dOut[i + 1].doc
    /\ \A i, j \in 1..Len(dOut) :
          i < j /\ dOut[j].doc # -1 => dOut[i].doc <= dOut[j].doc
    /\ dDone => \A u \in Union \ Produced :
                   \E i \in 1..Len(dOut) : dOut[i].op = "advance" /\ u < dOut[i].target

(* Spec 4.F.2: every iterator produces doc ids in strictly ascending      *)
(* order, and next() moves to the next doc id: a Next never returns a     *)
(* doc the iterator has already produced, by Next or by Advance.          *)
NextStrictlyAscends ==
    \A i, j \in 1..Len(dOut) :
        i < j /\ dOut[j].op = "next" /\ dOut[j].doc # -1 => dOut[i].doc < dOut[j].doc
=============================================================================
