--------------------------- MODULE PostingsIterators ---------------------------
(***************************************************************************)
(* SlicePostingsIterator and ConjunctionIterator (the engine part of      *)
(* src/internal/query/query.go).  The children's postings lists are fixed *)
(* at Init from all sorted lists over DocIds; NewConjunctionIterator      *)
(* orders them by Cost with sort.Slice, which is not stable, so children  *)
(* of equal cost may come in either order.  Each ConjNext step is one     *)
(* call of ConjunctionIterator.Next, each ConjAdvance(t) one call of      *)
(* Advance(t): the lead's Next or Advance and the whole align loop,       *)
(* translated as the RECURSIVE operators Align and AlignPass.  The caller *)
(* stops at the first call that returns false.                            *)
(***************************************************************************)
EXTENDS Integers, Sequences, SequencesExt, FiniteSets

CONSTANTS NumChildren,  \* iterators under the AND
          DocIds,       \* document ids a postings list may hold
          MaxCalls      \* calls the caller makes at most

VARIABLES docs,   \* child -> its docIDs slice (sorted ascending)
          order,  \* the children sorted by Cost; order[1] is the lead
          pos,    \* child -> SlicePostingsIterator.pos (-1 before Next)
          out,    \* the calls so far: [target, doc], doc = -1 for false
          done    \* a call has returned false

vars == <<docs, order, pos, out, done>>

Children == 1..NumChildren
SortedLists == {SetToSortSeq(S, <) : S \in SUBSET DocIds}

TypeOK ==
    /\ docs \in [Children -> SortedLists]
    /\ order \in [Children -> Children]
    /\ pos \in [Children -> -1..Cardinality(DocIds)]
    /\ out \in Seq([target : Nat, doc : DocIds \cup {-1}])
    /\ done \in BOOLEAN

(* SlicePostingsIterator.DocID at position p (0-based as in Go).          *)
DocAt(c, p) == docs[c][p + 1]

(* SlicePostingsIterator.Cost at construction: len(docIDs) - (-1) - 1.    *)
Cost(c) == Len(docs[c])

(* Mutant: Advance always steps forward, ignoring the current position.   *)
SliceAdvanceAlwaysMoves(c, p, t) ==
    LET later == {q \in (p + 1)..(Len(docs[c]) - 1) : DocAt(c, q) >= t}
    IN IF later # {} THEN [pos |-> Min(later), ok |-> TRUE]
                     ELSE [pos |-> Len(docs[c]), ok |-> FALSE]

(* SlicePostingsIterator.Advance(t) from position p: stay when already at *)
(* a doc >= t, else scan forward to the first such doc, else run off the  *)
(* end (pos = len, false).                                                *)
SliceAdvance(c, p, t) ==
    IF p >= 0 /\ p < Len(docs[c]) /\ DocAt(c, p) >= t
    THEN [pos |-> p, ok |-> TRUE]
    ELSE LET later == {q \in (p + 1)..(Len(docs[c]) - 1) : DocAt(c, q) >= t}
         IN IF later # {} THEN [pos |-> Min(later), ok |-> TRUE]
                          ELSE [pos |-> Len(docs[c]), ok |-> FALSE]

(* One pass of align's inner loop over order[k..]: every child but the    *)
(* lead is advanced to t; a child landing past t makes the lead advance   *)
(* there and the pass restart at the lead's doc.                          *)
RECURSIVE AlignPass(_, _, _)
AlignPass(p, t, k) ==
    IF k > NumChildren THEN [res |-> "aligned", pos |-> p, t |-> t]
    ELSE LET c == order[k]
             a == SliceAdvance(c, p[c], t)
             p1 == [p EXCEPT ![c] = a.pos]
             lead == order[1]
             l == SliceAdvance(lead, p1[lead], DocAt(c, a.pos))
             p2 == [p1 EXCEPT ![lead] = l.pos]
         IN CASE c = lead -> AlignPass(p, t, k + 1)
              [] ~a.ok -> [res |-> "fail", pos |-> p1, t |-> t]
              [] DocAt(c, a.pos) <= t -> AlignPass(p1, t, k + 1)
              [] ~l.ok -> [res |-> "fail", pos |-> p2, t |-> t]
              [] OTHER -> [res |-> "restart", pos |-> p2, t |-> DocAt(lead, l.pos)]

(* ConjunctionIterator.align: repeat passes until one completes.          *)
RECURSIVE Align(_, _)
Align(p, t) ==
    LET r == AlignPass(p, t, 1)
    IN IF r.res = "restart" THEN Align(r.pos, r.t) ELSE r

(* NewConjunctionIterator over fresh SlicePostingsIterators.              *)
Init ==
    /\ docs \in [Children -> SortedLists]
    /\ order \in {o \in [Children -> Children] :
                    /\ \A i, j \in Children : i # j => o[i] # o[j]
                    /\ \A i \in 1..(NumChildren - 1) : Cost(o[i]) <= Cost(o[i + 1])}
    /\ pos = [c \in Children |-> -1]
    /\ out = <<>>
    /\ done = FALSE

(* The doc the conjunction stands on (current), -1 before any call.       *)
Current == IF out = <<>> THEN -1 ELSE out[Len(out)].doc

(* The first doc a call must return: Next one past current, Advance(t)    *)
(* the first at or past t, iterators never moving back.                   *)
NextTarget == Current + 1
AdvanceTarget(t) == IF t > Current THEN t ELSE Current

(* A call's outcome: align from lead positions p at the lead's doc, or   *)
(* false when the lead is exhausted (the lead's pos has run off the end). *)
Finish(p, leadOk, tgt) ==
    LET lead == order[1]
        r == Align(p, DocAt(lead, p[lead]))
    IN IF ~leadOk \/ r.res = "fail"
       THEN /\ pos' = IF leadOk THEN r.pos ELSE p
            /\ out' = Append(out, [target |-> tgt, doc |-> -1])
            /\ done' = TRUE
       ELSE /\ pos' = r.pos
            /\ out' = Append(out, [target |-> tgt, doc |-> r.t])
            /\ UNCHANGED done

(* ConjunctionIterator.Next: the lead's Next (pos++, false past the end), *)
(* then align at the lead's doc; current becomes the aligned doc.         *)
ConjNext ==
    /\ ~done /\ Len(out) < MaxCalls
    /\ LET lead == order[1]
           p == [pos EXCEPT ![lead] = @ + 1]
       IN Finish(p, p[lead] < Len(docs[lead]), NextTarget)
    /\ UNCHANGED <<docs, order>>

(* ConjunctionIterator.Advance(t): the lead's Advance(t), then align.     *)
ConjAdvance(t) ==
    /\ ~done /\ Len(out) < MaxCalls
    /\ LET lead == order[1]
           a == SliceAdvance(lead, pos[lead], t)
       IN Finish([pos EXCEPT ![lead] = a.pos], a.ok, AdvanceTarget(t))
    /\ UNCHANGED <<docs, order>>

Next == ConjNext \/ \E t \in DocIds : ConjAdvance(t)

Spec == Init /\ [][Next]_vars
-----------------------------------------------------------------------------
Intersection ==
    {d \in DocIds : \A c \in Children : \E i \in 1..Len(docs[c]) : docs[c][i] = d}

(* The first doc of the intersection at or past t, -1 if there is none.   *)
FirstFrom(t) ==
    LET ds == {d \in Intersection : d >= t}
    IN IF ds = {} THEN -1 ELSE Min(ds)

(* Every call of the conjunction, Next or Advance in any order, returns   *)
(* the first document of the intersection of its children at or past its *)
(* target (one past current for Next), and false exactly when there is   *)
(* none: no doc is skipped or repeated whichever child leads and however  *)
(* align's restarts interleave (ConjunctionIterator.Next/Advance/align    *)
(* over SlicePostingsIterator.Advance).                                   *)
ConjunctionIsIntersection ==
    \A i \in 1..Len(out) : out[i].doc = FirstFrom(out[i].target)
=============================================================================
