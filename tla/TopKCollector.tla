---------------------------- MODULE TopKCollector ----------------------------
(***************************************************************************)
(* engine.TopKCollector (src/unnamed/part_001): a min-heap of at most k   *)
(* ScoredDocs fed by Collect, drained by Results.  The heap is modelled   *)
(* by its contents; the element at h[0] is some element of minimum score, *)
(* and which one among equal scores depends on the heap's layout, so it   *)
(* is chosen nondeterministically, as is the order heap.Pop yields equal  *)
(* scores in.  float32 scores are abstracted to a small ordered set.      *)
(* Each collected entry carries its arrival index so equal (doc, score)   *)
(* pairs collected twice stay two entries, as they do in the slice.       *)
(***************************************************************************)
EXTENDS Integers, Sequences, SequencesExt, FiniteSets

CONSTANTS K,           \* NewTopKCollector's argument
          Docs,        \* doc ids
          Scores,      \* scores (a small set of integers)
          MaxCollect   \* bound on Collect calls

VARIABLES h,         \* the heap's entries: [doc, score, at]
          minScore,  \* c.minScore
          stream,    \* every Collect call so far, in order
          results,   \* what Results() returned
          phase      \* "collect" until Results() is called

vars == <<h, minScore, stream, results, phase>>

Entry == [doc : Docs, score : Scores, at : 1..MaxCollect]

TypeOK ==
    /\ h \subseteq Entry
    /\ minScore \in Scores \cup {0}
    /\ stream \in Seq(Entry)
    /\ results \in Seq(Entry)
    /\ phase \in {"collect", "done"}

(* NewTopKCollector: k <= 0 means 10.                                     *)
EffectiveK == IF K <= 0 THEN 10 ELSE K

MinOf(S) == Min({e.score : e \in S})

Init ==
    /\ h = {} /\ minScore = 0 /\ stream = <<>> /\ results = <<>>
    /\ phase = "collect"

(* Mutant: the root is replaced but minScore is not refreshed.            *)
ReplaceRootStaleMin(e) ==
    /\ e.score > minScore
    /\ \E root \in {x \in h : x.score = MinOf(h)} :
          h' = (h \ {root}) \cup {e}
    /\ UNCHANGED minScore

(* A full heap: a score above minScore replaces the root (an entry of    *)
(* minimum score), heap.Fix restores the minimum at the root and          *)
(* minScore is refreshed from it.                                         *)
ReplaceRoot(e) ==
    /\ e.score > minScore
    /\ \E root \in {x \in h : x.score = MinOf(h)} :
          h' = (h \ {root}) \cup {e}
    /\ minScore' = MinOf(h')

(* Collect(docID, score): push while fewer than k, recording the minimum  *)
(* once full; when full, replace the root or drop the entry.              *)
Collect(e) ==
    \/ /\ Cardinality(h) < EffectiveK
       /\ h' = h \cup {e}
       /\ minScore' = IF Cardinality(h') = EffectiveK THEN MinOf(h') ELSE minScore
    \/ /\ Cardinality(h) >= EffectiveK
       /\ ReplaceRoot(e)
    \/ /\ Cardinality(h) >= EffectiveK
       /\ e.score <= minScore
       /\ UNCHANGED <<h, minScore>>

CollectStep ==
    /\ phase = "collect" /\ Len(stream) < MaxCollect
    /\ \E d \in Docs, s \in Scores :
          LET e == [doc |-> d, score |-> s, at |-> Len(stream) + 1]
          IN /\ Collect(e)
             /\ stream' = Append(stream, e)
    /\ UNCHANGED <<results, phase>>

(* Results(): heap.Pop n times, filling the slice from the back: highest  *)
(* score first, equal scores in an order the heap decides; the heap is    *)
(* left empty.                                                            *)
Results ==
    /\ phase = "collect"
    /\ \E r \in SetToSeqs(h) :
          /\ IsSorted([i \in 1..Len(r) |-> r[i].score], >=)
          /\ results' = r
    /\ h' = {} /\ phase' = "done"
    /\ UNCHANGED <<minScore, stream>>

Next == CollectStep \/ Results

Spec == Init /\ [][Next]_vars
-----------------------------------------------------------------------------
Collected == {stream[i] : i \in 1..Len(stream)}

(* Results() returns min(k, collected) entries, highest score first, and  *)
(* no collected entry it left out scores above one it kept: the heap      *)
(* guard, the minScore cache and the root replacement together keep the   *)
(* k best (TopKCollector.Collect/Results).                                *)
ResultsAreTopK ==
    phase = "done" =>
        LET kept == {results[i] : i \in 1..Len(results)}
        IN /\ Len(results) = Min({EffectiveK, Len(stream)})
           /\ kept \subseteq Collected
           /\ \A x \in kept, y \in Collected \ kept : y.score <= x.score
           /\ IsSorted([i \in 1..Len(results) |-> results[i].score], >=)
=============================================================================
