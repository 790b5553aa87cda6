----------------------------- MODULE Coordinator -----------------------------
(***************************************************************************)
(* Coordinator.Search (src/internal/coordinator/coordinator.go): fanOut   *)
(* sends the plan to every shard in its own goroutine and appends each    *)
(* answer to the results slice in completion order; Search then splits    *)
(* them into successes and errors, merges the successful shards' hits     *)
(* with mergeTopK (one MergeHit step per hit, in slice order) and builds  *)
(* the QueryResult.  A shard answers with a transport error (a timeout of *)
(* PerShardTimeout included), a response with Status "error", or hits.    *)
(* Heap root choice among equal scores and heap.Pop order among equal     *)
(* scores are nondeterministic, as in TopKCollector.                      *)
(***************************************************************************)
EXTENDS Integers, Sequences, SequencesExt, FiniteSets

CONSTANTS Shards,   \* shard ids
          Scores,   \* hit scores
          MaxHits,  \* hits a shard returns at most
          TopK      \* opts.TopK

VARIABLES arrived,  \* fanOut's results slice: [shard, kind, hits]
          phase,    \* "fanout", "merge", "done"
          queue,    \* successful hits still to merge, in slice order
          h,        \* mergeTopK's heap contents
          result    \* the QueryResult (status, hits, ok and failed shards)

vars == <<arrived, phase, queue, h, result>>

Hit == [shard : Shards, n : 1..MaxHits, score : Scores]
NoResult == [status |-> "none", hits |-> <<>>, ok |-> {}, failed |-> {}]

TypeOK ==
    /\ arrived \in Seq([shard : Shards, kind : {"ok", "err", "status_error"},
                        hits : Seq(Hit)])
    /\ phase \in {"fanout", "merge", "done"}
    /\ queue \in Seq(Hit)
    /\ h \subseteq Hit
    /\ result.status \in {"none", "success", "partial", "error"}

Init ==
    /\ arrived = <<>> /\ phase = "fanout" /\ queue = <<>> /\ h = {}
    /\ result = NoResult

Answered == {arrived[i].shard : i \in 1..Len(arrived)}

(* A fanOut goroutine's Execute returns and appends under mu.             *)
Respond(s) ==
    /\ phase = "fanout" /\ s \notin Answered
    /\ \E kind \in {"ok", "err", "status_error"}, m \in 0..MaxHits :
          /\ kind # "ok" => m = 0
          /\ \E sc \in [1..m -> Scores] :
                arrived' = Append(arrived, [shard |-> s, kind |-> kind,
                           hits |-> [i \in 1..m |-> [shard |-> s, n |-> i,
                                                     score |-> sc[i]]]])
    /\ UNCHANGED <<phase, queue, h, result>>

(* Mutant: a response whose Status is "error" is taken as a success.      *)
SucceededIgnoringStatus(r) == r.kind # "err"

(* Step 5: a response counts as successful when Execute returned no error *)
(* and its Status is not "error".                                         *)
Succeeded(r) == r.kind = "ok"

(* After wg.Wait: collect.  With no success Search returns "error";       *)
(* otherwise the successful hits go to mergeTopK in slice order.          *)
Collect ==
    /\ phase = "fanout" /\ Answered = Shards
    /\ LET okIdx == {i \in 1..Len(arrived) : Succeeded(arrived[i])}
           ok == {arrived[i].shard : i \in okIdx}
           failed == Shards \ ok
       IN IF ok = {}
          THEN /\ result' = [NoResult EXCEPT !.status = "error", !.failed = failed]
               /\ phase' = "done" /\ UNCHANGED queue
          ELSE /\ LET succ == SelectSeq(arrived, Succeeded)
                  IN queue' = FlattenSeq([i \in 1..Len(succ) |-> succ[i].hits])
               /\ result' = [NoResult EXCEPT !.ok = ok, !.failed = failed]
               /\ phase' = "merge"
    /\ UNCHANGED <<arrived, h>>

(* mergeTopK: k <= 0 means 10.                                            *)
EffectiveK == IF TopK <= 0 THEN 10 ELSE TopK

(* Mutant: the size check lets the heap grow to k + 1.                    *)
MergeHitOverfill(x) ==
    \/ Cardinality(h) <= EffectiveK /\ h' = h \cup {x}
    \/ /\ Cardinality(h) > EffectiveK
       /\ \E root \in {y \in h : \A z \in h : y.score <= z.score} :
             h' = IF x.score > root.score THEN (h \ {root}) \cup {x} ELSE h

(* One hit of mergeTopK's loop: push while fewer than k, else replace the *)
(* root (an entry of minimum score) when the hit scores above it.         *)
MergeHit(x) ==
    \/ Cardinality(h) < EffectiveK /\ h' = h \cup {x}
    \/ /\ Cardinality(h) >= EffectiveK
       /\ \E root \in {y \in h : \A z \in h : y.score <= z.score} :
             h' = IF x.score > root.score THEN (h \ {root}) \cup {x} ELSE h

MergeStep ==
    /\ phase = "merge" /\ queue # <<>>
    /\ MergeHit(Head(queue))
    /\ queue' = Tail(queue)
    /\ UNCHANGED <<arrived, phase, result>>

(* mergeTopK's pops (highest score first) and step 7: "partial" when any  *)
(* shard failed, else "success".                                          *)
Reply ==
    /\ phase = "merge" /\ queue = <<>>
    /\ \E r \in SetToSeqs(h) :
          /\ IsSorted([i \in 1..Len(r) |-> r[i].score], >=)
          /\ result' = [result EXCEPT !.hits = r,
                          !.status = IF result.failed = {} THEN "success"
                                                           ELSE "partial"]
    /\ h' = {} /\ phase' = "done"
    /\ UNCHANGED <<arrived, queue>>

Next == (\E s \in Shards : Respond(s)) \/ Collect \/ MergeStep \/ Reply

Spec == Init /\ [][Next]_vars
-----------------------------------------------------------------------------
OkHits == UNION {{arrived[i].hits[j] : j \in 1..Len(arrived[i].hits)} :
                 i \in {i \in 1..Len(arrived) : arrived[i].kind = "ok"}}

(* The merged hits are the k best of the hits of the shards that really   *)
(* answered, best first, whatever order the shards completed in           *)
(* (fanOut's append order, mergeTopK's heap).                             *)
MergedIsTopK ==
    phase = "done" /\ result.status # "error" =>
        LET kept == {result.hits[i] : i \in 1..Len(result.hits)}
        IN /\ Len(result.hits) = Min({EffectiveK, Cardinality(OkHits)})
           /\ kept \subseteq OkHits
           /\ \A x \in kept, y \in OkHits \ kept : y.score <= x.score
           /\ IsSorted([i \in 1..Len(result.hits) |-> result.hits[i].score], >=)

(* The status names the shards' outcome: "success" when every shard       *)
(* answered without error, "partial" when some but not all did, "error"   *)
(* when none did; a shard is listed as successful exactly when it         *)
(* returned hits without a transport or status error (Search steps 5-7).  *)
StatusMatchesShards ==
    phase = "done" =>
        LET good == {arrived[i].shard : i \in {i \in 1..Len(arrived) :
                                                 arrived[i].kind = "ok"}}
        IN /\ result.ok = good /\ result.failed = Shards \ good
           /\ result.status = CASE good = {} -> "error"
                                 [] good = Shards -> "success"
                                 [] OTHER -> "partial"
=============================================================================
