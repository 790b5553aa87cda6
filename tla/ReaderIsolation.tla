--------------------------- MODULE ReaderIsolation ---------------------------
(***************************************************************************)
(* What the snapshot manager promises (spec.md section 5, ordering        *)
(* guarantees), with no refs, counts or locks: an index publishes         *)
(* generations with strictly increasing numbers; a reader opens a view    *)
(* of exactly one published generation and keeps it, however many        *)
(* generations are published meanwhile, until it closes the view; a      *)
(* segment is deleted only when it is neither published nor in any open  *)
(* view, and a deleted segment is never published again.                 *)
(***************************************************************************)
EXTENDS Integers

CONSTANTS Readers, SegIds, MaxGen

VARIABLES gen,      \* the published generation (0: nothing committed)
          segs,     \* its segments
          view,     \* per reader: the generation it reads, or NoView
          deleted   \* segments whose files may be removed

NoView == [gen |-> -1, segs |-> {}]

Init ==
    /\ gen \in {0, 1} /\ segs \in SUBSET SegIds /\ (gen = 0) = (segs = {})
    /\ view = [r \in Readers |-> NoView]
    /\ deleted = {}

(* A reader opens a view of the generation published now.                *)
Open(r) ==
    /\ view[r] = NoView
    /\ view' = [view EXCEPT ![r] = [gen |-> gen, segs |-> segs]]
    /\ UNCHANGED <<gen, segs, deleted>>

Close(r) ==
    /\ view[r] # NoView
    /\ view' = [view EXCEPT ![r] = NoView]
    /\ UNCHANGED <<gen, segs, deleted>>

InUse == segs \cup UNION {view[r].segs : r \in Readers}

(* A commit publishes a later generation and may delete segments of the   *)
(* one it replaces that no open view reads.                              *)
Publish(g, S, D) ==
    /\ g > gen /\ g <= MaxGen
    /\ S \cap deleted = {}
    /\ D \subseteq segs \ S
    /\ D \cap UNION {view[r].segs : r \in Readers} = {}
    /\ gen' = g /\ segs' = S /\ deleted' = deleted \cup D
    /\ UNCHANGED view

Next ==
    \/ \E r \in Readers : Open(r) \/ Close(r)
    \/ \E g \in 1..MaxGen, S, D \in SUBSET SegIds : Publish(g, S, D)

Spec == Init /\ [][Next]_<<gen, segs, view, deleted>>
=============================================================================
