------------------------- MODULE MC_SnapshotManager -------------------------
(* Model-checking instance of SnapshotManager: two concurrent searches,    *)
(* three segment ids, generations up to 3.                                 *)
EXTENDS SnapshotManager, TLC

CONSTANTS r1, r2, s1, s2, s3

MCReaders == {r1, r2}
MCSegIds == {s1, s2, s3}

(* Readers and segment ids are interchangeable model values.               *)
MCSymmetry == Permutations(MCReaders) \cup Permutations(MCSegIds)

=============================================================================
