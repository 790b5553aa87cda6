------------------------- MODULE MC_CommitRecovery -------------------------
(* Bounds for CommitRecovery; generations and segment ids are integers,    *)
(* so no symmetry applies.                                                 *)
EXTENDS CommitRecovery

=============================================================================
