---------------------------- MODULE MC_IndexWriter ----------------------------
(***************************************************************************)
(* IndexWriter on its own, with the inputs of MC_WriterInputs.            *)
(***************************************************************************)
EXTENDS IndexWriter, MC_WriterInputs
=============================================================================
