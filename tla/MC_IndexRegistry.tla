------------------------- MODULE MC_IndexRegistry -------------------------
(* One index name, two CreateIndex calls (a first incarnation and the one  *)
(* that re-creates it after a delete) and one commit each.                 *)
EXTENDS IndexRegistry

MCNames == {"docs"}

=============================================================================
