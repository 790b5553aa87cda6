--------------------------- MODULE MC_IndexServer ---------------------------
(* Model values for IndexServer: clients and documents as model values.   *)
EXTENDS IndexServer

CONSTANTS c1, c2, d1, d2

MCClients1 == {c1}
MCClients2 == {c1, c2}
MCDocs == {d1, d2}
MCDocs1 == {d1}
=============================================================================
