--------------------------- MODULE MCDataManager ---------------------------
(* Two threads and one connection: whoever comes second gets a handle      *)
(* without one.                                                            *)
EXTENDS DataManager

CONSTANTS t1, t2, c1, h1, h2, h3, set1

MCSetOf == [c \in Connections |-> set1]
=============================================================================
