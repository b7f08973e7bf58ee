--------------------------- MODULE MCPgDestination ---------------------------
(* Three transfers into one table, one of them copying the table to itself. *)
EXTENDS PgDestination

CONSTANTS r1, r2, r3

MCRuns == {r1, r2, r3}
MCSelfSourced == {r3}

MCPair == {r1, r2}
MCNone == {}
==============================================================================
