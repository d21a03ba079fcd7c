------------------------- MODULE MCWorldReplication -------------------------
(* WorldReplication on a strip of three chunks; two of them are in reach. *)
EXTENDS WorldReplication

CONSTANTS p1, p2

MCPeers == {p1, p2}

\* One place inside the map, one beyond its far edge.
MCPositions == {<<0, 0>>, <<5, 0>>}
=============================================================================
