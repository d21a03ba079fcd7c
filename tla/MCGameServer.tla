---------------------------- MODULE MCGameServer ----------------------------
(* GameServer for two ENet peers and three names, one of them refused. *)
EXTENDS GameServer

CONSTANTS p1, p2, alpha, bravo, charlie, unprintable

MCPeers == {p1, p2}
MCValidNames == {alpha, bravo, charlie}
MCNames == MCValidNames \cup {unprintable}
=============================================================================
