-------------------------- MODULE MCSessionManager --------------------------
(* SessionManager on three peers, four usable names and three slots. *)
EXTENDS SessionManager

CONSTANTS p1, p2, p3, alpha, bravo, charlie, delta, unprintable

MCPeers == {p1, p2, p3}
MCValidNames == {alpha, bravo, charlie, delta}
MCNames == MCValidNames \cup {unprintable}

=============================================================================
