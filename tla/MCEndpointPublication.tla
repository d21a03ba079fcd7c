----------------------- MODULE MCEndpointPublication ------------------------
(* EndpointPublication for three servers; one of the ports they try is taken. *)
EXTENDS EndpointPublication, TLC

CONSTANTS a, b, c

MCServers == {a, b, c}
MCSymmetry == Permutations(MCServers)
=============================================================================
