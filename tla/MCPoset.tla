------------------------------ MODULE MCPoset ------------------------------
(* Model-checking instance of Poset: participants are model values.       *)
EXTENDS Poset, TLC

CONSTANTS a, b, c

MCPeers2 == {a, b}
MCPeers1 == {a}

PeerSymmetry == Permutations(Peers)
=============================================================================
