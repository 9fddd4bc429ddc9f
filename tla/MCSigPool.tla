----------------------------- MODULE MCSigPool -----------------------------
(* SigPool on three participants and one stranger. *)
EXTENDS SigPool, TLC

CONSTANTS p1, p2, p3, q1

MCPeers == {p1, p2, p3}
MCStrangers == {q1}

\* Participants are interchangeable: no action names one of them.
PeerSymmetry == Permutations(MCPeers)
=============================================================================
