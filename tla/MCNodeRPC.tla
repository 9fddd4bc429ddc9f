------------------------------ MODULE MCNodeRPC ------------------------------
EXTENDS NodeRPC, TLC

CONSTANTS c1, c2

\* Two goroutines serving RPCs.
MCCallers == {c1, c2}
=============================================================================
