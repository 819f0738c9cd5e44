--------------------------- MODULE MCReplication ---------------------------
(* Two blocks, of which the store may hold one: the other is popular and   *)
(* has to be skipped.  Two data and two parity fragments for two peers.    *)
EXTENDS Replication

CONSTANTS a, b, p, q

TwoBlocks == {a, b}
OnlyB == {b}
TwoPeers == {p, q}
=============================================================================
