---------------------------- MODULE MCBlockFetch ----------------------------
(* Three providers, p1 to p3, and the node itself. *)
EXTENDS BlockFetch, TLC

CONSTANTS p1, p2, p3

WithAndWithout == {TRUE, FALSE}
OnlyWith == {TRUE}

ThreePeers == {p1, p2, p3}
TwoPeers == {p1, p2}
AllServices == {"good", "missing", "corrupt", "down", "hung"}
NoHang == {"good", "missing", "down"}
GoodOrHung == {"good", "hung"}

Interchangeable == Permutations(ThreePeers)
=============================================================================
