-------------------------- MODULE MCBlockExchange --------------------------
(* A publisher and two other nodes, with two transfers at a time. *)
EXTENDS BlockExchange, TLC

CONSTANTS pub, n1, n2

ThreeNodes == {pub, n1, n2}
OnePublisher == {pub}
Interchangeable == Permutations({n1, n2}) \cup Permutations(Slots)
=============================================================================
