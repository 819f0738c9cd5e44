----------------------------- MODULE MCLRUCache -----------------------------
(***************************************************************************)
(* Four blocks of one unit fill the cache.  The length of big is one unit, *)
(* or five, more than the whole cache: a copy read back from a damaged     *)
(* file may have another length than the block.                            *)
(***************************************************************************)
EXTENDS LRUCache

CONSTANTS a, b, d, e, big

AllCIDs == {a, b, d, e, big}
TwoCIDs == {a, b}
Lengths == [c \in CIDs |-> IF c = big THEN {1, 5} ELSE {1}]
=============================================================================
