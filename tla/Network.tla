------------------------------ MODULE Network ------------------------------
(***************************************************************************)
(* The peers of a node, as the loops of internal/node/node.go see them:    *)
(* each of them asks Host.Network().Peers() again whenever it begins.      *)
(***************************************************************************)
CONSTANT Peers

VARIABLE connected     \* Network().Peers()
=============================================================================
