--------------------------- MODULE MCPathManager ---------------------------
(***************************************************************************)
(* Instances of PathManager: peers p and q, and r1 and r2, which can       *)
(* relay.  Every printed Ed25519 peer ID begins with 12D3KooW, so the      *)
(* first eight characters are the same for all peers.                      *)
(***************************************************************************)
EXTENDS PathManager

CONSTANTS p, q, r1, r2

Ed25519IDs(peer) == "12D3KooW"

\* One round with both relays: r1 hangs, leaves and comes back at any moment.
\* Changes of the network that nobody sees before a later step wait for it.
Turbulent ==
    /\ now' = 1
    /\ r2 \in connected' /\ q \notin connected'
    /\ connected \ {r1} = connected' \ {r1}
    /\ \A peer \in Peers \ {r1} : behaviour'[peer] = "up"
    /\ UNCHANGED connected \/ loop \in {"relays", "probing"}
    /\ UNCHANGED behaviour \/ loop = "probing"

\* Long histories without relays: p comes and goes between rounds and answers
\* or not, q stays and answers every probe.  Stop comes before or after the
\* first tick.
Quiet ==
    /\ stopped' => now' <= 2
    /\ q \in connected' /\ connected' \subseteq {p, q}
    /\ \A peer \in Peers : behaviour'[peer] = "up"
    /\ UNCHANGED <<connected, now>> \/ loop = "idle"
    /\ target' = q /\ ~stopped' => \A i \in DOMAIN results' : results'[i] # "error"

Histories ==
    /\ Turbulent \/ Quiet
    /\ connected \cap {q, r2} = connected' \cap {q, r2}
=============================================================================
