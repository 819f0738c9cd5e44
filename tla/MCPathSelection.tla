-------------------------- MODULE MCPathSelection --------------------------
(* A direct path to one peer and a path to it over a relay, and the direct *)
(* path to another peer; goroutines that call BestPath.  As printed        *)
(* Ed25519 peer IDs begin alike, the direct paths have the same ID.        *)
EXTENDS PathSelection, TLC

CONSTANTS direct, viaR, other

TargetOf(p) == IF p = other THEN "q" ELSE "p"
RelayOf(p) == IF p = viaR THEN "r" ELSE Nil
Ed25519ID(p) == IF p = viaR THEN <<"relay", "12D3KooW", "12D3KooW">> ELSE <<"direct", "12D3KooW">>

TwoSpeeds == {1, 4}
\* The values for 1 to 4 ms.
Thousandths == <<591, 477, 419, 383>>

Interchangeable == Permutations(Callers)

\* UCB1, Thompson sampling and LinUCB choose any path, whatever its metrics: one
\* answer to each path is enough for them.  The other policies have no state
\* that decides anything: one call of each goroutine is enough for them.
WhatMatters ==
    IF policy \in {"ucb1", "thompson", "contextual"}
    THEN \A p \in known' : metrics'[p].rttSamples = <<1>> /\ metrics'[p].SampleCount = 1
    ELSE \A g \in Callers : calls'[g] <= 1
=============================================================================
