SPECIFICATION Spec
CONSTANTS
    direct = direct  viaR = viaR  other = other
    Nil = Nil
    Paths = {direct, viaR, other}
    Target <- TargetOf
    Relay <- RelayOf
    ID <- Ed25519ID
    RTTs <- TwoSpeeds
    InvLog <- Thousandths
    Policies = {"latency", "hop-count", "reliability", "balanced", "random", "epsilon-greedy", "decaying-epsilon", "ucb1", "thompson", "contextual"}
    Callers = {g1, g2}
    MaxProbes = 3
    MaxCalls = 2
    MaxRTTSamples = 2
    RateUnit = 100
ACTION_CONSTRAINT WhatMatters
SYMMETRY Interchangeable
INVARIANTS CrashNeedsOverlap RankingIsStable DisjointPathsAreBest
PROPERTIES SilentPathLoses
CHECK_DEADLOCK FALSE
