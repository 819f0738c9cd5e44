SPECIFICATION Spec
CONSTANTS
    direct = direct  viaR = viaR  other = other
    Nil = Nil
    Paths = {direct, viaR, other}
    Target <- TargetOf
    Relay <- RelayOf
    ID <- Ed25519ID
    RTTs <- TwoSpeeds
    InvLog <- Thousandths
    Policies = {"ucb1"}
    Callers = {g1}
    MaxProbes = 3
    MaxCalls = 3
    MaxRTTSamples = 2
    RateUnit = 100
ACTION_CONSTRAINT WhatMatters
INVARIANTS UntriedFirst
CHECK_DEADLOCK FALSE
