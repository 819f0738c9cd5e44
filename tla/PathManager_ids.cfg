SPECIFICATION Spec
CONSTANTS
    p = p  q = q  r1 = r1  r2 = r2
    NoRelay = NoRelay
    Peers = {p, r1, r2}
    RelayCapable = {r1, r2}
    Short <- Ed25519IDs
    Behaviours = {"up"}
    MaxRTTSamples = 1
    RateUnit = 1000
    StalePathTimeout = 1
    MaxTime = 1
INVARIANTS OnePathPerRelay
