SPECIFICATION FairSpec
CONSTANTS
    p = p  q = q  r1 = r1  r2 = r2
    NoRelay = NoRelay
    Peers = {p, q, r1, r2}
    RelayCapable = {r1, r2}
    Short <- Ed25519IDs
    Behaviours = {"up", "hung"}
    MaxRTTSamples = 1
    RateUnit = 1000
    StalePathTimeout = 7
    MaxTime = 9
ACTION_CONSTRAINT Histories
INVARIANTS  EveryResultRecorded RateTellsDeadFromLive
PROPERTIES RoundEnds StopEndsLoop PruneKeepsLivePaths
