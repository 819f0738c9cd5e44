SPECIFICATION PublishFairSpec
CONSTANTS
    x = x
    Blocks <- AllBlocks  Manifests <- AllManifests  Fragments <- NoFragments
    CIDs <- AllBlocks  PinFile = pinsJson
    MaxFaults = 2
    Requests = {r1, r2}
    Sources <- TwoFiles  RTTLists <- PathRTTs
    ChunkSizeBytes = 2  MinChunkSize = 1  MaxChunkSize = 2
ACTION_CONSTRAINT Separately
INVARIANTS TornOnlyIfInterrupted AckedPinsInForce RevokedPinsStayOff PublishedFilesAreWhole AnnouncedIsStored AdaptiveSizing
PROPERTIES PublishEnds
