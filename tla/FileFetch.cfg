SPECIFICATION FairSpec
CONSTANTS
    a = a  b = b
    CIDs <- AB
    ChunkCIDs <- ABBBA
    FetchConcurrency = 2
    Copies <- Undamaged
    DiskMayFail = TRUE
    Manifests <- AllManifests
INVARIANTS BatchesDoNotOverlap BodyIntact
PROPERTIES ImplementsFileService FileFetchEnds
CHECK_DEADLOCK FALSE
