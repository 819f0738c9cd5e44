SPECIFICATION ReplicationFairSpec
CONSTANTS
    a = a  b = b  p = p  q = q
    Blocks <- TwoBlocks  Peers <- TwoPeers  Storable <- OnlyB
    Reporting = TRUE
    Threshold = 2  MaxFetches = 2
    DataShards = 2  ParityShards = 2
INVARIANTS SurvivesPeerLoss
PROPERTIES PopularBlocksSpread
