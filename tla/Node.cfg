SPECIFICATION FairSpec
CONSTANTS
    a = a  b = b  c = c  p = p  q = q  i1 = i1  i2 = i2  NoKey = NoKey
    CIDs = {a, b, c}  Peers = {p, q}  IDs = {i1, i2}
    MinItems = 1  MaxItems = 2  Hashes <- HashesBySize  MaxStreams = 2
ACTION_CONSTRAINT Separately
PROPERTIES IdentityKept NodeStops SummariesConverge
CHECK_DEADLOCK FALSE
