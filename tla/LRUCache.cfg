SPECIFICATION FairSpec
CONSTANTS
    a = a  b = b  d = d  e = e  big = big
    CIDs <- AllCIDs
    BlockSizes <- Lengths
    MaxBytes = 4
    PopularityThreshold = 1
    Pinnable <- TwoCIDs
    MaxGets = 2
INVARIANTS TypeOK ListMatchesMap SteadyPinsSurvive VictimIsOldest SecondChance BytesAccounted
PROPERTIES PutCompletesUnlessAllPinned
