SPECIFICATION FairSpec
CONSTANTS
    N = 4
    G = 4
    MaxFrame = 2
    MaxLag = 2
    MaxLap = 7
    EndStatus = {"ok"}
    BufChunks = 2
INVARIANTS TypeOK NoTornFrame FallbackUnused PositionsOrdered
PROPERTIES OverflowMeansLapped CallReturns Drained StreamRefined
