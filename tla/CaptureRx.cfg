SPECIFICATION CaptureFairSpec
CONSTANTS
    N = 4
    G = 4
    MaxFrame = 3
    MaxLag = 2
    MaxLap = 7
    EndStatus = {"ok"}
    BufChunks = 2
INVARIANTS WholeUnlessLapped
PROPERTIES CallReturns
