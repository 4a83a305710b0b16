SPECIFICATION Spec
CONSTANTS
    N = 4
    G = 4
    MaxFrame = 2
    MaxLag = 2
    MaxLap = 7
    EndStatus = {"ok", "error"}
    BufChunks = 1
INVARIANTS IInv StatusOfTheData
PROPERTIES EmptyMeansEmpty
