SPECIFICATION Spec
CONSTANTS
    N = 3
    G = 4
    MaxFrame = 2
    MaxLag = 1
    MaxLap = 7
    EndStatus = {"ok", "error"}
    Apis = {"chunk", "inplace_ex"}
    MaxStale = 1
PROPERTIES OverflowMeansMissed
