SPECIFICATION FairSpec
CONSTANTS
    Progs = {p1, p2}
    Options <- CommandLines
    MaxFrames = 2
    MaxTime = 2
INVARIANTS EveryFrameSaved FileSpan InterfaceRestored
PROPERTIES StopsOnSignal
CHECK_DEADLOCK FALSE
