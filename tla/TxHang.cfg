SPECIFICATION FairSpec
CONSTANTS
    B = 8
    Interval = 2
    Q = 4
    SeqMod = 12
    Sizes = {1, 2, 7}
    MaxLate = 0
PROPERTIES PrepareReturns
