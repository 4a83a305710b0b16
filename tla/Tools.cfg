SPECIFICATION Spec
CONSTANTS
    W = 2
    Addr <- MCAddr
    Net <- MCNet
    Num <- MCNum
    Procs = {p1, p2}
    NumFilters = 2
    Texts <- MCTexts
    MaxCalls = 3
    B = 3
    NANOS = 6
    PICOS = 60
    Hz = {0, 5, 7}
    MaxTime = 20
    Interfaces <- MCInterfaces
    TableSizes = {0, 1, 2, 3, 4}
    Cages <- MCCages
    Modules <- MCModules
    Vocabulary <- MCVocabulary
    MaxWords = 9
    Frames <- MCFrames
SYMMETRY Symmetry
CHECK_DEADLOCK FALSE
INVARIANTS CardFollowsRules NeverHalfLoaded RuleMeans TimeRight FieldsRight LaddersClean
