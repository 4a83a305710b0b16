SPECIFICATION Spec
CONSTANTS
    Ids = {h1, h2}
    Names = {"exanic0", "exanic-name-cut-short"}
    Cut <- MCCut
    Users <- MCUsers
    Nobody = Nobody
    Offers <- MCOffers
    MaxLost = 1
    Contested <- MCContested
    Callers = {c1, c2}
    RxIds = {x1, x2}
    TxIds = {t1}
    Losses = {l1}
    Ports = {0}
    MaxBuffers = 3
    MaxOthers = 1
    MaxShares = 1
    Flows = {f1}
    Lines <- MCLines
    Address <- MCAddress
    Number <- MCNumber
    Packets <- MCPackets
    Default <- MCDefault
SYMMETRY Symmetry
INVARIANTS TypeOK RefsMatch MapsMatch SameNameSameHandle DriverMatch HashTargets FiltersAsWritten LeavesNothing
