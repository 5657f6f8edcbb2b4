SPECIFICATION Spec
CONSTANTS
    Requests = {1, 2, 3}
    Warehouses = {1, 2, 3}
    Products = {p1, p2}
    p1 = p1
    p2 = p2
    Opened = {1, 2}
    NoLevel = NoLevel
    InitialLevel <- MCLevel
    Traffic <- MCTraffic
    MaxCrashes = 1
INVARIANTS NoOverdraw ShortfallIsBackordered BackordersAreTold
PROPERTIES UnitsAddUp
CHECK_DEADLOCK FALSE
