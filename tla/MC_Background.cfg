SPECIFICATION SumSpec
CONSTANTS
    Groups = {"g", "h"}
    Slots = {1, 2}
    Selectors = {1, 2, 3, 4}
    Requests = {r1}
    MaxGeneration = 3
    Setups <- AllSetups
    MaxDrops = 1
    None = None
INVARIANTS
    OneExtraSelector
    LatestNotLost
    ViewsExact
PROPERTY
    TasksCatchUp
CHECK_DEADLOCK FALSE
