SPECIFICATION Spec
CONSTANTS
    NULL = NULL
    product = product
    saw = saw
    scrapStore = scrapStore
    finishedGoods = finishedGoods
    none = none
    cut = cut
    task = task
    Products <- MCProducts
    Locations <- MCLocations
    Terminal = {}
    LotTracked = {}
    Operations <- MCOperations
    Tasks <- MCTasks
    RouteOperations <- MCRouteOperations
    Transfers = {}
    Actions = {1, 2, 3, 4, 5}
    IdempotencyKeys = {}
    InitialLedger <- MCInitialLedger
    DomainOperations <- MCDomainOperations
    Workers = {w1, w2}
    MaxQuantity = 2
SYMMETRY RequestSymmetry
CHECK_DEADLOCK FALSE
INVARIANTS
    OnlyLiveWorkBlocks
