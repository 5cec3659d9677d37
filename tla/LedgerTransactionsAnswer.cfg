SPECIFICATION Spec
CONSTANTS
    NULL = NULL
    product = product
    rawStore = rawStore
    saw = saw
    shipped = shipped
    none = none
    task = task
    issueKey = issueKey
    receiptKey = receiptKey
    returnKey = returnKey
    Products <- MCProducts
    Locations <- MCLocations
    Terminal = {shipped}
    LotTracked = {}
    Operations <- MCOperations
    Tasks <- MCTasks
    RouteOperations <- MCRouteOperations
    Transfers = {}
    Actions = {}
    IdempotencyKeys <- MCIdempotencyKeys
    InitialLedger <- MCInitialLedger
    Requests <- MCRequests
    Workers = {w1, w2}
    MaxQuantity = 2
INVARIANTS
    AnsweredIsWritten
