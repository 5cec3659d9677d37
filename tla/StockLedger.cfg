SPECIFICATION Spec
CONSTANTS
    NULL = NULL
    product = product
    rawStore = rawStore
    saw = saw
    shipped = shipped
    none = none
    cut = cut
    sawTask = sawTask
    shipTask = shipTask
    issue = issue
    shipment = shipment
    receipt = receipt
    issuing = issuing
    portion = portion
    shipping = shipping
    correction = correction
    issueKey = issueKey
    Products <- MCProducts
    Locations <- MCLocations
    Terminal <- MCTerminal
    LotTracked <- MCLotTracked
    Operations <- MCOperations
    Tasks <- MCTasks
    RouteOperations <- MCRouteOperations
    Transfers <- MCTransfers
    Actions <- MCActions
    IdempotencyKeys <- MCIdempotencyKeys
    Batches <- MCBatches
    Commands <- MCCommands
    MaxQuantity = 2
    MaxTransactions = 6
INVARIANTS
    TypeOK
    BalanceMatchesLedger
    CompensationsMirror
PROPERTIES
    NegativeOnlyByPermission
    TerminalKeepsMaterial
    ImplementsMoves
