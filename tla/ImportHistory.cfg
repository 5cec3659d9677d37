\* A legacy batch and two imports among other movements of the same material.
SPECIFICATION Spec
CONSTANTS
    NULL = NULL
    store = store
    shop = shop
    good = good
    scrap = scrap
    Locations <- MCLocations
    Qualities <- MCQualities
    Sheets <- MCSheets
    Overrides <- MCOverrides
    Moved <- MCMoved
    Quantities = {1}
    MaxBatches = 3
    MaxOutside = 1
INVARIANTS
    TypeOK
    StockIsOfImportsInForce
    NothingNegative
    ButtonTellsTheTruth
PROPERTIES
    RollbackRestores
CHECK_DEADLOCK FALSE
