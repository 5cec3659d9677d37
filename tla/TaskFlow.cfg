\* One position through two stages, the store holding more than is planned
\* for the first and some material that is ready for the second.
SPECIFICATION Spec
CONSTANTS
    NumPositions = 1
    LastStage = 2
    CrossSpg = {1}
    Planned = 1
    InStock = 2
    Prepared = 1
    Required = {2}
    Quantities = {1, 2}
    AutoTransfer = {FALSE}
    OverPlan = {FALSE}
    FromJournal = {"task_complete", "final_release"}
    MaxTasks = 3
    MaxActions = 5
    NULL = NULL
INVARIANTS
    TypeOK
    NothingNegative
    StockIsThatOfTheTasks
    TransferMatchesLedger
    ReceivedIsInWork
    OneOpenTaskPerLine
    PlanCoversReceipts
    WorkedOnlyWhatWasReceived
PROPERTIES
    ClosedWithNothingInWork
    OnlyPartlyWorkedIsSkipped
    ReopensWithItsIssue
CHECK_DEADLOCK FALSE
