\* As the shop floor pages send it: auto_transfer_next is always set.
SPECIFICATION Spec
CONSTANTS
    NumPositions = 1
    LastStage = 2
    CrossSpg = {1}
    Planned = 2
    Prepared = 0
    InStock = 2
    Required = {1, 2}
    Quantities = {1, 2}
    AutoTransfer = {TRUE}
    OverPlan = {FALSE}
    FromJournal = {"task_complete", "final_release"}
    MaxTasks = 3
    MaxActions = 5
    NULL = NULL
INVARIANTS
    PlanCoversReceipts
CHECK_DEADLOCK FALSE
