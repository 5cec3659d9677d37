\* A first stage partly worked, and material in store ready for the second.
SPECIFICATION Spec
CONSTANTS
    NumPositions = 1
    LastStage = 2
    CrossSpg = {}
    Planned = 2
    InStock = 2
    Prepared = 1
    Required = {1, 2}
    Quantities = {1, 2}
    AutoTransfer = {FALSE}
    OverPlan = {FALSE}
    FromJournal = {"task_complete", "final_release"}
    MaxTasks = 3
    MaxActions = 4
    NULL = NULL
INVARIANTS
    SkippedHasNoMaterial
CHECK_DEADLOCK FALSE
