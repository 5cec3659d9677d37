\* Two files that share a row, imported, applied, rolled back and deleted in any
\* order, among approvals, cancellations and two launches.
SPECIFICATION Spec
CONSTANTS
    NULL = NULL
    beam = beam
    rail = rail
    o1 = o1
    o2 = o2
    Rows = {beam, rail}
    Files <- MCFiles
    Operators = {o1, o2}
    MaxBatches = 2
    MaxPositions = 3
    MaxReleases = 2
    MaxSteps = 9
SYMMETRY MCSymmetry
INVARIANTS
    TypeOK
    LaunchedWithinPlan
    OneActivePerRow
    Reapplicable
PROPERTIES
    LiveWorkSurvives
    SafeDeletionSparesTheRest
CHECK_DEADLOCK FALSE
