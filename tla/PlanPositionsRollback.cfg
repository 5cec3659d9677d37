\* A file read before a launch is applied and rolled back after it.
SPECIFICATION Spec
CONSTANTS
    NULL = NULL
    beam = beam
    rail = rail
    o1 = o1
    Rows = {beam, rail}
    Files <- MCFiles
    Operators = {o1}
    MaxBatches = 2
    MaxPositions = 2
    MaxReleases = 1
    MaxSteps = 9
PROPERTIES
    ReleasedSurvivesRollback
CHECK_DEADLOCK FALSE
