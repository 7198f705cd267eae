CONSTANTS
    MaxWrites = 2
    MaxFaults = 2
    MaxRuns = 2
SPECIFICATION Spec
INVARIANTS
    PreviousSurvives
CHECK_DEADLOCK FALSE
