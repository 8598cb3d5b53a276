\* The polling goroutine gives up, and races the spec it wants to fail.
SPECIFICATION Spec
CONSTANTS
    WaitOrder <- ApiAlone
    maxConcourseConnectionFailures = 2
    PageLimit = 1
    Radix = 10
    MaxRuns = 1
INVARIANTS
    LostContactFails
CHECK_DEADLOCK FALSE
