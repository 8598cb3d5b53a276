\* Two runs, the second of which may be waiting for the lock during all of the first.
SPECIFICATION Spec
CONSTANTS
    Job <- JobNames
    Aside <- Credentials
    Passed <- JobPassed
    Before <- JobsBefore
    Excludes <- JobExcludes
    Writes <- JobWrites
    Reads <- JobReads
    ClaimMayFail = FALSE
    HandRelease = FALSE
    HandStarts = FALSE
    MaxRuns = 2
INVARIANTS
    OneRunAtATime
    CanGoOn
PROPERTIES
    OwnInputs
\* All runs may be over.
CHECK_DEADLOCK FALSE
