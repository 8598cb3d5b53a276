\* Two runs on one page: the tests of the first, if its deploy stops, hold the serial
\* jobs until their 12 hours are over.
SPECIFICATION FairSpec
CONSTANTS
    WaitOrder <- ApiAlone
    maxConcourseConnectionFailures = 2
    PageLimit = 2
    Radix = 10
    MaxRuns = 2
PROPERTIES
    NewestRunIsTested
CHECK_DEADLOCK FALSE
