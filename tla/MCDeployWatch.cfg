\* Two runs that may overlap, each watched by an app test and the api test, that
\* can see the newest version only.  With radix 2 the number of the second run, 10,
\* begins with that of the first, 1.
SPECIFICATION FairSpec
CONSTANTS
    WaitOrder <- AppThenApi
    maxConcourseConnectionFailures = 2
    PageLimit = 1
    Radix = 2
    MaxRuns = 2
INVARIANTS
    TypeOK
    DeployWatched
    PassedMeansDeployed
PROPERTIES
    EndsWithDeploy
CHECK_DEADLOCK FALSE
