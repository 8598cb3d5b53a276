\* Three workers and a tolerance of three.
SPECIFICATION ToleranceSpec
CONSTANTS
    Worker = {w1, w2, w3}
    Allowed = 3
    MaxFailures = 6
SYMMETRY Symmetry
INVARIANTS
    ToleranceTypeOK
    ErrorsOnlyBeyondTolerance
CHECK_DEADLOCK FALSE
