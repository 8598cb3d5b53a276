\* One worker and two callers of Stop; one execution more than both channels and the
\* worker can hold (3), and one more after the collector has taken one, so that every
\* bound is reached and goroutines get stuck when the collector has gone.
SPECIFICATION Spec
CONSTANTS
    Worker = {w1}
    Stopper = {s1, s2}
    NumTasks = 1
    MaxProduced = 5
    Unit = 100
    Target = 5005
    Rounding = 1
INVARIANTS
    ResultsConserved
    LossBounded
    Backpressure
    VerdictSound
    PanicOnlyOnMisuse
PROPERTIES
    ReportFinal
    KeepsPromise
    RunReturns
    SettlesAfterStop
\* Every goroutine may have ended or be stuck in a send.
CHECK_DEADLOCK FALSE
