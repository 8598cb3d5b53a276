\* Two pollers with small buffers, any of which may be closed at any moment.
SPECIFICATION Spec
CONSTANTS
    NumPollers = 2
    BufferSize = 1
    MaxBatch = 2
    MaxPolled = 2
INVARIANTS
    TypeOK
PROPERTIES
    KeepsStream
    Delivered
    CloseEndsAll
\* The bound on the events stops the pollers; a panic stops the process.
CHECK_DEADLOCK FALSE
