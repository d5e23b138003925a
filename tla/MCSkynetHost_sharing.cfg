\* Two sessions at a time share the count, the frequency and the timers, and
\* timer_settime or calloc fails at any time.
SPECIFICATION Spec
CONSTANTS
    Workers = {w1, w2}
    NoWorker = NoWorker
    Handles = {h1, h2}
    NoHandle = NoHandle
    NumTargets = 2
    NoTarget = NoTarget
    RingCapacity = 1
    Hz = {1, 2}
    MaxToken = 3
    SystemCallsFail = TRUE
    ForeignStop = FALSE
SYMMETRY Symmetry
CONSTRAINTS
    Quiet
    LastStays
INVARIANTS
    CountsExact
    ArmedForTarget
PROPERTIES
    FailureReported
    NothingLost
