\* A session with every call of its VM and every tick, by any worker, and a second
\* session given the one slot while calls and ticks of the first are on their way.
SPECIFICATION Spec
CONSTANTS
    Workers = {w1, w2}
    NoWorker = NoWorker
    Handles = {h1, h2}
    NoHandle = NoHandle
    NumTargets = 1
    NoTarget = NoTarget
    RingCapacity = 1
    Hz = {1}
    MaxToken = 2
    SystemCallsFail = FALSE
    ForeignStop = TRUE
CONSTRAINT LastStays
SYMMETRY Symmetry
INVARIANTS
    NoUseAfterFree
    SamplesBelong
    SingleProducer
PROPERTIES
    LifecycleSpec
    NothingLost
    SessionsSpec
