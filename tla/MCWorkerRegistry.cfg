\* Three threads and a table of two entries: workers start, fail, sample and
\* leave around each other while three sessions come and go in two slots.
SPECIFICATION WorkerSpec
CONSTANTS
    w1 = w1
    w2 = w2
    w3 = w3
    owner = owner
    Workers <- MCWorkers
    Holders <- MCHolders
    t1 = t1
    t2 = t2
    Targets <- MCTargets
    NoTarget = NoTarget
    MaxToken = 3
    Capacity = 2
SYMMETRY Symmetric
INVARIANTS
    PinnedIsLive
    NoStraySignal
    SignalShared
    OutIsClean
    TokensNeverReused
PROPERTIES
    PinnedSessionStable
CHECK_DEADLOCK FALSE
