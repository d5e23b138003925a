\* No symmetry: it is not sound for liveness.  The constraint only leaves out
\* calls that a VM need not make and ticks that need not come.
SPECIFICATION FairSpec
CONSTANTS
    w1 = w1
    w2 = w2
    h1 = h1
    h2 = h2
    Workers = {w1, w2}
    NoWorker = NoWorker
    Handles = {h1, h2}
    NoHandle = NoHandle
    NumTargets = 1
    NoTarget = NoTarget
    RingCapacity = 1
    Hz = {1}
    MaxToken = 1
    SystemCallsFail = TRUE
    ForeignStop = TRUE
CONSTRAINT OneRecorded
PROPERTIES
    CallsReturn
