SPECIFICATION Spec
CONSTANTS
    Threads = {t1, t2}
    Timers = {a1, a2}
    NoTimer = NoTimer
    Slots = {s1, s2}
    NoSlot = NoSlot
    States = {main}
    NoState = NoState
    Functions = {work}
    NoFunction = NoFunction
    RingCapacity = 1
    MaxTicks = 2
    MaxArms = 2
CONSTRAINT FewAtOnce
SYMMETRY Symmetric
INVARIANTS
    ProcessSurvives
    TableExact
    TicksAreOwn
    ExpirationsKept
    NothingLeftBehind
