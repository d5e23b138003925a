SPECIFICATION Spec
CONSTANTS
    Main = main
    States = {main, co1}
    NoState = NoState
    Work = {work}
    PCall = pcall
    Resume = resume
    Yield = yield
    CloseThread = closethread
    Api = api
    GuardClose = guardclose
    Functions = {work, pcall, resume, yield, closethread, api, guardclose}
    NoFunction = NoFunction
    RingCapacity = 1
    MaxFrames <- TwoFrames
    MaxWork = 1
    MaxTicks = 2
    MaxOverrun = 1
    MaxSessions = 2
CONSTRAINT FewAtOnce
INVARIANTS
    QueuedIsRequested
    ExpirationsCounted
