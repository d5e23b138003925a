\* The main thread and two coroutines call, yield, fail, close and are collected
\* while a tick is taken: every path that hands the running state over.
SPECIFICATION Spec
CONSTANTS
    Main = main
    States = {main, co1, co2}
    NoState = NoState
    Work = {work}
    PCall = pcall
    Resume = resume
    Yield = yield
    CloseThread = closethread
    Api = api
    GuardClose = guardclose
    Functions = {work, pcall, resume, yield, closethread, api, guardclose}
    NoFunction = NoFunction
    RingCapacity = 1
    MaxFrames <- ThreeOnMain
    MaxWork = 1
    MaxTicks = 1
    MaxOverrun = 0
    MaxSessions = 1
CONSTRAINT FewFrames
SYMMETRY Symmetric
INVARIANTS
    NoDeadCoroutine
    SlotShowsRunning
    WorkIsOverhead
    QueueNamesRunning
