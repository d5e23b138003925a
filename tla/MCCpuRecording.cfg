\* Two recordings of either kind, three ticks, and an application that calls, returns,
\* fails, forgets its recorders and results, and closes its VM.
SPECIFICATION CpuSpec
CONSTANTS
    MaxRecordings = 2
    lua = lua
    c1 = c1
    api = api
    LuaFunctions <- MCLuaFunctions
    CFunctions <- MCCFunctions
    Api = api
    SymbolCapacity = 2
    AggregateCapacity = 2
    StackDepth = 3
    MaxDepth = 3
    MaxTicks = 3
CONSTRAINT FewAtOnce
INVARIANTS
    OneOwner
    ActiveIsCollected
    SamplesAccounted
    StacksAreExact
CHECK_DEADLOCK FALSE
