SPECIFICATION Spec
CONSTANTS
    Pointers = {p1, p2, p3}
    NoPointer = NoPointer
    f = f
    g = g
    Symbols <- MCSymbols
    Overflow = Overflow
    Stacks <- MCStacks
    Buckets = {b1, b2}
    SymbolCapacity = 1
    AggregateCapacity = 2
    LiveCapacity = 2
    MaxWord = 3
    MaxWeight = 2
CONSTRAINTS FewHeavy FewDropped
SYMMETRY Symmetric
INVARIANTS
    TypeOK
    TableSound
    SumsAgree
    NoSilentLoss
PROPERTIES
    LiveMapSpec
