----------------------------- MODULE CpuProfile ------------------------------
(***************************************************************************)
(* The data of a CPU recording: src/src/cpu_core.c, and what               *)
(* build_cpu_samples of src/src/pprof_exporter.c makes of it.              *)
(*                                                                         *)
(* Symbols and aggregates are hash tables of fixed capacity that are       *)
(* probed over their whole length, here sets with a limit.  A frame is     *)
(* its function: lines and the text of symbols tell no two frames of this  *)
(* model apart.  Sums are far from the width of their words.               *)
(***************************************************************************)
EXTENDS FiniteSetsExt, SequencesExt

CONSTANTS
    LuaFunctions,       \* Lua functions on the stack
    CFunctions,         \* C functions on the stack
    SymbolCapacity,     \* LP_CPU_SYMBOL_CAPACITY
    AggregateCapacity,  \* LP_CPU_AGGREGATE_CAPACITY
    StackDepth          \* LP_CAPTURE_STACK_DEPTH, LP_CPU_MAX_STACK_DEPTH

ASSUME FunctionsAssumption == LuaFunctions \cap CFunctions = {}
ASSUME CapacityAssumption ==
    SymbolCapacity \in Nat /\ AggregateCapacity \in Nat /\ StackDepth \in Nat

VmStates == {"host", "lua", "c", "gc"}
NoFunction == "NULL"
NoSymbol == "[unknown frame]"   \* symbol 0, and what is exported for it

\* lp_cpu_profile_new: "weight" is the table of aggregates, "counted" the samples of
\* each state.
NewCpuProfile ==
    [symbols |-> {},
     weight |-> [a \in {} |-> 0],
     counted |-> [s \in VmStates |-> 0],
     truncations |-> 0, aggregate_overflows |-> 0, symbol_overflows |-> 0]

\* The symbol that a frame gets: known, new, or none because the table is full.
intern_symbol(profile, frame) ==
    IF frame \in profile.symbols
    THEN [profile |-> profile, symbol |-> frame]
    ELSE IF Cardinality(profile.symbols) < SymbolCapacity
    THEN [profile |-> [profile EXCEPT !.symbols = @ \cup {frame}], symbol |-> frame]
    ELSE [profile |-> [profile EXCEPT !.symbol_overflows = @ + 1], symbol |-> NoSymbol]

\* All frames of a stack, the innermost first.
InternStack(profile, stack) ==
    LET after[n \in 0 .. Len(stack)] ==
            IF n = 0 THEN [profile |-> profile, frames |-> <<>>]
            ELSE LET step == intern_symbol(after[n - 1].profile, stack[n])
                 IN  [profile |-> step.profile,
                      frames |-> Append(after[n - 1].frames, step.symbol)]
    IN  after[Len(stack)]

Aggregate(vmState, cfunction, frames) ==
    [state |-> vmState, cfunction |-> cfunction, frames |-> frames]
HasRoom(profile, a) ==
    a \in DOMAIN profile.weight \/ Cardinality(DOMAIN profile.weight) < AggregateCapacity
Merge(profile, a, truncated) ==
    LET weight == profile.weight
        known == DOMAIN weight
        old == IF a \in known THEN weight[a] ELSE 0
    IN  [profile EXCEPT !.weight = [b \in known \cup {a} |->
                                        IF b = a THEN old + 1 ELSE weight[b]],
                        !.counted[a.state] = @ + 1,
                        !.truncations = IF truncated THEN @ + 1 ELSE @]

\* One event.  Its symbols are interned even if no aggregate is left for it.
lp_cpu_profile_record(profile, vmState, cfunction, stack, truncated) ==
    LET interned == InternStack(profile, stack)
        a == Aggregate(vmState, cfunction, interned.frames)
    IN  IF HasRoom(profile, a) THEN Merge(interned.profile, a, truncated)
        ELSE [interned.profile EXCEPT !.aggregate_overflows = @ + 1]

------------------------------------------------------------------------------
(* The stack that an aggregate is exported with, the innermost frame first.  *)

\* What was sampled, where it is not a Lua function.
Leaf(a) ==
    CASE a.state = "host" -> <<"[host]">>
      [] a.state = "gc" -> <<"[gc]">>
      [] a.state = "c" -> <<a.cfunction>>
      [] OTHER -> <<>>
Matches(a) == {j \in DOMAIN a.frames : a.state = "c" /\ a.frames[j] = a.cfunction}
Shown(a, captured_start) ==
    LET frames == Leaf(a) \o SubSeq(a.frames, captured_start + 1, Len(a.frames))
    IN  IF frames = <<>> THEN <<"[lua]">> ELSE frames

\* Mutant: of several frames of the sampled function, the outermost is taken.
mutant_last_match(a) ==
    Shown(a, IF Matches(a) = {} THEN 0 ELSE Max(Matches(a)))

\* Frames above the first occurrence of the sampled C function in the stack that was
\* captured later were entered after the tick.
ExportStack(a) ==
    Shown(a, IF Matches(a) = {} THEN 0 ELSE Min(Matches(a)))

\* The weight that the samples of a report give to a stack.
ExportedAs(profile, stack) == {a \in DOMAIN profile.weight : ExportStack(a) = stack}
ExportedWeight(profile, stack) ==
    SumFunctionOnSet(profile.weight, ExportedAs(profile, stack))
==============================================================================
