---------------------------- MODULE MemoryProfile ----------------------------
(***************************************************************************)
(* A memory recording: src/memory_core.c as the allocation callback of     *)
(* src/lua_bridge.c drives it through src/runtime.c.  Symbols, aggregates  *)
(* and the live table have fixed capacities; live entries are chained in   *)
(* buckets and in a free list by their indices; sums saturate.             *)
(*                                                                         *)
(* The VM is external: it allocates, frees and moves blocks whose          *)
(* addresses come back, with or without a recording, and also while the    *)
(* profiler's own work is open.  A stack is the sequence of symbols it     *)
(* needs: what else a frame holds (its line, its name) separates no two    *)
(* frames that this model tells apart.  Objects are counted as space is    *)
(* and are left out.                                                       *)
(***************************************************************************)
EXTENDS Naturals, FiniteSetsExt, SequencesExt

CONSTANTS
    Pointers,           \* addresses of blocks
    NoPointer,          \* NULL
    Symbols,            \* functions that may be on a stack
    Overflow,           \* symbol 0
    Stacks,             \* the stacks at which the VM allocates
    Buckets,            \* of the live table
    SymbolCapacity,     \* LP_MEMORY_SYMBOL_CAPACITY
    AggregateCapacity,  \* LP_MEMORY_AGGREGATE_CAPACITY
    LiveCapacity,       \* LP_MEMORY_LIVE_CAPACITY
    MaxWord,            \* UINT64_MAX
    MaxWeight           \* bound: weight of a sample

ASSUME PointersAssumption == NoPointer \notin Pointers
ASSUME CapacitiesAssumption ==
    {SymbolCapacity, AggregateCapacity, LiveCapacity, MaxWord, MaxWeight} \subseteq Nat
ASSUME StacksAssumption == Overflow \notin Symbols /\ Stacks \subseteq Seq(Symbols)

VARIABLES
    heap,       \* the VM's blocks
    bucketOf,   \* pointer_bucket: any hash of addresses
    active,     \* the recording runs: the allocation hook is set
    working,    \* profiler_work_depth is not zero
    profile,    \* lp_memory_profile of the running or the last recording
    sampled,    \* history: the weight that was sampled at each stack
    saturated   \* history: a sum has saturated

vars == <<heap, bucketOf, active, working, profile, sampled, saturated>>

Entries == 1 .. LiveCapacity
NoEntry == 0
NoAggregate == [alloc |-> 0, inuse |-> 0]

Plus(value, increment) ==
    IF value + increment > MaxWord THEN MaxWord ELSE value + increment
\* Mutant of Less: no saturation.
mutant_underflow(value, decrement) == value - decrement
Less(value, decrement) == IF value < decrement THEN 0 ELSE value - decrement

\* lp_memory_profile_new: all entries are in the free list, in order.
NewProfile(trackFree) ==
    [symbols |-> {},
     aggregates |-> [stack \in {} |-> NoAggregate],
     tracks |-> trackFree,
     entries |-> [i \in Entries |->
                    [pointer |-> NoPointer, weight |-> 0, stack |-> <<>>,
                     next |-> IF trackFree /\ i < LiveCapacity
                              THEN i + 1 ELSE NoEntry]],
     buckets |-> [b \in Buckets |-> NoEntry],
     free |-> IF trackFree /\ LiveCapacity > 0 THEN 1 ELSE NoEntry,
     liveCount |-> 0,
     alloc |-> 0, inuse |-> 0,
     overflowed |-> [symbol |-> FALSE, aggregate |-> FALSE, live |-> FALSE]]

Init ==
    /\ heap = {}
    /\ bucketOf \in [Pointers -> Buckets]
    /\ active = FALSE /\ working = FALSE
    /\ profile = NewProfile(FALSE)
    /\ sampled = [stack \in {} |-> 0]
    /\ saturated = FALSE

------------------------------------------------------------------------------
(* The live table. *)

\* The entries from an index on, following next.
Chain(prof, head) ==
    LET at[n \in Entries] ==
            IF n = 1 THEN head
            ELSE IF at[n - 1] = NoEntry THEN NoEntry ELSE prof.entries[at[n - 1]].next
    IN  [n \in {k \in Entries : at[k] # NoEntry} |-> at[n]]

BucketChain(prof, p) == Chain(prof, prof.buckets[bucketOf[p]])
Find(prof, p) ==
    LET found == {i \in ToSet(BucketChain(prof, p)) : prof.entries[i].pointer = p}
    IN  IF found = {} THEN NoEntry ELSE CHOOSE i \in found : TRUE

\* Mutant of SubtractWeight: the aggregate of the stack is forgotten.
mutant_total_only(prof, i) ==
    [prof EXCEPT !.inuse = Less(@, prof.entries[i].weight)]

\* subtract_live_weight
SubtractWeight(prof, i) ==
    LET entry == prof.entries[i]
    IN  [prof EXCEPT !.aggregates[entry.stack].inuse = Less(@, entry.weight),
                     !.inuse = Less(@, entry.weight)]
AddWeight(prof, stack, weight) ==
    [prof EXCEPT !.aggregates[stack].inuse = Plus(@, weight),
                 !.inuse = Plus(@, weight)]

\* Mutant of Unlink: always at the head of the bucket.
mutant_unlink_head(prof, p, i) ==
    [prof EXCEPT !.buckets[bucketOf[p]] = prof.entries[i].next]

\* The link to entry i, in its bucket or in the entry before it, passes over it.
Unlink(prof, p, i) ==
    LET chain == BucketChain(prof, p)
        place == CHOOSE k \in DOMAIN chain : chain[k] = i
    IN  IF place = 1
        THEN [prof EXCEPT !.buckets[bucketOf[p]] = prof.entries[i].next]
        ELSE [prof EXCEPT !.entries[chain[place - 1]].next = prof.entries[i].next]

RemoveLive(prof, p) ==
    LET i == Find(prof, p)
    IN  IF ~prof.tracks \/ i = NoEntry THEN prof
        ELSE [Unlink(SubtractWeight(prof, i), p, i) EXCEPT
                !.entries[i].pointer = NoPointer,
                !.entries[i].next = prof.free,
                !.free = i,
                !.liveCount = @ - 1]

AddLive(prof, p, stack, weight) ==
    LET found == Find(prof, p)
        i == prof.free
        entry == [pointer |-> p, weight |-> weight, stack |-> stack,
                  next |-> prof.buckets[bucketOf[p]]]
    IN  IF ~prof.tracks THEN prof
        ELSE IF found # NoEntry
        THEN AddWeight([SubtractWeight(prof, found) EXCEPT
                !.entries[found].weight = weight,
                !.entries[found].stack = stack], stack, weight)
        ELSE IF i = NoEntry THEN [prof EXCEPT !.overflowed.live = TRUE]
        ELSE AddWeight([prof EXCEPT !.free = prof.entries[i].next,
                                    !.entries[i] = entry,
                                    !.buckets[bucketOf[p]] = i,
                                    !.liveCount = @ + 1], stack, weight)

\* lp_memory_profile_allocation_event of a success: the old block is gone, whether it
\* was freed or reallocated.  A failed reallocation keeps it and changes nothing.
Reconcile(prof, old) == IF old = NoPointer THEN prof ELSE RemoveLive(prof, old)

\* Mutant of Reconciled: nothing is reconciled during the profiler's own work.
mutant_deaf_work(old) ==
    IF active /\ ~working THEN Reconcile(profile, old) ELSE profile

\* lp_runtime_memory_reconcile_live, whether or not the profiler's own work is open.
Reconciled(old) == IF active THEN Reconcile(profile, old) ELSE profile

------------------------------------------------------------------------------
(* lp_memory_profile_record. *)

\* Mutant of Intern: a symbol that is lost is not reported.
mutant_silent_overflow(prof, symbol) ==
    IF Cardinality(prof.symbols) < SymbolCapacity
    THEN [prof EXCEPT !.symbols = @ \cup {symbol}] ELSE prof

\* intern_symbol for each frame: a symbol that finds the table full is Overflow.
Intern(prof, symbol) ==
    IF symbol \in prof.symbols THEN prof
    ELSE IF Cardinality(prof.symbols) < SymbolCapacity
    THEN [prof EXCEPT !.symbols = @ \cup {symbol}]
    ELSE [prof EXCEPT !.overflowed.symbol = TRUE]
InternAll(prof, stack) ==
    LET interned[n \in 0 .. Len(stack)] ==
            IF n = 0 THEN prof ELSE Intern(interned[n - 1], stack[n])
    IN  interned[Len(stack)]
Compact(prof, stack) ==
    [k \in DOMAIN stack |-> IF stack[k] \in prof.symbols THEN stack[k] ELSE Overflow]

\* The aggregate of a compact stack, new or found.
Aggregate(prof, key, weight) ==
    LET old == IF key \in DOMAIN prof.aggregates THEN prof.aggregates[key]
               ELSE NoAggregate
    IN  [prof EXCEPT !.aggregates =
            [k \in DOMAIN @ \cup {key} |->
                IF k = key THEN [old EXCEPT !.alloc = Plus(@, weight)] ELSE @[k]],
                     !.alloc = Plus(@, weight)]

HasAggregate(prof, key) ==
    \/ key \in DOMAIN prof.aggregates
    \/ Cardinality(DOMAIN prof.aggregates) < AggregateCapacity

\* Mutant of Record: a sample that finds the table full is dropped silently.
mutant_silent_drop(prof, p, stack, weight) ==
    LET interned == InternAll(prof, stack)
        key == Compact(interned, stack)
    IN  IF HasAggregate(interned, key)
        THEN AddLive(Aggregate(interned, key, weight), p, key, weight)
        ELSE interned

Record(prof, p, stack, weight) ==
    LET interned == InternAll(prof, stack)
        key == Compact(interned, stack)
    IN  IF HasAggregate(interned, key)
        THEN AddLive(Aggregate(interned, key, weight), p, key, weight)
        ELSE [interned EXCEPT !.overflowed.aggregate = TRUE]

------------------------------------------------------------------------------
(* The VM.  Each operation on a block is followed by the callback "allocation". *)

\* The histories see every sample that is given to lp_memory_profile_record, with
\* the stack it was taken at, whatever the profile makes of it.
Remember(before, stack, weight) ==
    /\ sampled' = [s \in DOMAIN sampled \cup {stack} |->
                     IF s # stack THEN sampled[s]
                     ELSE Plus(IF s \in DOMAIN sampled THEN sampled[s] ELSE 0, weight)]
    /\ saturated' = (saturated \/ before.alloc + weight > MaxWord)

\* Which allocations lp_memory_profile_should_sample picks is random, and so is the
\* weight it gives them, which is never zero.
Weights == 1 .. MaxWeight

\* A block p replaces the block old, or is new.
Callback(old, p) ==
    \/ profile' = Reconciled(old) /\ UNCHANGED <<sampled, saturated>>
    \/ /\ active /\ ~working
       /\ \E stack \in Stacks, weight \in Weights :
            /\ profile' = Record(Reconciled(old), p, stack, weight)
            /\ Remember(Reconciled(old), stack, weight)

Allocate(p) ==
    /\ p \notin heap /\ heap' = heap \cup {p}
    /\ Callback(NoPointer, p)
    /\ UNCHANGED <<bucketOf, active, working>>

Reallocate(old, p) ==
    /\ old \in heap /\ (p = old \/ p \notin heap)
    /\ heap' = (heap \ {old}) \cup {p}
    /\ Callback(old, p)
    /\ UNCHANGED <<bucketOf, active, working>>

Free(p) ==
    /\ p \in heap /\ heap' = heap \ {p}
    /\ profile' = Reconciled(p)
    /\ UNCHANGED <<bucketOf, active, working, sampled, saturated>>

------------------------------------------------------------------------------
(* The recorder, whose functions hold a work guard. *)

BeginWork == ~working /\ working' = TRUE
                /\ UNCHANGED <<heap, bucketOf, active, profile, sampled, saturated>>
EndWork == working /\ working' = FALSE
                /\ UNCHANGED <<heap, bucketOf, active, profile, sampled, saturated>>

\* lp_runtime_start of a memory recording.
Start ==
    /\ working /\ ~active
    /\ active' = TRUE
    /\ \E trackFree \in BOOLEAN : profile' = NewProfile(trackFree)
    /\ sampled' = [stack \in {} |-> 0]
    /\ saturated' = FALSE
    /\ UNCHANGED <<heap, bucketOf, working>>

\* lp_memory_profile_finish: the table is freed, the sums stay.
Finish(prof) ==
    [prof EXCEPT !.tracks = FALSE, !.liveCount = 0,
                 !.entries = NewProfile(FALSE).entries,
                 !.buckets = [b \in Buckets |-> NoEntry], !.free = NoEntry]

\* lp_runtime_stop of it.
Stop ==
    /\ working /\ active
    /\ active' = FALSE
    /\ profile' = Finish(profile)
    /\ UNCHANGED <<heap, bucketOf, working, sampled, saturated>>

Next ==
    \/ \E p \in Pointers :
            Allocate(p) \/ Free(p) \/ (\E old \in Pointers : Reallocate(old, p))
    \/ BeginWork \/ EndWork \/ Start \/ Stop

Spec == Init /\ [][Next]_vars

------------------------------------------------------------------------------
(* Properties. *)

Keys == UNION {[DOMAIN stack -> Symbols \cup {Overflow}] : stack \in Stacks}
Words == 0 .. MaxWord

\* Every variable keeps the type its declaration states.
TypeOK ==
    /\ heap \subseteq Pointers
    /\ bucketOf \in [Pointers -> Buckets]
    /\ active \in BOOLEAN /\ working \in BOOLEAN /\ saturated \in BOOLEAN
    /\ profile.symbols \subseteq Symbols
    /\ Cardinality(profile.symbols) <= SymbolCapacity
    /\ profile.aggregates \in
            [DOMAIN profile.aggregates -> [alloc: Words, inuse: Words]]
    /\ DOMAIN profile.aggregates \subseteq Keys
    /\ Cardinality(DOMAIN profile.aggregates) <= AggregateCapacity
    /\ profile.entries \in
            [Entries -> [pointer: Pointers \cup {NoPointer}, weight: 0 .. MaxWeight,
                         stack: Keys \cup {<<>>}, next: Entries \cup {NoEntry}]]
    /\ profile.buckets \in [Buckets -> Entries \cup {NoEntry}]
    /\ profile.free \in Entries \cup {NoEntry}
    /\ profile.liveCount \in 0 .. LiveCapacity
    /\ profile.alloc \in Words /\ profile.inuse \in Words

Held == {i \in Entries : profile.entries[i].pointer # NoPointer}

\* The buckets and the free list share out the entries: none is in two lists or in
\* none, each is in its pointer's bucket, and no pointer is held twice.
TableSound ==
    profile.tracks =>
        /\ LET chain == Chain(profile, profile.free)
           IN  IsInjective(chain) /\ ToSet(chain) = Entries \ Held
        /\ \A b \in Buckets :
            LET chain == Chain(profile, profile.buckets[b])
            IN  /\ IsInjective(chain)
                /\ ToSet(chain) =
                    {i \in Held : bucketOf[profile.entries[i].pointer] = b}
        /\ \A i, j \in Held :
                profile.entries[i].pointer = profile.entries[j].pointer => i = j
        /\ profile.liveCount = Cardinality(Held)

\* The sums of the report agree with each other and, until one of them saturates,
\* what is in use weighs what the live blocks do, in total and for each stack.
SumsAgree ==
    LET keys == DOMAIN profile.aggregates
        Weight(held) == SumFunctionOnSet(
                            [i \in Entries |-> profile.entries[i].weight], held)
        total == SumFunction([k \in keys |-> profile.aggregates[k].alloc])
    IN  /\ profile.alloc = Plus(total, 0)
        /\ profile.inuse <= profile.alloc
        /\ \A k \in keys : profile.aggregates[k].inuse <= profile.aggregates[k].alloc
        /\ (profile.tracks /\ ~saturated) =>
            /\ profile.inuse = Weight(Held)
            /\ \A k \in keys : profile.aggregates[k].inuse =
                    Weight({i \in Held : profile.entries[i].stack = k})

\* Until the profile says that symbols were lost, each aggregate has the samples of
\* the one stack it names, all of them, and no other's.
StacksSeparate ==
    ~profile.overflowed.symbol =>
        \A k \in DOMAIN profile.aggregates :
            k \in DOMAIN sampled /\ profile.aggregates[k].alloc = sampled[k]

\* The report lacks a sample exactly when it says that aggregates were lost, as far
\* as a total that is not saturated can tell.
LossIsTold ==
    LET total == Plus(SumFunction(sampled), 0)
    IN  /\ ~profile.overflowed.aggregate => profile.alloc = total
        /\ profile.overflowed.aggregate /\ profile.alloc < MaxWord => profile.alloc < total

\* A sample is merged with those of another stack, or dropped, only if the profile
\* says so (overflowed of lp_memory_profile), and it never says for nothing that some
\* were dropped.
NoSilentLoss == StacksSeparate /\ LossIsTold

\* The table is a map from blocks to samples: MemoryProfile implements LiveMap.
LiveSample(p) == LET entry == profile.entries[Find(profile, p)]
                 IN  [stack |-> entry.stack, weight |-> entry.weight]
Live == INSTANCE LiveMap WITH
    Samples <- [stack: Keys, weight: Weights],
    Capacity <- LiveCapacity,
    live <- [p \in {q \in Pointers : Find(profile, q) # NoEntry} |-> LiveSample(p)]
LiveMapSpec == Live!Spec
==============================================================================
