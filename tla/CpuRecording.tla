---------------------------- MODULE CpuRecording -----------------------------
(***************************************************************************)
(* CPU recordings of one VM, from the tick to the exported report: what    *)
(* ProfileOwnership says of recorders and results, together with the VM    *)
(* that runs, the events that wait for a safe point, and the profiles of   *)
(* CpuProfile that they end up in.                                         *)
(*                                                                         *)
(* A tick stores what the VM runs at that moment; the stack is captured    *)
(* later: by the next Lua instruction, when the host is back, or by stop.  *)
(* In between the VM calls, returns and unwinds.                           *)
(*                                                                         *)
(* One lua_State is followed; coroutines, and the ticks that become no     *)
(* event, are those of VmProfile and TickTimer.                            *)
(***************************************************************************)
EXTENDS ProfileOwnership, CpuProfile

CONSTANTS
    Api,        \* the functions of the luaprof module
    MaxDepth,   \* bound: frames of the application
    MaxTicks    \* bound: ticks that become events

ASSUME ApiAssumption == Api \in CFunctions

VARIABLES
    stack,      \* the functions that run, the innermost first
    fetched,    \* a Lua instruction is past its safe point
    events,     \* ticks whose stacks are not yet captured
    content,    \* the CPU profile of each generation
    heard,      \* history: the bag of events recorded in each generation's profile
    ticked,     \* history: how many ticks fell into each generation
    ticks       \* bound

execution == <<stack, fetched>>
data == <<events, content, heard, ticked>>
cpuVars == <<ownerVars, execution, data, ticks>>

Generations == 1 .. MaxRecordings
Current == slot["cpu"].generation

CpuInit ==
    /\ OwnerInit
    /\ stack = <<>> /\ fetched = FALSE
    /\ events = <<>>
    /\ content = [g \in Generations |-> NewCpuProfile]
    /\ heard = [g \in Generations |-> EmptyBag]
    /\ ticked = [g \in Generations |-> 0]
    /\ ticks = 0

------------------------------------------------------------------------------
(* Events. *)

Innermost(frames, functions) == frames # <<>> /\ Head(frames) \in functions
RunsLua == Innermost(stack, LuaFunctions)
RunsC == Innermost(stack, CFunctions)

\* A tick: the state and the C function are stored.  For the properties the event also
\* has the stack of a sampled C function, and how much of it has not been left since.
Event(vmState) ==
    IF vmState = "c"
    THEN [state |-> "c", cfunction |-> Head(stack), stack |-> stack, left |-> Len(stack)]
    ELSE [state |-> vmState, cfunction |-> NoFunction, stack |-> <<>>, left |-> 0]

Tick ==
    /\ collecting["cpu"] # NoGeneration /\ ticks < MaxTicks
    /\ \E vmState \in {"gc", IF RunsLua THEN "lua" ELSE IF RunsC THEN "c" ELSE "host"} :
            events' = Append(events, Event(vmState))
    /\ ticked' = [ticked EXCEPT ![Current] = @ + 1]
    /\ ticks' = ticks + 1
    /\ UNCHANGED <<ownerVars, execution, content, heard>>

\* The frame that was sampled is found: it still runs, nothing above it is a call of
\* the same function, and the captured stack is complete.
Found(event, captured) ==
    /\ event.state = "c" /\ event.left = Len(event.stack)
    /\ Len(captured) \in Len(event.stack) .. StackDepth
    /\ \A j \in 1 .. Len(captured) - Len(event.stack) : captured[j] # event.cfunction

\* capture_stack and record_cpu_event
record_cpu_event(profile, event, captured) ==
    IF event.state = "host"
    THEN lp_cpu_profile_record(profile, "host", event.cfunction, <<>>, FALSE)
    ELSE lp_cpu_profile_record(profile, event.state, event.cfunction,
            SubSeq(captured, 1, Min({StackDepth, Len(captured)})),
            Len(captured) > StackDepth)

\* What the history keeps of an event: its stack only if it can be found.
Noted(event, captured) ==
    [state |-> event.state, cfunction |-> event.cfunction,
     stack |-> IF Found(event, captured) THEN event.stack ELSE <<>>]

\* drain_thread_timer: the profile and the history after all events.
Drained(profile, history, captured) ==
    LET after[n \in 0 .. Len(events)] ==
            IF n = 0 THEN [profile |-> profile, history |-> history]
            ELSE [profile |-> record_cpu_event(after[n - 1].profile, events[n], captured),
                  history |-> after[n - 1].history
                                (+) SetToBag({Noted(events[n], captured)})]
    IN  after[Len(events)]

Drain(captured) ==
    LET drained == Drained(content[Current], heard[Current], captured)
    IN  IF events = <<>>
        THEN UNCHANGED data
        ELSE /\ content' = [content EXCEPT ![Current] = drained.profile]
             /\ heard' = [heard EXCEPT ![Current] = drained.history]
             /\ events' = <<>>
             /\ UNCHANGED ticked

------------------------------------------------------------------------------
(* The VM. *)

\* Something can be called, or a finalizer can run: not between two Lua instructions.
Within == RunsLua => fetched

\* vmfetch: the safe point of a Lua instruction.
Fetch ==
    /\ vm = "open" /\ RunsLua /\ ~fetched
    /\ fetched' = TRUE
    /\ Drain(stack)
    /\ UNCHANGED <<ownerVars, stack, ticks>>

CallFunction(f) ==
    /\ vm = "open" /\ Within /\ Len(stack) < MaxDepth
    /\ stack' = <<f>> \o stack
    /\ fetched' = FALSE
    /\ UNCHANGED <<ownerVars, data, ticks>>

\* A function returns; or an error leaves it, and the frames below it up to a C
\* function that catches it, or to the host.  A host that had resumed a coroutine, and
\* one with a scheduler, gets its events recorded first.
Leave(n) ==
    LET rest == SubSeq(stack, n + 1, Len(stack))
        remaining == [i \in DOMAIN events |->
                        [events[i] EXCEPT !.left = Min({@, Len(rest)})]]
    IN  /\ vm = "open" /\ Within /\ n \in 1 .. Len(stack)
        /\ n = 1 \/ rest = <<>> \/ Innermost(rest, CFunctions)
        /\ stack' = rest
        /\ fetched' = FALSE
        /\ \/ events' = remaining /\ UNCHANGED <<content, heard, ticked>>
           \/ rest = <<>> /\ events # <<>> /\ Drain(<<>>)
        /\ UNCHANGED <<ownerVars, ticks>>

------------------------------------------------------------------------------
(* The module's functions, called from where the VM is.                      *)

ApiStack == <<Api>> \o stack

\* Mutant of Flush: the profile is frozen before the bridge hands over its events.
mutant_late_flush(i) == UNCHANGED data

\* What stop, __close and __gc record before a CPU profile is frozen; deleted profiles
\* lose what they held.
Flush(i) ==
    IF recorder[i].kind = "cpu" /\ Stoppable(i) THEN Drain(ApiStack) ELSE UNCHANGED data

Forgotten(g) == g \in profiles /\ g \notin profiles'
Erase ==
    /\ content' = [g \in Generations |-> IF Forgotten(g) THEN NewCpuProfile ELSE content[g]]
    /\ heard' = [g \in Generations |-> IF Forgotten(g) THEN EmptyBag ELSE heard[g]]
    /\ ticked' = [g \in Generations |-> IF Forgotten(g) THEN 0 ELSE ticked[g]]

ApiStart(k) ==
    /\ Within
    /\ Start(k) \/ StartBusy(k) \/ StartFails(k)
    /\ fetched' = FALSE
    /\ UNCHANGED <<stack, data, ticks>>

ApiStop(i) ==
    /\ Within
    /\ Stop(i)
    /\ Flush(i)
    /\ fetched' = FALSE
    /\ UNCHANGED <<stack, ticks>>

\* The last events go into the profile and are deleted with it.
ApiDiscard(i) ==
    /\ Within
    /\ Close(i) \/ FinalizeRecorder(i)
    /\ events' = IF recorder[i].kind = "cpu" /\ Stoppable(i) THEN <<>> ELSE events
    /\ Erase
    /\ UNCHANGED <<execution, ticks>>

ApiFinalizeResult(i) ==
    /\ Within
    /\ FinalizeResult(i)
    /\ Erase
    /\ UNCHANGED <<execution, events, ticks>>

Reference(t, i) == Within /\ Forget(t, i) /\ UNCHANGED <<execution, data, ticks>>
Garbage == Within /\ Collect /\ UNCHANGED <<execution, data, ticks>>

\* The host closes its VM, whose finalizers' own Lua code is not followed.
HostClose ==
    /\ stack = <<>>
    /\ LuaClose \/ DeleteRuntime
    /\ UNCHANGED <<execution, data, ticks>>

CpuNext ==
    \/ Tick \/ Fetch \/ Garbage \/ HostClose
    \/ \E f \in LuaFunctions \cup (CFunctions \ {Api}) : CallFunction(f)
    \/ \E n \in 1 .. MaxDepth : Leave(n)
    \/ \E k \in Kinds : ApiStart(k)
    \/ \E i \in Recordings : ApiStop(i) \/ ApiDiscard(i) \/ ApiFinalizeResult(i)
    \/ \E t \in Things, i \in Recordings : Reference(t, i)

CpuSpec == CpuInit /\ [][CpuNext]_cpuVars

------------------------------------------------------------------------------
(* Properties. *)

Total(profile, chosen(_)) ==
    SumFunctionOnSet(profile.weight, {a \in DOMAIN profile.weight : chosen(a)})
HeardIn(g, chosen(_)) ==
    SumFunctionOnSet(heard[g], {e \in DOMAIN heard[g] : chosen(e)})

\* Every tick of a recording is in its profile once it is stopped, as the weight of an
\* aggregate of its state or as an overflow of the table, and only until then does one
\* wait; no tick is counted twice or in another recording.
SamplesAccounted ==
    /\ collecting["cpu"] = NoGeneration => events = <<>>
    /\ \A g \in Generations :
        LET profile == content[g]
        IN  /\ \A s \in VmStates :
                profile.counted[s] = Total(profile, LAMBDA a : a.state = s)
            /\ SumFunction(profile.counted) + profile.aggregate_overflows
                    = SumFunction(heard[g])
            /\ ticked[g] = SumFunction(heard[g])
                            + (IF collecting["cpu"] = g THEN Len(events) ELSE 0)

\* The report names the functions that were sampled, although their stacks are captured
\* later: as long as the tables hold everything, each C function has the weight of its
\* ticks, and each tick whose frame could still be found shows the stack of the moment
\* it fell (docs/profiling-model.md:102).
StacksAreExact ==
    \A g \in Generations : content[g].aggregate_overflows = 0 =>
        /\ \A f \in CFunctions :
            Total(content[g], LAMBDA a : a.state = "c" /\ a.cfunction = f)
                = HeardIn(g, LAMBDA e : e.state = "c" /\ e.cfunction = f)
        /\ content[g].symbol_overflows = 0 =>
            \A shown \in {e.stack : e \in DOMAIN heard[g]} \ {<<>>} :
                ExportedWeight(content[g], shown) >= HeardIn(g, LAMBDA e : e.stack = shown)
==============================================================================
