------------------------------ MODULE VmProfile ------------------------------
(***************************************************************************)
(* One Lua VM with the profiling patch, its bridge and its thread timer    *)
(* (src/patches/lua-5.4.8.patch, src/lua_bridge.c, src/lua_module.c with   *)
(* the thread backend).  Coroutines are resumed, yield, fail, are closed   *)
(* and are collected; C functions call back into Lua; the profiler's own   *)
(* functions start and stop recordings and hold a work guard while they    *)
(* run.  Every change of what the VM runs is announced to the bridge,      *)
(* which publishes it to the signal handler, and a timer tick may fall     *)
(* between any two steps of all this.                                      *)
(*                                                                         *)
(* What the VM does next is the environment's choice: one action per       *)
(* primitive, taken when "todo" is empty.  It puts the calls that the      *)
(* patched primitive makes, in order, in "todo"; each later step performs  *)
(* the first of them, which may put further calls in front of the rest (a  *)
(* state change calls the bridge, the bridge drains the ring).  A callback *)
(* runs no Lua code, so profileincallback is never set when the VM makes a *)
(* call and is not kept.                                                   *)
(***************************************************************************)
EXTENDS TickTimer, FiniteSets, SequencesExt

CONSTANTS
    Main,           \* the VM's main thread
    Work,           \* C functions of the application
    PCall,          \* pcall
    Resume,         \* coroutine.resume
    Yield,          \* coroutine.yield
    CloseThread,    \* coroutine.close
    Api,            \* a function of the luaprof module
    GuardClose,     \* profiler_work_guard_close
    MaxFrames,      \* bound: frames of each lua_State
    MaxWork,        \* bound: work guards open when a luaprof function is called
    MaxTicks,       \* bound: timer expirations of a behaviour
    MaxOverrun,     \* bound: expirations one delivery may carry besides its own
    MaxSessions     \* bound: CPU recordings started

ASSUME MainAssumption == Main \in States
ASSUME FunctionsAssumption ==
    Work \cup {PCall, Resume, Yield, CloseThread, Api, GuardClose} = Functions
ASSUME ApiAssumption ==
    Api \notin Work \cup {PCall, Resume, Yield, CloseThread, GuardClose}
ASSUME BoundsAssumption == MaxOverrun \in Nat

VARIABLES
    status,         \* of each lua_State: free, suspended, running or dead
    chain,          \* the resumed lua_States, the running one last
    frames,         \* the frames of each lua_State, the innermost last
    hooks,          \* which of the VM's hooks are set
    profile,        \* profilestate and profilecfunction of each lua_State
    profileThread,  \* profilethread
    pending,        \* profilepending
    todo,           \* calls the current primitive has still to make
    timer,          \* the bridge's cpu_timer (NewTimer while it is NULL)
    armed,          \* the kernel timer runs
    cpuActive, memoryActive,    \* of the bridge
    workDepth,      \* profiler_work_depth
    recording,      \* the runtime's CPU collector is active
    stats,          \* what its profile has counted, kept after stop
    expired,        \* history: timer expirations since the recording began
    ticks, sessions \* bounds

vm == <<status, chain, frames>>
patch == <<hooks, profile, profileThread, pending>>
bridge == <<cpuActive, memoryActive, workDepth>>
recorder == <<recording, stats>>
bounds == <<ticks, sessions>>
vars == <<vm, patch, todo, timer, armed, bridge, recorder, expired, bounds>>

------------------------------------------------------------------------------
(* Frames, and the calls in todo. *)

Host == [vm |-> "host", cfunction |-> NoFunction]
Executions == [vm: VmStates, cfunction: Functions \cup {NoFunction}]

\* luaP_StateGuard: what to publish again when the frame is left; guarded is
\* its "active".
Frame == [vm: {"lua", "c", "gc"}, cfunction: Functions \cup {NoFunction},
          guarded: BOOLEAN, saved: Executions,
          attached: BOOLEAN,    \* still on the C stack (no longjmp since)
          work: BOOLEAN]        \* has the work guard in a to-be-closed slot

Ops == {"enter", "leave", "reenter", "publish", "sync", "host",
        "begin", "end", "guard", "open", "shut", "drain", "quality",
        "activate", "arm", "release", "disarm", "deactivate", "delete",
        "finish", "memory", "hooks", "free", "allocate"}
Call == [op: Ops, state: States, vm: VmStates,
         cfunction: Functions \cup {NoFunction}]

Do(op, L) ==
    [op |-> op, state |-> L, vm |-> "host", cfunction |-> NoFunction]
DoAs(op, L, kind, f) == [op |-> op, state |-> L, vm |-> kind, cfunction |-> f]

Running == IF chain = <<>> THEN Main ELSE Last(chain)
Top(L) == Last(frames[L])
RunsLua(L) == chain # <<>> /\ L = Running /\ frames[L] # <<>> /\ Top(L).vm = "lua"
Room(L) == Len(frames[L]) < MaxFrames[L]

\* statefromci on the frames left when a GC step, which is no frame, is skipped.
StateFromCi(stack) ==
    LET calls == {i \in DOMAIN stack : stack[i].vm # "gc"}
        ci == CHOOSE i \in calls : \A j \in calls : j <= i
    IN  IF calls = {} THEN Host
        ELSE [vm |-> stack[ci].vm, cfunction |-> stack[ci].cfunction]

\* The frames of a part of a stack that hold a work guard.
Guards(stack) == {i \in DOMAIN stack : stack[i].work}

Detach(stack) == [i \in DOMAIN stack |-> [stack[i] EXCEPT !.attached = FALSE]]

\* The __close of each guard that unwinding a part of a stack meets: a C call of
\* its own, on the lua_State being unwound.
CloseGuard(L) == <<DoAs("enter", L, "c", GuardClose), Do("end", L), Do("leave", L)>>
CloseGuards(L, stack) ==
    [i \in 1 .. 3 * Cardinality(Guards(stack)) |-> CloseGuard(L)[((i - 1) % 3) + 1]]

Init ==
    /\ status = [L \in States |-> IF L = Main THEN "running" ELSE "free"]
    /\ chain = <<>>
    /\ frames = [L \in States |-> <<>>]
    /\ hooks = [cpu |-> FALSE, memory |-> FALSE]
    /\ profile = [L \in States |-> Host]
    /\ profileThread = NoState
    /\ pending = 0
    /\ todo = <<>>
    /\ timer = NewTimer /\ armed = FALSE
    /\ cpuActive = FALSE /\ memoryActive = FALSE /\ workDepth = 0
    /\ recording = FALSE
    /\ stats = [samples |-> 0, lost |-> 0, overrunTicks |-> 0]
    /\ expired = 0 /\ ticks = 0 /\ sessions = 0

------------------------------------------------------------------------------
(* publishstate and the patch's guards around a piece of work.  "rest" is   *)
(* what todo keeps after the call being performed.                          *)

\* state_change: a coroutine that goes back to its host gives up the slot, and
\* the events that name it are consumed while it is still there.
mutant_no_handover(L, kind, f) == <<Do("open", L), DoAs("shut", L, kind, f)>>
mutant_no_drain(L, kind, f) ==
    IF kind = "host" /\ L # Main
    THEN <<Do("begin", Main), Do("open", Main), Do("shut", Main), Do("end", Main)>>
    ELSE <<Do("open", L), DoAs("shut", L, kind, f)>>
mutant_null_slot(L, kind, f) ==
    IF kind = "host" /\ L # Main
    THEN <<Do("begin", Main), Do("open", Main), Do("shut", NoState),
           Do("drain", Main), Do("quality", Main), Do("end", Main)>>
    ELSE <<Do("open", L), DoAs("shut", L, kind, f)>>
StateChange(L, kind, f) ==
    IF kind = "host" /\ L # Main
    THEN <<Do("begin", Main), Do("open", Main), Do("shut", Main),
           Do("drain", Main), Do("quality", Main), Do("end", Main)>>
    ELSE <<Do("open", L), DoAs("shut", L, kind, f)>>

Publish(L, kind, f, rest) ==
    LET now == [vm |-> kind, cfunction |-> f]
    IN  IF profileThread = L /\ profile[L] = now
        THEN todo' = rest /\ UNCHANGED <<profile, profileThread>>
        ELSE /\ profile' = [profile EXCEPT ![L] = now]
             /\ profileThread' = L
             /\ todo' = (IF hooks.cpu THEN StateChange(L, kind, f) ELSE <<>>)
                            \o rest

\* luaP_enterstate on a frame pushed, or put back on the C stack, by the call.
EnterState(L, stack, kind, f, rest) ==
    IF hooks.cpu
    THEN /\ frames' = [frames EXCEPT ![L] = Append(stack,
                [vm |-> kind, cfunction |-> f, guarded |-> TRUE,
                 saved |-> profile[L], attached |-> TRUE, work |-> FALSE])]
         /\ Publish(L, kind, f, rest)
    ELSE /\ frames' = [frames EXCEPT ![L] = Append(stack,
                [vm |-> kind, cfunction |-> f, guarded |-> FALSE,
                 saved |-> Host, attached |-> TRUE, work |-> FALSE])]
         /\ todo' = rest /\ UNCHANGED <<profile, profileThread>>

\* A frame is pushed and its state entered (precallC, luaV_execute, a GC step).
PerformEnter(call, rest) ==
    /\ call.op = "enter"
    /\ EnterState(call.state, frames[call.state], call.vm, call.cfunction, rest)
    /\ UNCHANGED <<status, chain, hooks, pending, timer, armed, bridge, recorder,
                   expired>>

\* unroll: after a longjmp the innermost frame runs again, on a new C frame.
mutant_silent_reenter(call, rest) ==
    /\ call.op = "reenter"
    /\ LET stack == frames[call.state]
       IN  frames' = [frames EXCEPT ![call.state] =
                Append(Front(stack), [Last(stack) EXCEPT !.attached = TRUE])]
    /\ todo' = rest
    /\ UNCHANGED <<status, chain, patch, timer, armed, bridge, recorder, expired>>
PerformReenter(call, rest) ==
    /\ call.op = "reenter"
    /\ LET L == call.state
       IN  EnterState(L, Front(frames[L]), Top(L).vm, Top(L).cfunction, rest)
    /\ UNCHANGED <<status, chain, hooks, pending, timer, armed, bridge, recorder,
                   expired>>

\* luaP_leavestate_ and luaP_leaveframe_: what the guard saved, or, when the
\* hooks were not set yet at the entry, what the frames below say.
PerformLeave(call, rest) ==
    /\ call.op = "leave"
    /\ LET L == call.state
           below == Front(frames[L])
           back == IF Top(L).guarded THEN Top(L).saved ELSE StateFromCi(below)
       IN  /\ frames' = [frames EXCEPT ![L] = below]
           /\ IF Top(L).guarded \/ hooks.cpu
              THEN Publish(L, back.vm, back.cfunction, rest)
              ELSE todo' = rest /\ UNCHANGED <<profile, profileThread>>
    /\ UNCHANGED <<status, chain, hooks, pending, timer, armed, bridge, recorder,
                   expired>>

\* luaP_enterstate of a C function that leaves its frame by longjmp.
PerformPublish(call, rest) ==
    /\ call.op = "publish"
    /\ IF hooks.cpu THEN Publish(call.state, call.vm, call.cfunction, rest)
       ELSE todo' = rest /\ UNCHANGED <<profile, profileThread>>
    /\ UNCHANGED <<vm, hooks, pending, timer, armed, bridge, recorder, expired>>

\* luaP_syncstate
mutant_no_sync(call, rest) ==
    /\ call.op = "sync" /\ todo' = rest
    /\ UNCHANGED <<vm, patch, timer, armed, bridge, recorder, expired>>
PerformSync(call, rest) ==
    /\ call.op = "sync"
    /\ LET now == StateFromCi(frames[call.state])
       IN  IF hooks.cpu THEN Publish(call.state, now.vm, now.cfunction, rest)
           ELSE todo' = rest /\ UNCHANGED <<profile, profileThread>>
    /\ UNCHANGED <<vm, hooks, pending, timer, armed, bridge, recorder, expired>>

\* luaP_sethoststate
PerformHost(call, rest) ==
    /\ call.op = "host"
    /\ IF hooks.cpu THEN Publish(call.state, "host", NoFunction, rest)
       ELSE todo' = rest /\ UNCHANGED <<profile, profileThread>>
    /\ UNCHANGED <<vm, hooks, pending, timer, armed, bridge, recorder, expired>>

\* lua_setprofilehooks, called by apply_hooks on the current lua_State.
mutant_forget_pending(call, rest) ==
    /\ call.op = "hooks"
    /\ hooks' = [cpu |-> cpuActive, memory |-> memoryActive]
    /\ profileThread' = NoState
    /\ pending' = 0
    /\ todo' = <<Do("sync", call.state)>> \o rest
    /\ UNCHANGED <<vm, profile, timer, armed, bridge, recorder, expired>>
PerformHooks(call, rest) ==
    /\ call.op = "hooks"
    /\ hooks' = [cpu |-> cpuActive, memory |-> memoryActive]
    /\ profileThread' = NoState
    /\ pending' = IF ~hooks.cpu \/ ~cpuActive THEN 0 ELSE pending
    /\ todo' = <<Do("sync", call.state)>> \o rest
    /\ UNCHANGED <<vm, profile, timer, armed, bridge, recorder, expired>>

\* luaE_freethread, in the middle of a collection.
PerformFree(call, rest) ==
    /\ call.op = "free"
    /\ status' = [status EXCEPT ![call.state] = "free"]
    /\ frames' = [frames EXCEPT ![call.state] = <<>>]
    /\ todo' = rest
    /\ UNCHANGED <<chain, patch, timer, armed, bridge, recorder, expired>>

------------------------------------------------------------------------------
(* The bridge. *)

\* lp_lua_bridge_begin_profiler_work, and push_profiler_work_guard around it.
PerformBegin(call, rest) ==
    /\ call.op \in {"begin", "guard"}
    /\ workDepth' = workDepth + 1
    /\ timer' = IF workDepth = 0 /\ cpuActive THEN BeginDrain(timer) ELSE timer
    /\ frames' = IF call.op = "begin" THEN frames
                 ELSE [frames EXCEPT ![call.state][Len(frames[call.state])].work
                            = TRUE]
    /\ todo' = rest
    /\ UNCHANGED <<status, chain, patch, armed, cpuActive, memoryActive, recorder,
                   expired>>

\* lp_lua_bridge_end_profiler_work
PerformEnd(call, rest) ==
    /\ call.op = "end"
    /\ workDepth' = IF workDepth = 0 THEN 0 ELSE workDepth - 1
    /\ timer' = IF workDepth = 1 /\ cpuActive THEN EndDrain(timer) ELSE timer
    /\ todo' = rest
    /\ UNCHANGED <<vm, patch, armed, cpuActive, memoryActive, recorder, expired>>

\* luaP_allocation_ and the bridge's allocation: inside the profiler's own work
\* the event only updates the live map; else the callback is such work itself.
PerformAllocate(call, rest) ==
    /\ call.op = "allocate"
    /\ todo' = (IF hooks.memory /\ workDepth = 0
                THEN <<Do("begin", Main), Do("end", Main)>> ELSE <<>>) \o rest
    /\ UNCHANGED <<vm, patch, timer, armed, bridge, recorder, expired>>

\* lp_thread_timer_publish_state, in two steps.
PerformPublishSlot(call, rest) ==
    /\ \/ /\ call.op = "open"
          /\ timer' = OpenSlot(timer)
       \/ /\ call.op = "shut"
          /\ timer' = CloseSlot(timer, [state |-> call.state, vm |-> call.vm,
                                        cfunction |-> call.cfunction])
    /\ todo' = rest
    /\ UNCHANGED <<vm, patch, armed, bridge, recorder, expired>>

\* One turn of the loop in drain_thread_timer: the event is recorded in the
\* profile, if the recording is still there; the loop ends on an empty ring.
PerformDrain(call, rest) ==
    /\ call.op = "drain"
    /\ IF timer.events = <<>>
       THEN todo' = rest /\ UNCHANGED <<timer, stats>>
       ELSE /\ timer' = TakeEvent(timer)
            /\ stats' = IF recording THEN [stats EXCEPT !.samples = @ + 1]
                        ELSE stats
            /\ UNCHANGED todo
    /\ UNCHANGED <<vm, patch, armed, bridge, recording, expired>>

\* record_thread_quality
PerformQuality(call, rest) ==
    /\ call.op = "quality"
    /\ timer' = TakeQuality(timer)
    /\ stats' = IF recording
                THEN [stats EXCEPT
                        !.lost = @ + timer.dropped + timer.unstable
                                    + timer.overhead,
                        !.overrunTicks = @ + timer.overrunTicks]
                ELSE stats
    /\ todo' = rest
    /\ UNCHANGED <<vm, patch, armed, bridge, recording, expired>>

\* lp_runtime_start and start_collector up to apply_hooks.
PerformActivate(call, rest) ==
    /\ call.op = "activate"
    /\ recording' = TRUE
    /\ stats' = [samples |-> 0, lost |-> 0, overrunTicks |-> 0]
    /\ expired' = 0
    /\ timer' = NewTimer
    /\ cpuActive' = TRUE
    /\ todo' = rest
    /\ UNCHANGED <<vm, patch, armed, memoryActive, workDepth>>

\* lp_thread_timer_arm: it succeeds, or start_collector takes everything back
\* and lp_runtime_start clears the collector.
PerformArm(call, rest) ==
    /\ call.op = "arm"
    /\ \/ /\ armed' = TRUE
          /\ timer' = [timer EXCEPT !.active = TRUE]
          /\ todo' = <<Do("release", call.state)>> \o rest
          /\ UNCHANGED <<cpuActive>>
       \/ /\ cpuActive' = FALSE
          /\ todo' = <<Do("hooks", call.state), Do("delete", call.state),
                       Do("finish", call.state)>> \o rest
          /\ UNCHANGED <<armed, timer>>
    /\ UNCHANGED <<vm, patch, memoryActive, workDepth, recorder, expired>>

\* The end of start_collector: draining started with the timer, and goes on
\* while the caller holds a guard.
mutant_end_drain(call, rest) ==
    /\ call.op = "release"
    /\ timer' = EndDrain(timer)
    /\ todo' = rest
    /\ UNCHANGED <<vm, patch, armed, bridge, recorder, expired>>
PerformRelease(call, rest) ==
    /\ call.op = "release"
    /\ timer' = IF workDepth = 0 THEN EndDrain(timer) ELSE timer
    /\ todo' = rest
    /\ UNCHANGED <<vm, patch, armed, bridge, recorder, expired>>

\* lp_thread_timer_disarm: the timer stops; a tick that was queued behind the
\* blocked signal is taken off the queue and counted as dropped.
PerformDisarm(call, rest) ==
    /\ call.op = "disarm"
    /\ armed' = FALSE
    /\ LET stopped == [timer EXCEPT !.active = FALSE]
       IN  \/ timer' = stopped /\ UNCHANGED <<expired, ticks>>
           \/ \E overrun \in 0 .. MaxOverrun :
                /\ ticks + 1 + overrun <= MaxTicks
                /\ timer' = Discard(stopped, overrun)
                /\ expired' = expired + 1 + overrun
                /\ ticks' = ticks + 1 + overrun
    /\ todo' = rest
    /\ UNCHANGED <<vm, patch, bridge, recorder>>

\* stop_collector, between the last drain and apply_hooks.
PerformDeactivate(call, rest) ==
    /\ call.op = "deactivate"
    /\ cpuActive' = FALSE
    /\ todo' = rest
    /\ UNCHANGED <<vm, patch, timer, armed, memoryActive, workDepth, recorder,
                   expired>>

\* lp_thread_timer_delete; the timer is already disarmed.
PerformDelete(call, rest) ==
    /\ call.op = "delete"
    /\ timer' = NewTimer
    /\ todo' = rest
    /\ UNCHANGED <<vm, patch, armed, bridge, recorder, expired>>

\* lp_runtime_stop freezes the profile and frees the collector.
PerformFinish(call, rest) ==
    /\ call.op = "finish"
    /\ recording' = FALSE
    /\ todo' = rest
    /\ UNCHANGED <<vm, patch, timer, armed, bridge, stats, expired>>

\* start_collector and stop_collector for the memory recorder.
PerformMemory(call, rest) ==
    /\ call.op = "memory"
    /\ memoryActive' = ~memoryActive
    /\ todo' = rest
    /\ UNCHANGED <<vm, patch, timer, armed, cpuActive, workDepth, recorder, expired>>

Perform ==
    /\ todo # <<>>
    /\ LET call == Head(todo)
           rest == Tail(todo)
       IN  \/ PerformEnter(call, rest) \/ PerformReenter(call, rest)
           \/ PerformLeave(call, rest) \/ PerformPublish(call, rest)
           \/ PerformSync(call, rest) \/ PerformHost(call, rest)
           \/ PerformHooks(call, rest) \/ PerformFree(call, rest)
           \/ PerformBegin(call, rest) \/ PerformEnd(call, rest)
           \/ PerformPublishSlot(call, rest) \/ PerformDrain(call, rest)
           \/ PerformQuality(call, rest) \/ PerformActivate(call, rest)
           \/ PerformArm(call, rest) \/ PerformRelease(call, rest)
           \/ PerformDeactivate(call, rest) \/ PerformDelete(call, rest)
           \/ PerformFinish(call, rest) \/ PerformMemory(call, rest)
           \/ PerformAllocate(call, rest)
    /\ UNCHANGED bounds

Disarm ==
    /\ todo # <<>>
    /\ PerformDisarm(Head(todo), Tail(todo))
    /\ UNCHANGED sessions

------------------------------------------------------------------------------
(* What the application makes the VM do. *)

Idle == todo = <<>>
AfterVm == UNCHANGED <<patch, timer, armed, bridge, recorder, expired, bounds>>

\* The host calls a Lua function on the main thread (lua_pcall).
HostCall ==
    /\ Idle /\ chain = <<>> /\ Room(Main)
    /\ chain' = <<Main>>
    /\ todo' = <<DoAs("enter", Main, "lua", NoFunction)>>
    /\ UNCHANGED <<status, frames>> /\ AfterVm

\* A C function calls a Lua function back.
CallLua ==
    /\ Idle /\ chain # <<>> /\ Room(Running) /\ frames[Running] # <<>>
    /\ Top(Running).cfunction \in Work \cup {PCall}
    /\ todo' = <<DoAs("enter", Running, "lua", NoFunction)>>
    /\ UNCHANGED vm /\ AfterVm

\* A Lua function, or pcall, calls a C function: the application's own, pcall, or
\* one of luaprof's, which takes the work guard before anything else.
CallC(f) ==
    /\ Idle /\ chain # <<>> /\ Room(Running) /\ frames[Running] # <<>>
    /\ RunsLua(Running) \/ (Top(Running).cfunction = PCall /\ f # PCall)
    /\ f = Api => workDepth <= MaxWork
    /\ todo' = <<DoAs("enter", Running, "c", f)>>
                 \o (IF f = Api THEN <<Do("guard", Running)>> ELSE <<>>)
    /\ UNCHANGED vm /\ AfterVm

\* The innermost function returns.  What happens then depends on what lies
\* below it: nothing on the main thread (lua_pcall ends), nothing on a
\* coroutine (lua_resume ends), or a frame that a longjmp took off the C stack.
Return ==
    LET L == Running
        rest == Front(frames[L])
        from == Front(chain)
    IN  /\ Idle /\ chain # <<>> /\ frames[L] # <<>> /\ Top(L).cfunction # Api
        /\ IF rest # <<>>
           THEN /\ todo' = <<Do("leave", L)>>
                            \o (IF Last(rest).attached THEN <<>>
                                ELSE <<Do("reenter", L)>>)
                /\ UNCHANGED <<status, chain>>
           ELSE IF L = Main
           THEN /\ todo' = <<Do("leave", L), Do("sync", L)>>
                /\ chain' = from
                /\ UNCHANGED status
           ELSE /\ todo' = <<Do("leave", L), Do("host", L)>>
                            \o (IF from = <<>> THEN <<>>
                                ELSE <<Do("sync", Last(from))>>)
                /\ chain' = from
                /\ status' = [status EXCEPT ![L] = "dead"]
        /\ UNCHANGED frames /\ AfterVm

\* lua_newthread
Create(co) ==
    /\ Idle /\ status[co] = "free" /\ (chain = <<>> \/ RunsLua(Running))
    /\ status' = [status EXCEPT ![co] = "suspended"]
    /\ frames' = [frames EXCEPT ![co] = <<>>]
    /\ profile' = [profile EXCEPT ![co] = Host]
    /\ todo' = <<Do("allocate", Running)>>
    /\ UNCHANGED <<chain, hooks, profileThread, pending, timer, armed, bridge,
                   recorder, expired, bounds>>

\* lua_resume, from Lua or from the host: a new coroutine enters its function,
\* a suspended one the frame it left by yielding.
ResumeCoroutine(co) ==
    /\ Idle /\ status[co] = "suspended"
    /\ chain = <<>> \/ (RunsLua(Running) /\ Room(Running))
    /\ status' = [status EXCEPT ![co] = "running"]
    /\ chain' = Append(chain, co)
    /\ todo' = (IF chain = <<>> THEN <<>>
                ELSE <<DoAs("enter", Running, "c", Resume)>>)
                 \o (IF frames[co] = <<>>
                     THEN <<DoAs("enter", co, "lua", NoFunction)>>
                     ELSE <<Do("reenter", co)>>)
    /\ UNCHANGED frames /\ AfterVm

\* lua_yield: the coroutine's frames leave the C stack, its last state is HOST,
\* and the lua_State that resumed it is published again.
YieldCoroutine ==
    LET L == Running
        from == Front(chain)
    IN  /\ Idle /\ RunsLua(L) /\ L # Main
        /\ \A i \in DOMAIN frames[L] :
                frames[L][i].vm = "lua" \/ frames[L][i].cfunction = PCall
        /\ status' = [status EXCEPT ![L] = "suspended"]
        /\ chain' = from
        /\ frames' = [frames EXCEPT ![L] = Detach(@)]
        /\ todo' = <<DoAs("publish", L, "c", Yield), Do("host", L)>>
                     \o (IF from = <<>> THEN <<>> ELSE <<Do("sync", Last(from))>>)
        /\ AfterVm

\* luaD_throw.  The innermost pcall of the lua_State catches the error; the
\* host's own call does on the main thread; a coroutine without one dies with
\* its stack as it is, and lua_resume returns.
Throw ==
    LET L == Running
        stack == frames[L]
        catchers == {0} \cup {i \in DOMAIN stack : stack[i].cfunction = PCall}
        catcher == CHOOSE i \in catchers : \A j \in catchers : j <= i
        kept == SubSeq(stack, 1, catcher)
        unwound == SubSeq(stack, catcher + 1, Len(stack))
        from == Front(chain)
    IN  /\ Idle /\ chain # <<>> /\ stack # <<>>
        /\ Top(L).cfunction \in Work \cup {Api}
        /\ IF L = Main
           THEN /\ frames' = [frames EXCEPT ![L] = kept]
                /\ chain' = IF catcher = 0 THEN from ELSE chain
                /\ todo' = <<Do("host", L)>> \o CloseGuards(L, unwound)
                                \o <<Do("sync", L)>>
                /\ UNCHANGED status
           ELSE IF catcher # 0
           THEN /\ frames' = [frames EXCEPT ![L] = Detach(kept)]
                /\ todo' = <<Do("host", L)>> \o CloseGuards(L, unwound)
                                \o <<Do("reenter", L)>>
                /\ UNCHANGED <<status, chain>>
           ELSE /\ status' = [status EXCEPT ![L] = "dead"]
                /\ chain' = from
                /\ todo' = <<Do("host", L), Do("host", L)>>
                             \o (IF from = <<>> THEN <<>>
                                 ELSE <<Do("sync", Last(from))>>)
                /\ UNCHANGED frames
        /\ AfterVm

\* lua_closethread, as coroutine.close calls it and as coroutine.wrap does for a
\* coroutine that failed: the guards still open on the stack are closed.
CloseCoroutine(co) ==
    LET L == Running
    IN  /\ Idle /\ status[co] \in {"suspended", "dead"}
        /\ RunsLua(L) /\ Room(L)
        /\ status' = [status EXCEPT ![co] = "dead"]
        /\ frames' = [frames EXCEPT ![co] = <<>>]
        /\ todo' = <<DoAs("enter", L, "c", CloseThread)>>
                     \o CloseGuards(co, frames[co])
                     \o <<Do("host", co), Do("sync", L), Do("leave", L)>>
        /\ UNCHANGED chain /\ AfterVm

\* A collection frees a coroutine that nothing resumes any more.
Collect(co) ==
    /\ Idle /\ status[co] \in {"suspended", "dead"}
    /\ todo' = <<DoAs("enter", Running, "gc", NoFunction), Do("free", co),
                 Do("allocate", Running), Do("leave", Running)>>
    /\ UNCHANGED vm /\ AfterVm

\* The allocator is called outside a collection.
Allocate ==
    /\ Idle /\ hooks.memory
    /\ todo' = <<Do("allocate", Running)>>
    /\ UNCHANGED vm /\ AfterVm

\* luaP_safepoint_ and the bridge's safe_point, before a Lua instruction.
SafePoint ==
    /\ Idle /\ RunsLua(Running) /\ hooks.cpu /\ pending > 0
    /\ pending' = 0
    /\ todo' = <<Do("begin", Main), Do("drain", Main), Do("quality", Main),
                 Do("end", Main)>>
    /\ UNCHANGED <<vm, hooks, profile, profileThread, timer, armed, bridge,
                   recorder, expired, bounds>>

------------------------------------------------------------------------------
(* The bodies of luaprof's functions.  The function returns, then its         *)
(* to-be-closed guard is closed by a C call of its own.                       *)

InApi ==
    /\ Idle /\ chain # <<>> /\ frames[Running] # <<>>
    /\ Top(Running).cfunction = Api /\ Top(Running).work
ApiReturn(L) == <<Do("leave", L)>> \o CloseGuard(L)

\* stop_collector and the rest of lp_runtime_stop.
mutant_no_last_drain(L) ==
    <<Do("disarm", L), Do("deactivate", L), Do("hooks", L), Do("delete", L),
      Do("finish", L)>>
StopCpu(L) ==
    <<Do("disarm", L), Do("drain", L), Do("quality", L), Do("deactivate", L),
      Do("hooks", L), Do("delete", L), Do("finish", L)>>

\* cpu_start; while a recording runs it only reports LP_ERR_BUSY.
CpuStart ==
    /\ InApi /\ ~recording /\ sessions < MaxSessions
    /\ sessions' = sessions + 1
    /\ todo' = <<Do("activate", Running), Do("hooks", Running),
                 Do("arm", Running)>> \o ApiReturn(Running)
    /\ UNCHANGED <<vm, patch, timer, armed, bridge, recorder, expired, ticks>>

\* recorder_stop of the running CPU recording.
CpuStop ==
    /\ InApi /\ recording
    /\ todo' = StopCpu(Running) \o ApiReturn(Running)
    /\ UNCHANGED vm /\ AfterVm

\* memory_start, and recorder_stop of a memory recording.
MemoryToggle ==
    /\ InApi
    /\ todo' = <<Do("memory", Running), Do("hooks", Running)>>
                 \o ApiReturn(Running)
    /\ UNCHANGED vm /\ AfterVm

\* Every other function of the module, and a call that is refused: it allocates
\* and returns.
ApiOther ==
    /\ InApi
    /\ todo' = <<Do("allocate", Running)>> \o ApiReturn(Running)
    /\ UNCHANGED vm /\ AfterVm

\* recorder_gc: a collection finalizes the recorder of the running recording.
FinalizeRecorder ==
    LET L == Running
    IN  /\ Idle /\ recording
        /\ todo' = <<DoAs("enter", L, "gc", NoFunction),
                     DoAs("enter", L, "c", Api), Do("guard", L)>>
                     \o StopCpu(L) \o ApiReturn(L) \o <<Do("leave", L)>>
        /\ UNCHANGED vm /\ AfterVm

------------------------------------------------------------------------------
\* The kernel's tick: timer_signal_handler runs on the VM's thread, between two
\* of its steps, and asks for a safe point when it could use the slot.
Tick(overrun) ==
    /\ armed /\ ticks + 1 + overrun <= MaxTicks
    /\ timer' = Handle(timer, overrun)
    /\ pending' = IF Attributable(timer) THEN pending + 1 ELSE pending
    /\ expired' = expired + 1 + overrun
    /\ ticks' = ticks + 1 + overrun
    /\ UNCHANGED <<vm, hooks, profile, profileThread, todo, armed, bridge,
                   recorder, sessions>>

Application ==
    \/ HostCall \/ CallLua \/ (\E f \in Work \cup {PCall, Api} : CallC(f))
    \/ Return \/ YieldCoroutine \/ Throw \/ Allocate \/ SafePoint
    \/ (\E co \in States \ {Main} :
            Create(co) \/ ResumeCoroutine(co) \/ CloseCoroutine(co) \/ Collect(co))
    \/ CpuStart \/ CpuStop \/ MemoryToggle \/ ApiOther \/ FinalizeRecorder

Next ==
    \/ Application \/ Perform \/ Disarm
    \/ \E overrun \in 0 .. MaxOverrun : Tick(overrun)

Spec == Init /\ [][Next]_vars

------------------------------------------------------------------------------
(* Properties. *)

\* Every variable keeps the type its declaration states.
TypeOK ==
    /\ status \in [States -> {"free", "suspended", "running", "dead"}]
    /\ chain \in Seq(States)
    /\ frames \in [States -> Seq(Frame)]
    /\ hooks \in [cpu: BOOLEAN, memory: BOOLEAN]
    /\ profile \in [States -> Executions]
    /\ profileThread \in States \cup {NoState}
    /\ pending \in Nat /\ todo \in Seq(Call)
    /\ timer \in Timer /\ armed \in BOOLEAN
    /\ cpuActive \in BOOLEAN /\ memoryActive \in BOOLEAN /\ workDepth \in Nat
    /\ recording \in BOOLEAN
    /\ stats \in [samples: Nat, lost: Nat, overrunTicks: Nat]
    /\ expired \in Nat /\ ticks \in Nat /\ sessions \in Nat

Live(L) == status[L] # "free"

\* The frames of some lua_States that hold a work guard.
OpenGuards(threads) == UNION {{L} \X Guards(frames[L]) : L \in threads}

\* While the timer runs, the lua_State in the slot, which the signal handler
\* dereferences, and those of the queued events, whose stacks the next drain
\* walks, are all still allocated: no coroutine has to be kept alive for the
\* profiler.
NoDeadCoroutine ==
    armed =>
        /\ timer.slot.state # NoState => Live(timer.slot.state)
        /\ \A i \in DOMAIN timer.events : Live(timer.events[i].state)

\* Once a coroutine has gone back to its host nothing queued names it: events
\* belong to lua_States that are being resumed, or to the main thread.
QueueNamesRunning ==
    Idle => \A i \in DOMAIN timer.events :
                timer.events[i].state \in {Main} \cup ToSet(chain)

\* Between two primitives the slot shows what the VM is running, whatever
\* calls, errors, resumptions and collections led there: a tick is attributed
\* to the code it interrupted.
SlotShowsRunning ==
    (Idle /\ armed /\ chain # <<>>) =>
        /\ ~timer.publishing
        /\ timer.slot.state = Running
        /\ [vm |-> timer.slot.vm, cfunction |-> timer.slot.cfunction] =
                StateFromCi(frames[Running])

\* Ticks in the profiler's own functions are not the application's: the timer
\* drains exactly while some work is open, and open work is never closed early.
WorkIsOverhead ==
    (Idle /\ cpuActive) =>
        /\ timer.draining <=> workDepth > 0
        /\ workDepth >= Cardinality(OpenGuards(States))

\* A queued event has asked for a safe point, so the next Lua instruction takes
\* it with the stack it interrupted; and no request is left over for a VM that
\* is not being recorded.
QueuedIsRequested ==
    /\ (Idle /\ timer.events # <<>>) => pending > 0
    /\ ~hooks.cpu => pending = 0

\* Every expiration that reaches the VM's thread is in the profile once, as a
\* sample, as a lost delivery or as an overrun, or still in the timer's own fields:
\* in particular the frozen result of a stopped recording has those that disarm
\* discarded.  What timer_settime may clear before disarm sees it, an overrun that
\* came while the timer was being stopped, is the subject of ThreadTimer.
ExpirationsCounted ==
    expired = stats.samples + stats.lost + stats.overrunTicks + Expirations(timer)

\* docs/profiling-model.md:162 says of the work guard that it is left by itself
\* when a Lua error or OOM unwinds the C call stack: outside the profiler's
\* functions, the depth is zero.
GuardLeftOnError ==
    Idle => workDepth = Cardinality(OpenGuards({Main} \cup ToSet(chain)))

\* tests/integration/cpu_sampling_test.c:435-456 runs a coroutine from the host,
\* collects, and expects the next tick to name the main thread in the HOST
\* state: outside Lua the slot shows the host.
HostTickIsHost ==
    (Idle /\ armed /\ chain = <<>>) =>
        timer.slot = [state |-> Main, vm |-> "host", cfunction |-> NoFunction]
==============================================================================
