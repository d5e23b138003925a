----------------------------- MODULE ThreadTimer -----------------------------
(***************************************************************************)
(* The process side of src/thread_timer.c: threads that each run a VM arm  *)
(* and disarm CPU-time timers, share the signal number, its disposition    *)
(* and the table of active timers, and receive ticks on their own queue of *)
(* blocked or pending signals.  Timer structs are allocated and freed, so  *)
(* an address comes back as another VM's timer, while a tick carries the   *)
(* address it was created with.                                            *)
(*                                                                         *)
(* arm and disarm run on the thread of the VM (docs/integration.md:203):   *)
(* "owner" is that thread.  The functions take signal_lock for a few       *)
(* statements and wait for nothing inside, so each critical section is one *)
(* step.  The kernel is external: a timer has at most one signal queued,   *)
(* further expirations add to its overrun, and disarming the timer may     *)
(* clear the overrun of the signal that is still queued.                   *)
(***************************************************************************)
EXTENDS TickTimer, FiniteSetsExt

CONSTANTS
    Threads,        \* threads of the process
    Timers,         \* addresses of lp_thread_timer structs
    NoTimer,        \* a NULL timer pointer
    Slots,          \* indices of active_timers (LP_ACTIVE_TIMER_CAPACITY)
    NoSlot,         \* signal_slot = -1
    MaxTicks,       \* bound: timer expirations of a behaviour
    MaxArms         \* bound: arms that get past the signal table

ASSUME TimersAssumption ==
    /\ NoTimer \notin Timers \cup Threads
    /\ NoSlot \notin Slots
ASSUME SlotsAssumption == IsFiniteSet(Slots) /\ Slots # {}

VARIABLES
    owner,          \* the thread whose VM allocated a timer; NoTimer when free
    timer,          \* the struct's fields that TickTimer keeps
    slotOf,         \* signal_slot; NoSlot while not acquired (signal_acquired)
    kernel,         \* the POSIX timer: none, created (disarmed) or running
    serial,         \* history: which arm a timer belongs to
    activeTimers,   \* the table the handler searches
    signalUsers,    \* signal_users
    disposition,    \* of the signal: default, luaprof or foreign
    activeThread,   \* active_thread_timer of each thread
    blocked,        \* the signal is in a thread's mask
    previous,       \* the mask that arm and disarm put back
    queue,          \* signals queued for a thread
    pc,             \* where a thread is in arm or disarm
    target,         \* the timer it works on
    killed,         \* the default action ended the process
    expired, taken, \* history, per timer: expirations, and counters read
    late,           \* history: expirations since disarm looked at the queue
    ticks, arms     \* bounds

structs == <<owner, timer, slotOf, kernel>>
table == <<activeTimers, signalUsers, disposition>>
thread == <<activeThread, blocked, previous, pc, target>>
history == <<serial, expired, taken, late>>
vars == <<structs, table, thread, queue, killed, history, ticks, arms>>

\* A queued signal: whose timer, its overrun, and (history) of which arm.
Signal == [timer: Timers, overrun: Nat, serial: Nat]

Init ==
    /\ owner = [a \in Timers |-> NoTimer]
    /\ timer = [a \in Timers |-> NewTimer]
    /\ slotOf = [a \in Timers |-> NoSlot]
    /\ kernel = [a \in Timers |-> "none"]
    /\ serial = [a \in Timers |-> 0]
    /\ activeTimers = [i \in Slots |-> NoTimer]
    /\ signalUsers = 0
    /\ disposition \in {"default", "foreign"}
    /\ activeThread = [t \in Threads |-> NoTimer]
    /\ blocked \in [Threads -> BOOLEAN]
    /\ previous = blocked
    /\ queue = [t \in Threads |-> {}]
    /\ pc = [t \in Threads |-> "idle"]
    /\ target = [t \in Threads |-> NoTimer]
    /\ killed = FALSE
    /\ expired = [a \in Timers |-> 0] /\ taken = [a \in Timers |-> 0]
    /\ late = [a \in Timers |-> 0]
    /\ ticks = 0 /\ arms = 0

Acquired(a) == slotOf[a] # NoSlot
Goto(t, label) == pc' = [pc EXCEPT ![t] = label]

------------------------------------------------------------------------------
(* lp_thread_timer_new and lp_thread_timer_delete (which disarms first). *)

New(t, a) ==
    /\ pc[t] = "idle" /\ owner[a] = NoTimer
    /\ owner' = [owner EXCEPT ![a] = t]
    /\ timer' = [timer EXCEPT ![a] = NewTimer]
    /\ expired' = [expired EXCEPT ![a] = 0]
    /\ taken' = [taken EXCEPT ![a] = 0]
    /\ late' = [late EXCEPT ![a] = 0]
    /\ UNCHANGED <<slotOf, kernel, serial, table, thread, queue, killed, ticks,
                   arms>>

Delete(t, a) ==
    /\ pc[t] = "idle" /\ owner[a] = t /\ ~Acquired(a)
    /\ owner' = [owner EXCEPT ![a] = NoTimer]
    /\ UNCHANGED <<timer, slotOf, kernel, table, thread, queue, killed, history,
                   ticks, arms>>

------------------------------------------------------------------------------
(* lp_thread_timer_arm. *)

FreeSlots == {i \in Slots : activeTimers[i] = NoTimer}

\* acquire_timer_signal: the first user installs the handler, unless someone
\* else's is there; without a free slot the table stays as it was.
CanAcquire ==
    /\ signalUsers = 0 => disposition = "default"
    /\ FreeSlots # {}

Acquire(t, a) ==
    /\ pc[t] = "idle" /\ owner[a] = t /\ ~Acquired(a) /\ arms < MaxArms
    /\ activeThread[t] = NoTimer
    /\ CanAcquire
    /\ \E i \in FreeSlots :
        /\ activeTimers' = [activeTimers EXCEPT ![i] = a]
        /\ slotOf' = [slotOf EXCEPT ![a] = i]
    /\ signalUsers' = signalUsers + 1
    /\ disposition' = "luaprof"
    /\ target' = [target EXCEPT ![t] = a]
    /\ Goto(t, "block")
    /\ arms' = arms + 1
    /\ serial' = [serial EXCEPT ![a] = arms + 1]
    /\ UNCHANGED <<owner, timer, kernel, activeThread, blocked, previous, queue,
                   killed, expired, taken, late, ticks>>

\* release_timer_signal
mutant_keep_entry(a) ==
    /\ slotOf' = [slotOf EXCEPT ![a] = NoSlot]
    /\ signalUsers' = signalUsers - 1
    /\ disposition' = IF signalUsers = 1 THEN "default" ELSE disposition
    /\ UNCHANGED activeTimers
Release(a) ==
    /\ activeTimers' = [activeTimers EXCEPT ![slotOf[a]] = NoTimer]
    /\ slotOf' = [slotOf EXCEPT ![a] = NoSlot]
    /\ signalUsers' = signalUsers - 1
    /\ disposition' = IF signalUsers = 1 THEN "default" ELSE disposition

\* The signal is blocked; a thread that had blocked it itself cannot be sampled.
mutant_release_twice(t) ==
    /\ pc[t] = "block"
    /\ previous' = [previous EXCEPT ![t] = blocked[t]]
    /\ blocked' = [blocked EXCEPT ![t] = TRUE]
    /\ IF blocked[t]
       THEN Release(target[t]) /\ Goto(t, "undo")
       ELSE Goto(t, "create") /\ UNCHANGED <<slotOf, table>>
    /\ UNCHANGED <<owner, timer, kernel, activeThread, target, queue, killed,
                   history, ticks, arms>>
ArmBlock(t) ==
    /\ pc[t] = "block"
    /\ previous' = [previous EXCEPT ![t] = blocked[t]]
    /\ blocked' = [blocked EXCEPT ![t] = TRUE]
    /\ IF blocked[t]
       THEN Release(target[t]) /\ Goto(t, "idle")
       ELSE Goto(t, "create") /\ UNCHANGED <<slotOf, table>>
    /\ UNCHANGED <<owner, timer, kernel, activeThread, target, queue, killed,
                   history, ticks, arms>>

\* timer_create
ArmCreate(t) ==
    /\ pc[t] = "create"
    /\ \/ /\ kernel' = [kernel EXCEPT ![target[t]] = "created"]
          /\ Goto(t, "start")
       \/ /\ Goto(t, "undo")
          /\ UNCHANGED kernel
    /\ UNCHANGED <<owner, timer, slotOf, table, activeThread, blocked, previous,
                   target, queue, killed, history, ticks, arms>>

\* active is set, then timer_settime; its failure takes both back.
mutant_keep_kernel_timer(t) ==
    /\ pc[t] = "start"
    /\ \/ /\ kernel' = [kernel EXCEPT ![target[t]] = "running"]
          /\ timer' = [timer EXCEPT ![target[t]].active = TRUE]
          /\ activeThread' = [activeThread EXCEPT ![t] = target[t]]
          /\ Goto(t, "unblock")
       \/ Goto(t, "undo") /\ UNCHANGED <<kernel, timer, activeThread>>
    /\ UNCHANGED <<owner, slotOf, table, blocked, previous, target, queue,
                   killed, history, ticks, arms>>
ArmStart(t) ==
    LET a == target[t]
    IN  /\ pc[t] = "start"
        /\ \/ /\ kernel' = [kernel EXCEPT ![a] = "running"]
              /\ timer' = [timer EXCEPT ![a].active = TRUE]
              /\ activeThread' = [activeThread EXCEPT ![t] = a]
              /\ Goto(t, "unblock")
           \/ /\ kernel' = [kernel EXCEPT ![a] = "none"]
              /\ Goto(t, "undo")
              /\ UNCHANGED <<timer, activeThread>>
        /\ UNCHANGED <<owner, slotOf, table, blocked, previous, target, queue,
                       killed, history, ticks, arms>>

ArmUndo(t) ==
    /\ pc[t] = "undo"
    /\ Release(target[t])
    /\ Goto(t, "unblock")
    /\ UNCHANGED <<owner, timer, kernel, activeThread, blocked, previous, target,
                   queue, killed, history, ticks, arms>>

\* The last statement of arm and of disarm.
Unblock(t) ==
    /\ pc[t] = "unblock"
    /\ blocked' = [blocked EXCEPT ![t] = previous[t]]
    /\ target' = [target EXCEPT ![t] = NoTimer]
    /\ Goto(t, "idle")
    /\ UNCHANGED <<structs, table, activeThread, previous, queue, killed, history,
                   ticks, arms>>

------------------------------------------------------------------------------
(* lp_thread_timer_disarm. *)

Disarm(t, a) ==
    /\ pc[t] = "idle" /\ owner[a] = t /\ Acquired(a)
    /\ previous' = [previous EXCEPT ![t] = blocked[t]]
    /\ blocked' = [blocked EXCEPT ![t] = TRUE]
    /\ timer' = [timer EXCEPT ![a].active = FALSE]
    /\ target' = [target EXCEPT ![t] = a]
    /\ Goto(t, "fetch")
    /\ UNCHANGED <<owner, slotOf, kernel, table, activeThread, queue, killed,
                   history, ticks, arms>>

\* sigtimedwait takes one signal off the thread's queue; one of this timer's is
\* counted as dropped.
TakeSignal(t, signal) ==
    /\ queue' = [queue EXCEPT ![t] = @ \ {signal}]
    /\ timer' = IF signal.timer = target[t]
                THEN [timer EXCEPT ![target[t]] = Discard(@, signal.overrun)]
                ELSE timer

\* Before the timer is stopped: its queued signal still has its overrun.
mutant_stop_first(t) ==
    /\ pc[t] = "fetch"
    /\ Goto(t, "stop")
    /\ UNCHANGED <<owner, timer, slotOf, kernel, table, activeThread, blocked,
                   previous, target, queue, killed, history, ticks, arms>>
FetchQueued(t) ==
    /\ pc[t] = "fetch"
    /\ \/ \E signal \in queue[t] : TakeSignal(t, signal)
       \/ queue[t] = {} /\ UNCHANGED <<queue, timer>>
    /\ Goto(t, "stop")
    /\ UNCHANGED <<owner, slotOf, kernel, table, activeThread, blocked, previous,
                   target, killed, history, ticks, arms>>

\* timer_settime to zero, or timer_delete when that fails.  A signal queued since
\* the fetch stays, and may lose its overrun.
mutant_still_running(t) ==
    /\ pc[t] = "stop"
    /\ Goto(t, "collect")
    /\ UNCHANGED <<structs, table, activeThread, blocked, previous, target, queue,
                   killed, history, ticks, arms>>
StopTimer(t) ==
    LET a == target[t]
        own == {signal \in queue[t] : signal.timer = a}
    IN  /\ pc[t] = "stop"
        /\ kernel' \in {[kernel EXCEPT ![a] = "created"],
                        [kernel EXCEPT ![a] = "none"]}
        /\ \/ UNCHANGED queue
           \/ \E signal \in own :
                queue' = [queue EXCEPT ![t] =
                            (@ \ {signal}) \cup {[signal EXCEPT !.overrun = 0]}]
        /\ Goto(t, "collect")
        /\ UNCHANGED <<owner, timer, slotOf, table, activeThread, blocked, previous,
                       target, killed, history, ticks, arms>>

\* The loop over what is still queued.
mutant_no_loop(t) ==
    /\ pc[t] = "collect"
    /\ Goto(t, "release")
    /\ UNCHANGED <<structs, table, activeThread, blocked, previous, target, queue,
                   killed, history, ticks, arms>>
CollectQueued(t) ==
    /\ pc[t] = "collect"
    /\ \/ (\E signal \in queue[t] : TakeSignal(t, signal)) /\ UNCHANGED pc
       \/ queue[t] = {} /\ Goto(t, "release") /\ UNCHANGED <<queue, timer>>
    /\ UNCHANGED <<owner, slotOf, kernel, table, activeThread, blocked, previous,
                   target, killed, history, ticks, arms>>

\* timer_delete, active_thread_timer and release_timer_signal.
DisarmRelease(t) ==
    /\ pc[t] = "release"
    /\ kernel' = [kernel EXCEPT ![target[t]] = "none"]
    /\ activeThread' = [activeThread EXCEPT ![t] =
                            IF @ = target[t] THEN NoTimer ELSE @]
    /\ Release(target[t])
    /\ Goto(t, "unblock")
    /\ UNCHANGED <<owner, timer, blocked, previous, target, queue, killed, history,
                   ticks, arms>>

------------------------------------------------------------------------------
(* The VM, also before its timer is armed and after it is disarmed:             *)
(* lp_thread_timer_publish_state, the drain of the ring and of the counters,    *)
(* and the flag around them.                                                    *)

Use(t, a, change) ==
    /\ pc[t] = "idle" /\ owner[a] = t
    /\ timer' = [timer EXCEPT ![a] = change]
    /\ UNCHANGED <<owner, slotOf, kernel, table, thread, queue, killed, serial,
                   expired, late, ticks, arms>>

\* A publication in one step: VmProfile lets the handler in between.
Publish(t, a) ==
    /\ \E slot \in [state: States, vm: {"c"}, cfunction: Functions] :
            slot # timer[a].slot /\ Use(t, a, CloseSlot(timer[a], slot))
    /\ UNCHANGED taken

SetDraining(t, a) ==
    /\ Use(t, a, IF timer[a].draining THEN EndDrain(timer[a])
                 ELSE BeginDrain(timer[a]))
    /\ UNCHANGED taken

\* The bridge takes an event, or all the counters, while it drains, and once more
\* after the timer is disarmed.
Drain(t, a) ==
    /\ timer[a].draining \/ ~Acquired(a)
    /\ \/ /\ timer[a].events # <<>>
          /\ Use(t, a, TakeEvent(timer[a]))
          /\ taken' = [taken EXCEPT ![a] = @ + 1]
       \/ /\ timer[a].events = <<>>
          /\ Expirations(timer[a]) > 0
          /\ Use(t, a, TakeQuality(timer[a]))
          /\ taken' = [taken EXCEPT ![a] = @ + Expirations(timer[a])]

------------------------------------------------------------------------------
(* The host and the kernel. *)

\* The host blocks or unblocks the signal on a thread of its own accord.
SetMask(t) ==
    /\ pc[t] = "idle"
    /\ blocked' = [blocked EXCEPT ![t] = ~@]
    /\ UNCHANGED <<structs, table, activeThread, previous, pc, target, queue,
                   killed, history, ticks, arms>>

\* The host gives the signal a handler, or takes it away, while luaprof has none.
SetForeign ==
    /\ signalUsers = 0
    /\ disposition' = IF disposition = "foreign" THEN "default" ELSE "foreign"
    /\ UNCHANGED <<structs, activeTimers, signalUsers, thread, queue, killed,
                   history, ticks, arms>>

\* The thread has used another interval of CPU time.
Expire(a) ==
    LET t == owner[a]
        queued == {signal \in queue[t] : signal.timer = a /\ signal.serial = serial[a]}
    IN  /\ kernel[a] = "running" /\ ticks < MaxTicks
        /\ ticks' = ticks + 1
        /\ expired' = [expired EXCEPT ![a] = @ + 1]
        /\ late' = IF pc[t] = "stop" THEN [late EXCEPT ![a] = @ + 1] ELSE late
        /\ queue' = [queue EXCEPT ![t] =
                IF queued = {}
                THEN @ \cup {[timer |-> a, overrun |-> 0, serial |-> serial[a]]}
                ELSE (@ \ queued) \cup
                        {[signal EXCEPT !.overrun = @ + 1] : signal \in queued}]
        /\ UNCHANGED <<structs, table, thread, killed, serial, taken, arms>>

\* A signal is delivered to a thread that does not block it: to
\* timer_signal_handler, which looks the timer up first, to someone else's
\* handler, or to the default action, which ends the process.
Deliver(t) ==
    /\ ~blocked[t]
    /\ \E signal \in queue[t] :
        /\ queue' = [queue EXCEPT ![t] = @ \ {signal}]
        /\ timer' = IF /\ disposition = "luaprof"
                       /\ \E i \in Slots : activeTimers[i] = signal.timer
                    THEN [timer EXCEPT ![signal.timer] = Handle(@, signal.overrun)]
                    ELSE timer
    /\ killed' = (disposition = "default")
    /\ UNCHANGED <<owner, slotOf, kernel, table, thread, history, ticks, arms>>

Next ==
    /\ ~killed
    /\ \/ \E t \in Threads, a \in Timers :
            \/ New(t, a) \/ Delete(t, a) \/ Acquire(t, a) \/ Disarm(t, a)
            \/ Publish(t, a) \/ SetDraining(t, a) \/ Drain(t, a)
       \/ \E t \in Threads :
            \/ ArmBlock(t) \/ ArmCreate(t) \/ ArmStart(t) \/ ArmUndo(t)
            \/ Unblock(t) \/ FetchQueued(t) \/ StopTimer(t) \/ CollectQueued(t)
            \/ DisarmRelease(t) \/ SetMask(t) \/ Deliver(t)
       \/ SetForeign
       \/ \E a \in Timers : Expire(a)

Spec == Init /\ [][Next]_vars

------------------------------------------------------------------------------
(* Properties. *)

\* Every variable keeps the type its declaration states.
TypeOK ==
    /\ owner \in [Timers -> Threads \cup {NoTimer}]
    /\ timer \in [Timers -> Timer]
    /\ slotOf \in [Timers -> Slots \cup {NoSlot}]
    /\ kernel \in [Timers -> {"none", "created", "running"}]
    /\ serial \in [Timers -> Nat]
    /\ activeTimers \in [Slots -> Timers \cup {NoTimer}]
    /\ signalUsers \in Nat
    /\ disposition \in {"default", "luaprof", "foreign"}
    /\ activeThread \in [Threads -> Timers \cup {NoTimer}]
    /\ blocked \in [Threads -> BOOLEAN] /\ previous \in [Threads -> BOOLEAN]
    /\ queue \in [Threads -> SUBSET Signal]
    /\ pc \in [Threads -> {"idle", "block", "create", "start", "undo", "unblock",
                           "fetch", "stop", "collect", "release"}]
    /\ target \in [Threads -> Timers \cup {NoTimer}]
    /\ killed \in BOOLEAN
    /\ expired \in [Timers -> Nat] /\ taken \in [Timers -> Nat]
    /\ late \in [Timers -> Nat]
    /\ ticks \in Nat /\ arms \in Nat

\* No tick is delivered once the signal's default action is back: disarming one
\* timer, or failing to arm it, never ends the process.
ProcessSurvives == ~killed

\* The handler is installed exactly while the table has timers, each user has
\* one slot, and the handler never finds a timer that has been freed.
TableExact ==
    /\ signalUsers = Cardinality(Slots \ FreeSlots)
    /\ disposition = "luaprof" <=> signalUsers > 0
    /\ \A i \in Slots : activeTimers[i] # NoTimer =>
            /\ owner[activeTimers[i]] # NoTimer
            /\ slotOf[activeTimers[i]] = i

\* A queued tick is of the arm its timer is in now, on the timer's own thread:
\* it can never be credited to a later recording, or to another VM whose timer
\* has the same address.
TicksAreOwn ==
    \A t \in Threads : \A signal \in queue[t] :
        /\ owner[signal.timer] = t /\ Acquired(signal.timer)
        /\ signal.serial = serial[signal.timer]

\* Every expiration is accounted for once: queued, in the timer's fields, or taken
\* by the bridge.  Only those that came after disarm's own look at the queue may be
\* missing.
ExpirationsKept ==
    \A a \in Timers : owner[a] # NoTimer =>
        LET kept == taken[a] + Expirations(timer[a])
                      + FoldSet(LAMBDA signal, sum : sum + 1 + signal.overrun, 0,
                                {signal \in queue[owner[a]] : signal.timer = a})
        IN  kept <= expired[a] /\ expired[a] <= kept + late[a]

\* Between operations nothing of a failed or finished one is left: a thread has
\* at most the one timer it is being sampled by, whose kernel timer runs.
NothingLeftBehind ==
    \A t \in Threads : pc[t] = "idle" =>
        \A a \in Timers : owner[a] = t =>
            /\ Acquired(a) <=> activeThread[t] = a
            /\ Acquired(a) <=> timer[a].active
            /\ kernel[a] = IF Acquired(a) THEN "running" ELSE "none"
==============================================================================
