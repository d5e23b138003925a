--------------------------- MODULE WorkerRegistry ---------------------------
(***************************************************************************)
(* The worker threads of the Skynet host (src/src/skynet_host.c): how a    *)
(* thread registers itself for profiling, shares one real-time signal with *)
(* the other workers, and leaves while their timers still run.             *)
(*                                                                         *)
(* Every worker owns a CPU-time timer whose signal is sent to its own      *)
(* thread.  The first worker installs the handler, the last one gives the  *)
(* signal back; a signal that arrives under the default disposition ends   *)
(* the process.  The handler runs on top of its thread's code, finds its   *)
(* worker in the table, and pins the session the worker published.         *)
(*                                                                         *)
(* The sessions themselves are those of TargetLifecycle, which this module *)
(* extends: a worker is one of its holders.  The other holders stand for   *)
(* the pins taken by the operations of SkynetHost.                         *)
(***************************************************************************)
EXTENDS TargetLifecycle

CONSTANTS
    Workers,    \* the threads that call lp_skynet_host_worker_start
    Capacity    \* LP_SKYNET_WORKER_CAPACITY, the entries of workers[]

ASSUME WorkersAssumption == Workers \subseteq Holders
ASSUME CapacityAssumption == Capacity \in Nat \ {0}

VARIABLES
    phase,         \* phase[w]: how far thread w is in worker_start, _stop, _enter
    inherited,     \* the threads created with host_signal blocked
    registered,    \* the workers found in the table workers[]
    signal_users,  \* registrations that share the signal
    disposition,   \* what host_signal does: "default", "foreign", "handler"
    host_failed,   \* profiling was given up for this process
    timer,         \* timer[w]: the kernel's timer: "none", "disarmed", "armed"
    pending,       \* the workers whose expiration is queued for their thread
    slot,          \* slot[w]: the target worker w publishes, or NoTarget
    handler,       \* handler[w]: the handler on thread w: "idle", "entered", "pinned"
    stray,         \* an expiration met a disposition other than the handler
    erased         \* history: the tokens of the sessions that are over

targetVars == vars
signalVars == <<registered, signal_users, disposition>>
workerVars == <<phase, inherited, signalVars, host_failed, timer, pending,
                slot, handler, stray>>
allVars == <<targetVars, workerVars, erased>>

Phases == {"out", "allocated", "acquired", "checked", "running", "finding",
           "publishing", "blocked", "deleted", "drained"}

\* worker->active, set at the end of worker_start and cleared by worker_stop.
Active(w) == phase[w] \in {"running", "finding", "publishing"}

\* The phases in which the code blocks the signal itself.
Masked(w) ==
    w \in inherited \/ phase[w] \in {"finding", "publishing", "blocked",
                                     "deleted", "drained"}

WorkerTypeOK ==
    /\ TypeOK
    /\ phase \in [Workers -> Phases]
    /\ inherited \subseteq Workers
    /\ registered \subseteq Workers
    /\ signal_users \in Nat
    /\ disposition \in {"default", "foreign", "handler"}
    /\ host_failed \in BOOLEAN
    /\ timer \in [Workers -> {"none", "disarmed", "armed"}]
    /\ pending \subseteq Workers
    /\ slot \in [Workers -> Targets \cup {NoTarget}]
    /\ handler \in [Workers -> {"idle", "entered", "pinned"}]
    /\ stray \in BOOLEAN
    /\ erased \subseteq Nat

WorkerInit ==
    /\ Init
    /\ phase = [w \in Workers |-> "out"]
    /\ inherited \in SUBSET Workers
    /\ registered = {}
    /\ signal_users = 0
    /\ disposition \in {"default", "foreign"}
    /\ host_failed = FALSE
    /\ timer = [w \in Workers |-> "none"]
    /\ pending = {}
    /\ slot = [w \in Workers |-> NoTarget]
    /\ handler = [w \in Workers |-> "idle"]
    /\ stray = FALSE
    /\ erased = {}

\* A thread's own code stands still while the handler runs on top of it.
At(w, p) == phase[w] = p /\ handler[w] = "idle"
Goto(w, p) == phase' = [phase EXCEPT ![w] = p]

-----------------------------------------------------------------------------
(* The signal, under host_lock.                                            *)

\* The handler is only put over the default disposition, so that is also what
\* saved_signal_action holds.
CanAcquire ==
    /\ signal_users = 0 => disposition = "default"
    /\ Cardinality(registered) < Capacity

\* Mutant: the signal is taken whatever its disposition, and never counted.
mutant_uncounted_user(w) ==
    /\ CanAcquire
    /\ registered' = registered \cup {w}
    /\ signal_users' = 1
    /\ disposition' = "handler"

acquire_signal(w) ==
    /\ CanAcquire
    /\ registered' = registered \cup {w}
    /\ signal_users' = signal_users + 1
    /\ disposition' = "handler"

\* Mutant: whoever leaves gives the signal back.
mutant_restore_always(w) ==
    /\ registered' = registered \ {w}
    /\ signal_users' = signal_users - 1
    /\ disposition' = "default"

release_signal(w) ==
    /\ registered' = registered \ {w}
    /\ signal_users' = signal_users - 1
    /\ disposition' = IF signal_users = 1 THEN "default" ELSE disposition

-----------------------------------------------------------------------------
(* lp_skynet_host_worker_start.                                            *)

\* Any failure gives profiling up for the process, workers included that have
\* not started yet.
GiveUp(w) == Goto(w, "out") /\ host_failed' = TRUE

Allocate(w) ==
    /\ At(w, "out") /\ ~host_failed
    /\ Goto(w, "allocated")
    /\ UNCHANGED <<targetVars, inherited, signalVars, host_failed, timer,
                   pending, slot, handler, stray>>

AllocateFails(w) ==
    /\ At(w, "out") /\ ~host_failed
    /\ GiveUp(w)
    /\ UNCHANGED <<targetVars, inherited, signalVars, timer, pending, slot,
                   handler, stray>>

Acquire(w) ==
    /\ At(w, "allocated")
    /\ acquire_signal(w)
    /\ Goto(w, "acquired")
    /\ UNCHANGED <<targetVars, inherited, host_failed, timer, pending, slot,
                   handler, stray>>

\* sigaction can fail too; the disposition is then what it was.
AcquireFails(w) ==
    /\ At(w, "allocated")
    /\ GiveUp(w)
    /\ UNCHANGED <<targetVars, inherited, signalVars, timer, pending, slot,
                   handler, stray>>

\* A thread that never takes the signal has no use for a timer.
CheckMask(w) ==
    /\ At(w, "acquired") /\ ~Masked(w)
    /\ Goto(w, "checked")
    /\ UNCHANGED <<targetVars, inherited, signalVars, host_failed, timer,
                   pending, slot, handler, stray>>

\* Mutant: a start that fails keeps its entry and its share of the signal.
mutant_no_rollback(w) ==
    /\ At(w, "acquired") \/ At(w, "checked")
    /\ GiveUp(w)
    /\ UNCHANGED <<targetVars, inherited, signalVars, timer, pending, slot,
                   handler, stray>>

\* The signal is blocked, pthread_sigmask or timer_create failed.
StartFails(w) ==
    /\ At(w, "acquired") \/ At(w, "checked")
    /\ release_signal(w)
    /\ GiveUp(w)
    /\ UNCHANGED <<targetVars, inherited, timer, pending, slot, handler, stray>>

Sampling == \E t \in Targets : life[t].state = "ACTIVE"

\* sync_worker_timer: the timer runs while some session does.
SyncTimer(w) ==
    /\ timer' = [timer EXCEPT ![w] = IF Sampling THEN "armed" ELSE "disarmed"]
    /\ UNCHANGED host_failed

\* timer_settime, where there is something to set, may fail and leave it as it is.
SyncFails(w) ==
    /\ Sampling \/ timer[w] = "armed"
    /\ timer' = [timer EXCEPT ![w] = IF @ = "none" THEN "disarmed" ELSE @]
    /\ host_failed' = TRUE

Sync(w) == SyncTimer(w) \/ SyncFails(w)

\* timer_create succeeds, the worker becomes active and arms its timer.
CreateTimer(w) ==
    /\ At(w, "checked")
    /\ Goto(w, "running")
    /\ Sync(w)
    /\ UNCHANGED <<targetVars, inherited, signalVars, pending, slot, handler, stray>>

-----------------------------------------------------------------------------
(* lp_skynet_host_dispatch_enter and _leave, as far as the worker goes.    *)

\* Both withdraw what is published, take the signals of the old dispatch off
\* the queue (with its session pinned meanwhile) and bring the timer up to date,
\* with the signal blocked.
Withdraw(w, p) ==
    /\ At(w, "running")
    /\ slot' = [slot EXCEPT ![w] = NoTarget]
    /\ pending' = pending \ {w}
    /\ Sync(w)
    /\ Goto(w, p)
    /\ UNCHANGED <<targetVars, inherited, signalVars, handler, stray>>

dispatch_enter(w) == Withdraw(w, "finding")
dispatch_leave(w) == Withdraw(w, "running")

\* pin_active_handle: the service that is dispatched has a session.
PinHandle(w, t) ==
    /\ At(w, "finding")
    /\ Pin(w, t, {"ACTIVE"})
    /\ Goto(w, "publishing")
    /\ UNCHANGED <<inherited, signalVars, host_failed, timer, pending, slot,
                   handler, stray>>

\* ... or it has none.
FindNothing(w) ==
    /\ At(w, "finding")
    /\ Goto(w, "running")
    /\ UNCHANGED <<targetVars, inherited, signalVars, host_failed, timer,
                   pending, slot, handler, stray>>

Publish(w) ==
    /\ At(w, "publishing")
    /\ slot' = [slot EXCEPT ![w] = pin[w]]
    /\ Unpin(w)
    /\ Goto(w, "running")
    /\ UNCHANGED <<inherited, signalVars, host_failed, timer, pending, handler,
                   stray>>

-----------------------------------------------------------------------------
(* The timer and timer_signal_handler.                                     *)

Expire(w) ==
    /\ timer[w] = "armed"
    /\ pending' = pending \cup {w}
    /\ UNCHANGED <<targetVars, phase, inherited, signalVars, host_failed, timer,
                   slot, handler, stray>>

\* The kernel delivers an expiration as soon as the thread lets it through.
Deliver(w) ==
    /\ w \in pending /\ ~Masked(w) /\ handler[w] = "idle"
    /\ pending' = pending \ {w}
    /\ IF disposition = "handler"
       THEN handler' = [handler EXCEPT ![w] = "entered"] /\ UNCHANGED stray
       ELSE stray' = TRUE /\ UNCHANGED handler
    /\ UNCHANGED <<targetVars, phase, inherited, signalVars, host_failed, timer, slot>>

\* registered_worker, worker->active, and a slot that publishes a session.
Sampled(w) == w \in registered /\ Active(w) /\ slot[w] # NoTarget

\* target_pin_session compares the token once the slot is pinned: a session the
\* slot was reused for is pinned too, and let go without a sample.
HandlerPins(w) ==
    /\ handler[w] = "entered" /\ Sampled(w)
    /\ Pin(w, slot[w], Pinnable)
    /\ handler' = [handler EXCEPT ![w] = "pinned"]
    /\ UNCHANGED <<phase, inherited, signalVars, host_failed, timer, pending,
                   slot, stray>>

HandlerSkips(w) ==
    /\ handler[w] = "entered"
    /\ Sampled(w) => life[slot[w]].state \notin Pinnable
    /\ handler' = [handler EXCEPT ![w] = "idle"]
    /\ UNCHANGED <<targetVars, phase, inherited, signalVars, host_failed, timer,
                   pending, slot, stray>>

\* The sample is queued or counted, and the pin given back.
HandlerReturns(w) ==
    /\ handler[w] = "pinned"
    /\ Unpin(w)
    /\ handler' = [handler EXCEPT ![w] = "idle"]
    /\ UNCHANGED <<phase, inherited, signalVars, host_failed, timer, pending,
                   slot, stray>>

-----------------------------------------------------------------------------
(* lp_skynet_host_worker_stop.                                             *)

\* The signal is blocked, nothing is published any more, the worker inactive.
Block(w) ==
    /\ At(w, "running")
    /\ slot' = [slot EXCEPT ![w] = NoTarget]
    /\ Goto(w, "blocked")
    /\ UNCHANGED <<targetVars, inherited, signalVars, host_failed, timer,
                   pending, handler, stray>>

\* timer_settime and timer_delete; what has expired stays queued.
DeleteTimer(w) ==
    /\ At(w, "blocked")
    /\ timer' = [timer EXCEPT ![w] = "none"]
    /\ Goto(w, "deleted")
    /\ UNCHANGED <<targetVars, inherited, signalVars, host_failed, pending,
                   slot, handler, stray>>

\* Mutant: the queue is not emptied.
mutant_no_drain(w) ==
    /\ At(w, "deleted")
    /\ Goto(w, "drained")
    /\ UNCHANGED <<targetVars, inherited, signalVars, host_failed, timer,
                   pending, slot, handler, stray>>

\* sigtimedwait until nothing is queued.
Drain(w) ==
    /\ At(w, "deleted")
    /\ pending' = pending \ {w}
    /\ Goto(w, "drained")
    /\ UNCHANGED <<targetVars, inherited, signalVars, host_failed, timer, slot,
                   handler, stray>>

\* The last one restores the signal; then the mask comes back, the worker goes.
Leave(w) ==
    /\ At(w, "drained")
    /\ release_signal(w)
    /\ Goto(w, "out")
    /\ UNCHANGED <<targetVars, inherited, host_failed, timer, pending, slot,
                   handler, stray>>

-----------------------------------------------------------------------------

\* What the operations of SkynetHost do to the sessions meanwhile.
Sessions ==
    /\ \/ \E x \in Holders \ Workers, t \in Targets : Pin(x, t, Pinnable)
       \/ \E x \in Holders \ Workers : Unpin(x)
       \/ \E t \in Targets : Activate(t) \/ Quiesce(t) \/ Reclaim(t) \/ Free(t)
    /\ UNCHANGED workerVars

Start(w) ==
    \/ Allocate(w) \/ AllocateFails(w)
    \/ Acquire(w) \/ AcquireFails(w)
    \/ CheckMask(w) \/ CreateTimer(w) \/ StartFails(w)

Dispatch(w) ==
    \/ dispatch_enter(w) \/ dispatch_leave(w)
    \/ (\E t \in Targets : PinHandle(w, t)) \/ FindNothing(w) \/ Publish(w)

Signal(w) ==
    \/ Expire(w) \/ Deliver(w)
    \/ HandlerPins(w) \/ HandlerSkips(w) \/ HandlerReturns(w)

Stop(w) == Block(w) \/ DeleteTimer(w) \/ Drain(w) \/ Leave(w)

Step ==
    \/ Sessions
    \/ \E w \in Workers : Start(w) \/ Dispatch(w) \/ Signal(w) \/ Stop(w)

\* The tokens in the table before a step and not after it are over.  Nothing
\* reads this history; only the properties do.
Remember ==
    erased' = erased \cup {token[t] : t \in {s \in Targets :
                 token[s] # 0 /\ \A r \in Targets : token'[r] # token[s]}}

WorkerNext == Step /\ Remember

WorkerSpec == WorkerInit /\ [][WorkerNext]_allVars

-----------------------------------------------------------------------------
(* Properties.                                                             *)

\* "SIGRTMAX - 3" is shared: no expiration of any worker ever meets a
\* disposition other than the handler, however starts that fail and workers
\* that leave are interleaved with timers that run.
NoStraySignal == ~stray

\* The share count is exact: the handler is in place while anyone is registered
\* and the signal has its old disposition again when nobody is.
SignalShared ==
    /\ signal_users = Cardinality(registered)
    /\ disposition = "handler" <=> registered # {}

\* A thread outside worker_start and worker_stop leaves nothing in the process:
\* no table entry, timer, queued expiration, handler or pinned session that
\* refers to the worker it freed (or never had).
OutIsClean ==
    \A w \in Workers : phase[w] = "out" =>
        /\ w \notin registered \cup pending
        /\ timer[w] = "none"
        /\ handler[w] = "idle"
        /\ slot[w] = NoTarget /\ pin[w] = NoTarget

\* A token names one session for good, whatever slots are reused: no two live
\* sessions have the same, and none has the token of a session that is over.  So
\* a worker that still publishes an old session, and the handler that compares
\* its token with the slot's, never take a later session for it.
TokensNeverReused ==
    /\ TokensDistinct
    /\ \A t \in Targets : token[t] \notin erased
=============================================================================
