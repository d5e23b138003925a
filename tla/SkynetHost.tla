------------------------------ MODULE SkynetHost ------------------------------
(***************************************************************************)
(* The process-wide scheduler backend (src/src/skynet_host.c) with the     *)
(* scheduler half of the Lua bridge that calls it (src/src/lua_bridge.c).  *)
(*                                                                         *)
(* Skynet worker threads dispatch the messages of services.  A service     *)
(* that records CPU samples owns a slot of targets[]; while a worker       *)
(* dispatches it, the worker's execution slot names that target and the    *)
(* session (token) it was published for.  Each worker's CPU timer raises a *)
(* signal on that worker, whose handler appends an event to the ring of    *)
(* the published target.                                                   *)
(*                                                                         *)
(* A worker is a thread: pc and op say where its code is, loc holds its    *)
(* locals.  Its signal handler (irq) interrupts it between any two steps   *)
(* unless the signal is masked, and the thread resumes when it returns.    *)
(* Steps of different workers interleave.  A worker's own slot is read by  *)
(* that worker and its handler only.                                       *)
(***************************************************************************)
EXTENDS Naturals, FiniteSets, Sequences

CONSTANTS
    Workers,          \* the worker threads, all registered
    NoWorker,         \* host_lock when it is free
    Handles,          \* the services that may be profiled
    NoHandle,         \* current_handle outside a dispatch
    NumTargets,       \* LP_SKYNET_TARGET_CAPACITY
    NoTarget,         \* the NULL target
    RingCapacity,     \* LP_SKYNET_RING_CAPACITY
    Hz,               \* the sampling frequencies recorders ask for
    MaxToken,         \* bound on the sessions of one behaviour
    SystemCallsFail,  \* may timer_settime and calloc fail?
    ForeignStop       \* may a session be stopped while another worker is
                      \* dispatching its service?

Targets == 1..NumTargets
Levels == {"op", "irq"}
Holders == Workers \X Levels

ASSUME WorkersAssumption == IsFiniteSet(Workers) /\ NoWorker \notin Workers
ASSUME HandlesAssumption == NoHandle \notin Handles
ASSUME TargetsAssumption == NumTargets \in Nat \ {0} /\ NoTarget \notin Targets
ASSUME RingAssumption == RingCapacity \in Nat \ {0}
ASSUME HzAssumption == Hz \subseteq Nat \ {0}
ASSUME TokenAssumption == MaxToken \in Nat
ASSUME FlagsAssumption == SystemCallsFail \in BOOLEAN /\ ForeignStop \in BOOLEAN

VARIABLES
    \* targets[]: the lifecycle words, as TargetLifecycle describes them ...
    life, token, pin, next_token,
    \* ... and the fields they protect.  main_state is the VM of handle[t].
    handle, sample_hz, allocated, ring, draining, quality,
    \* what host_lock guards, and the sticky failure flag
    host_lock, active_targets, active_sample_hz, host_failed,
    \* the workers
    current_handle, slot, odd, armed_hz, pending, masked,
    op, pc, loc, irq,
    \* the scheduler_token of each service's bridge
    scheduler_token

life_vars == <<life, token, pin, next_token>>
target_vars == <<handle, sample_hz, allocated, ring, draining, quality>>
host_vars == <<host_lock, active_targets, active_sample_hz, host_failed>>
worker_vars == <<current_handle, slot, odd, armed_hz, pending, masked>>
control_vars == <<op, pc, loc>>
vars == <<life_vars, target_vars, host_vars, worker_vars, control_vars, irq,
          scheduler_token>>

NoSlot == [target |-> NoTarget, token |-> 0, vm |-> NoHandle]
SlotType == [target : Targets \cup {NoTarget}, token : Nat, vm : Handles \cup {NoHandle}]

\* Locals of a worker's current call: the token it was called with (arg) or,
\* in a start, was given; the frequency asked for; the scan index i; the target
\* a start, quiesce or release works on; the slot whose ticks it discards; the
\* count that sync_worker_timer loaded; its result; and whether the call is
\* made by stop_collector.
NoLoc == [arg |-> 0, hz |-> 0, i |-> 1, target |-> NoTarget, prev |-> NoSlot,
          count |-> 0, ok |-> TRUE, stop |-> FALSE]
LocType == [arg : Nat, hz : Nat, i : Nat, target : Targets \cup {NoTarget},
            prev : SlotType, count : Nat, ok : BOOLEAN, stop : BOOLEAN]

\* The handler's locals: the slot it read and whether its version was odd, then
\* what it found once it had the pin: the target's state and draining_events.
NoIrq == [pc |-> "none", slot |-> NoSlot, odd |-> FALSE, state |-> "FREE",
          draining |-> FALSE]
IrqType == [pc : {"none", "pin", "use"}, slot : SlotType, odd : BOOLEAN,
            state : {"FREE", "ACTIVE", "STOPPING", "RECLAIMING"}, draining : BOOLEAN]

\* The counters of lp_skynet_quality, as the set of those that are not zero.
Kinds == {"dropped", "unstable", "profiler_overhead", "stale", "timer_failures"}

Ops == {"none", "enter", "leave", "start", "publish", "begin", "quiesce",
        "next", "take", "end", "release"}
Pcs == {"idle", "find", "find_pin", "find_use", "publish_even", "publish_unpin",
        "start_lock", "start_hz", "start_count", "start_publish",
        "rollback_lock", "rollback_count", "rollback_hz", "rollback_wait",
        "quiesce_lock", "quiesce_count", "quiesce_hz", "quiesce_end",
        "quiesce_wait", "release_lock", "release_wait",
        "discard_pin", "discard_use", "sync_count", "sync_hz",
        "fail_scan", "fail_use", "leave_end"}

TypeOK ==
    /\ life \in [Targets -> [state : {"FREE", "ACTIVE", "STOPPING", "RECLAIMING"},
                             readers : Nat]]
    /\ token \in [Targets -> Nat] /\ next_token \in Nat
    /\ pin \in [Holders -> Targets \cup {NoTarget}]
    /\ handle \in [Targets -> Handles \cup {NoHandle}]
    /\ sample_hz \in [Targets -> Nat]
    /\ allocated \in SUBSET Targets
    /\ ring \in [Targets -> Seq(Handles \cup {NoHandle})]
    /\ draining \in [Targets -> BOOLEAN]
    /\ quality \in [Targets -> SUBSET Kinds]
    /\ host_lock \in Workers \cup {NoWorker}
    /\ active_targets \in Nat /\ active_sample_hz \in Nat
    /\ host_failed \in BOOLEAN
    /\ current_handle \in [Workers -> Handles \cup {NoHandle}]
    /\ slot \in [Workers -> SlotType]
    /\ odd \in [Workers -> BOOLEAN]
    /\ armed_hz \in [Workers -> Nat]
    /\ pending \in [Workers -> BOOLEAN] /\ masked \in [Workers -> BOOLEAN]
    /\ op \in [Workers -> Ops] /\ pc \in [Workers -> Pcs]
    /\ loc \in [Workers -> LocType]
    /\ irq \in [Workers -> IrqType]
    /\ scheduler_token \in [Handles -> Nat]

Init ==
    /\ life = [t \in Targets |-> [state |-> "FREE", readers |-> 0]]
    /\ token = [t \in Targets |-> 0] /\ next_token = 0
    /\ pin = [x \in Holders |-> NoTarget]
    /\ handle = [t \in Targets |-> NoHandle]
    /\ sample_hz = [t \in Targets |-> 0]
    /\ allocated = {}
    /\ ring = [t \in Targets |-> <<>>]
    /\ draining = [t \in Targets |-> FALSE]
    /\ quality = [t \in Targets |-> {}]
    /\ host_lock = NoWorker
    /\ active_targets = 0 /\ active_sample_hz = 0
    /\ host_failed = FALSE
    /\ current_handle = [w \in Workers |-> NoHandle]
    /\ slot = [w \in Workers |-> NoSlot]
    /\ odd = [w \in Workers |-> FALSE]
    /\ armed_hz = [w \in Workers |-> 0]
    /\ pending = [w \in Workers |-> FALSE] /\ masked = [w \in Workers |-> FALSE]
    /\ op = [w \in Workers |-> "none"] /\ pc = [w \in Workers |-> "idle"]
    /\ loc = [w \in Workers |-> NoLoc]
    /\ irq = [w \in Workers |-> NoIrq]
    /\ scheduler_token = [h \in Handles |-> 0]

-----------------------------------------------------------------------------
(* The lifecycle word.                                                     *)

target_pin(x, t, allowed) ==
    /\ life[t].state \in allowed
    /\ life' = [life EXCEPT ![t].readers = @ + 1]
    /\ pin' = [pin EXCEPT ![x] = t]

\* Mutant: an unpin without its pin.
mutant_double_unpin(x) ==
    /\ life' = [life EXCEPT ![pin[x]].readers = @ - 2]
    /\ pin' = [pin EXCEPT ![x] = NoTarget]

target_unpin(x) ==
    /\ life' = [life EXCEPT ![pin[x]].readers = @ - 1]
    /\ pin' = [pin EXCEPT ![x] = NoTarget]

target_transition(t, from, to) ==
    /\ life[t].state = from
    /\ life' = [life EXCEPT ![t].state = to]

\* Mutant: nobody waits for readers.
mutant_no_wait(t) == TRUE

\* The exit condition of target_wait_unpinned's loop.
Unpinned(t) == life[t].readers = 0

ActiveOrStopping == {"ACTIVE", "STOPPING"}

\* Mutant: the session is not erased.
mutant_keep_token(t) ==
    /\ allocated' = allocated \ {t}
    /\ handle' = [handle EXCEPT ![t] = NoHandle]
    /\ sample_hz' = [sample_hz EXCEPT ![t] = 0]
    /\ ring' = [ring EXCEPT ![t] = <<>>]
    /\ target_transition(t, "RECLAIMING", "FREE")
    /\ UNCHANGED <<token, pin, next_token, draining, quality>>

\* What follows the wait in target_release and in the roll-back.
FreeTarget(t) ==
    /\ allocated' = allocated \ {t}
    /\ handle' = [handle EXCEPT ![t] = NoHandle]
    /\ token' = [token EXCEPT ![t] = 0]
    /\ sample_hz' = [sample_hz EXCEPT ![t] = 0]
    /\ ring' = [ring EXCEPT ![t] = <<>>]
    /\ target_transition(t, "RECLAIMING", "FREE")
    /\ UNCHANGED <<pin, next_token, draining, quality>>

Count(t, kind) == quality' = [quality EXCEPT ![t] = @ \cup {kind}]

-----------------------------------------------------------------------------
(* Control of a worker's thread.                                           *)

At(w, p) == pc[w] = p /\ irq[w].pc = "none"

Goto(w, p) ==
    /\ pc' = [pc EXCEPT ![w] = p]
    /\ UNCHANGED <<op, loc, irq, scheduler_token>>

GotoWith(w, p, l) ==
    /\ pc' = [pc EXCEPT ![w] = p]
    /\ loc' = [loc EXCEPT ![w] = l]
    /\ UNCHANGED <<op, irq, scheduler_token>>

\* Where a call starts: the lock for quiesce and release, the scan of targets[]
\* for those that look a target up.
Entry(o) == CASE o = "none" -> "idle"
              [] o = "start" -> "start_lock"
              [] o = "quiesce" -> "quiesce_lock"
              [] o = "release" -> "release_lock"
              [] o \in {"enter", "leave"} -> "discard_pin"
              [] OTHER -> "find"

Call(w, o, l) ==
    /\ op' = [op EXCEPT ![w] = o]
    /\ pc' = [pc EXCEPT ![w] = Entry(o)]
    /\ loc' = [loc EXCEPT ![w] = l]

\* Mutant: stop_collector does not take the quality.
mutant_skip_take(o, stop) == CASE o = "next" -> IF stop THEN {"end"} ELSE {"take"}
                               [] o = "take" -> {"end"}

\* The bridge's next call when this one returns.  Profiler work is a section from
\* begin to end; safe_point and a change to HOST drain in it (next until the ring
\* is empty, then take), an allocation does not.  stop_collector quiesces, drains
\* and releases; its section ends before the release or, when the API call is a
\* section itself, after it, where there is no session left to tell.
\* start_collector ends the section a new target starts in.
Drain(o, stop) == CASE o = "next" -> {"take"}
                    [] o = "take" -> {"end"} \cup (IF stop THEN {"release"} ELSE {})

After(o, stop) == CASE o = "begin" -> IF stop THEN {"quiesce"} ELSE {"next", "end"}
                    [] o = "quiesce" -> {"next"}
                    [] o \in {"next", "take"} -> Drain(o, stop)
                    [] o = "end" -> IF stop THEN {"release"} ELSE {"none"}
                    [] o = "start" -> {"end"}
                    [] o = "publish" -> {"none", "begin"}
                    [] OTHER -> {"none"}

ReturnTo(w, o) ==
    /\ Call(w, o, IF o = "none" THEN NoLoc
                  ELSE [NoLoc EXCEPT !.arg = loc[w].arg, !.stop = loc[w].stop])
    /\ UNCHANGED irq

Return(w) ==
    /\ \E o \in After(op[w], loc[w].stop) : ReturnTo(w, o)
    /\ UNCHANGED scheduler_token

\* publish_slot with the signal masked: nobody can see it happen.
PublishMasked(w, s) == slot' = [slot EXCEPT ![w] = s]

\* block_worker_signal
Mask(w) == masked' = [masked EXCEPT ![w] = TRUE]
Unmask(w) == masked' = [masked EXCEPT ![w] = FALSE]

-----------------------------------------------------------------------------
(* Calls into the host.  Skynet dispatches a service on one worker at a    *)
(* time; its VM calls the API from that dispatch.                          *)

Idle(w) == At(w, "idle")
Running(w) == current_handle[w]
Dispatching(w) == Running(w) # NoHandle

\* Mutant: the slot stays published.
mutant_stay_published(w, o, l) ==
    /\ Mask(w)
    /\ UNCHANGED slot
    /\ Call(w, o, [l EXCEPT !.prev = slot[w]])

\* The worker whose dispatch, start or quiesce has masked its signal sets the
\* slot aside and withdraws it.
Withdraw(w, o, l) ==
    /\ Mask(w)
    /\ PublishMasked(w, NoSlot)
    /\ Call(w, o, [l EXCEPT !.prev = slot[w]])

\* Someone is already inside stop_collector for this session.
BeingStopped(k) == \E v \in Workers : loc[v].stop /\ loc[v].arg = k

\* A VM that is being closed outside a dispatch is not dispatched again, unless
\* ForeignStop says otherwise.
dispatch_enter(w, h) ==
    /\ Idle(w) /\ ~Dispatching(w)
    /\ \A v \in Workers : Running(v) # h
    /\ ForeignStop \/ ~BeingStopped(scheduler_token[h])
    /\ current_handle' = [current_handle EXCEPT ![w] = h]
    /\ Withdraw(w, "enter", NoLoc)
    /\ UNCHANGED <<life_vars, target_vars, host_vars, odd, armed_hz, pending, irq,
                   scheduler_token>>

dispatch_leave(w) ==
    /\ Idle(w) /\ Dispatching(w)
    /\ Withdraw(w, "leave", NoLoc)
    /\ UNCHANGED <<life_vars, target_vars, host_vars, current_handle, odd, armed_hz,
                   pending, irq, scheduler_token>>

\* Starts that may still take a token: only the bound MaxToken needs them.
Starting == {v \in Workers : pc[v] = "start_lock"}

\* start_collector, up to host_lock.
target_start(w, hz) ==
    /\ Idle(w) /\ Dispatching(w)
    /\ scheduler_token[Running(w)] = 0
    /\ ~host_failed
    /\ next_token + Cardinality(Starting) < MaxToken
    /\ Call(w, "start", [NoLoc EXCEPT !.hz = hz])
    /\ UNCHANGED <<life_vars, target_vars, host_vars, worker_vars, irq, scheduler_token>>

\* The VM's CPU hooks are set: its bridge has a token.
Profiled(w) == Dispatching(w) /\ scheduler_token[Running(w)] # 0

\* A section of profiler work, draining (safe_point) or not (allocation).
profiler_work(w) ==
    /\ Idle(w) /\ Profiled(w)
    /\ Call(w, "begin", [NoLoc EXCEPT !.arg = scheduler_token[Running(w)]])
    /\ UNCHANGED <<life_vars, target_vars, host_vars, worker_vars, irq, scheduler_token>>

publish_state(w) ==
    /\ Idle(w) /\ Profiled(w)
    /\ Call(w, "publish", [NoLoc EXCEPT !.arg = scheduler_token[Running(w)]])
    /\ UNCHANGED <<life_vars, target_vars, host_vars, worker_vars, irq, scheduler_token>>

\* A session is stopped from its own dispatch or, when its VM is closed, by any
\* worker, whatever that worker is dispatching.
stop_collector(w, h) ==
    /\ Idle(w)
    /\ scheduler_token[h] # 0 /\ ~BeingStopped(scheduler_token[h])
    /\ ForeignStop \/ \A v \in Workers \ {w} : Running(v) # h
    /\ Call(w, "begin", [NoLoc EXCEPT !.arg = scheduler_token[h], !.stop = TRUE])
    /\ UNCHANGED <<life_vars, target_vars, host_vars, worker_vars, irq, scheduler_token>>

-----------------------------------------------------------------------------
(* discard_pending: ticks that arrived for the withdrawn slot are stale.   *)

AfterDiscard(w) == Goto(w, "sync_count")

discard_pin(w) ==
    /\ At(w, "discard_pin")
    /\ loc[w].prev.target # NoTarget
    /\ target_pin(<<w, "op">>, loc[w].prev.target, ActiveOrStopping)
    /\ Goto(w, "discard_use")
    /\ UNCHANGED <<token, next_token, target_vars, host_vars, worker_vars>>

\* No target, or one that is not pinnable: sigtimedwait drops the ticks.
discard_unowned(w) ==
    /\ At(w, "discard_pin")
    /\ \/ loc[w].prev.target = NoTarget
       \/ /\ loc[w].prev.target # NoTarget
          /\ life[loc[w].prev.target].state \notin ActiveOrStopping
    /\ pending' = [pending EXCEPT ![w] = FALSE]
    /\ AfterDiscard(w)
    /\ UNCHANGED <<life_vars, target_vars, host_vars, current_handle, slot, odd,
                   armed_hz, masked>>

discard_use(w) ==
    LET t == loc[w].prev.target IN
    /\ At(w, "discard_use")
    /\ IF pending[w] /\ token[t] = loc[w].prev.token
       THEN Count(t, "stale") ELSE UNCHANGED quality
    /\ pending' = [pending EXCEPT ![w] = FALSE]
    /\ target_unpin(<<w, "op">>)
    /\ AfterDiscard(w)
    /\ UNCHANGED <<token, next_token, handle, sample_hz, allocated, ring, draining,
                   host_vars, current_handle, slot, odd, armed_hz, masked>>

-----------------------------------------------------------------------------
(* sync_worker_timer: two loads, then timer_settime if the period changed. *)

AfterSync == [o \in Ops |-> CASE o = "enter" -> "find"
                             [] o = "leave" -> "leave_end"
                             [] o = "start" -> "start_publish"
                             [] OTHER -> "quiesce_end"]

sync_count(w) ==
    /\ At(w, "sync_count")
    /\ GotoWith(w, "sync_hz", [loc[w] EXCEPT !.count = active_targets])
    /\ UNCHANGED <<life_vars, target_vars, host_vars, worker_vars>>

WantedHz(w) == IF loc[w].count = 0 THEN 0 ELSE active_sample_hz

sync_hz(w) ==
    /\ At(w, "sync_hz")
    /\ armed_hz' = [armed_hz EXCEPT ![w] = WantedHz(w)]
    /\ GotoWith(w, AfterSync[op[w]], [loc[w] EXCEPT !.count = 0])
    /\ UNCHANGED <<life_vars, target_vars, host_vars, current_handle, slot, odd,
                   pending, masked>>

\* Mutant: the sessions are not told.
mutant_silent_failure(w) ==
    /\ At(w, "sync_hz")
    /\ SystemCallsFail
    /\ armed_hz[w] # WantedHz(w)
    /\ host_failed' = TRUE
    /\ GotoWith(w, IF op[w] = "start" THEN "rollback_lock" ELSE AfterSync[op[w]],
                [loc[w] EXCEPT !.count = 0, !.ok = FALSE])
    /\ UNCHANGED <<life_vars, target_vars, host_lock, active_targets, active_sample_hz,
                   worker_vars>>

\* The system call fails: the host is marked and every active session told.
sync_fails(w) ==
    /\ At(w, "sync_hz")
    /\ SystemCallsFail
    /\ armed_hz[w] # WantedHz(w)
    /\ host_failed' = TRUE
    /\ GotoWith(w, "fail_scan", [loc[w] EXCEPT !.count = 0, !.ok = FALSE, !.i = 1])
    /\ UNCHANGED <<life_vars, target_vars, host_lock, active_targets, active_sample_hz,
                   worker_vars>>

\* record_active_timer_failure
fail_pin(w) ==
    /\ At(w, "fail_scan")
    /\ loc[w].i <= NumTargets
    /\ target_pin(<<w, "op">>, loc[w].i, {"ACTIVE"})
    /\ Goto(w, "fail_use")
    /\ UNCHANGED <<token, next_token, target_vars, host_vars, worker_vars>>

fail_skip(w) ==
    /\ At(w, "fail_scan")
    /\ loc[w].i <= NumTargets
    /\ life[loc[w].i].state # "ACTIVE"
    /\ GotoWith(w, "fail_scan", [loc[w] EXCEPT !.i = @ + 1])
    /\ UNCHANGED <<life_vars, target_vars, host_vars, worker_vars>>

fail_use(w) ==
    /\ At(w, "fail_use")
    /\ Count(loc[w].i, "timer_failures")
    /\ target_unpin(<<w, "op">>)
    /\ GotoWith(w, "fail_scan", [loc[w] EXCEPT !.i = @ + 1])
    /\ UNCHANGED <<token, next_token, handle, sample_hz, allocated, ring, draining,
                   host_vars, worker_vars>>

fail_end(w) ==
    /\ At(w, "fail_scan")
    /\ loc[w].i > NumTargets
    /\ GotoWith(w, IF op[w] = "start" THEN "rollback_lock" ELSE AfterSync[op[w]],
                [loc[w] EXCEPT !.i = 1])
    /\ UNCHANGED <<life_vars, target_vars, host_vars, worker_vars>>

leave_end(w) ==
    /\ At(w, "leave_end")
    /\ Unmask(w)
    /\ current_handle' = [current_handle EXCEPT ![w] = NoHandle]
    /\ Return(w)
    /\ UNCHANGED <<life_vars, target_vars, host_vars, slot, odd, armed_hz, pending>>

-----------------------------------------------------------------------------
(* target_start.                                                           *)

HandleTaken(h) == \E t \in Targets : life[t].state # "FREE" /\ handle[t] = h
Available == {t \in Targets : life[t] = [state |-> "FREE", readers |-> 0]}
First(t) == t \in Available /\ \A s \in Available : t <= s
\* Mutant: a second session may ask for another frequency.
mutant_any_hz(hz) == FALSE

HzClash(hz) == active_targets # 0 /\ active_sample_hz # hz

start_select(w) ==
    /\ At(w, "start_lock")
    /\ host_lock = NoWorker
    /\ ~HzClash(loc[w].hz) /\ ~HandleTaken(Running(w))
    /\ \E t \in Targets :
       /\ First(t)
       /\ allocated' = allocated \cup {t}
       /\ next_token' = next_token + 1
       /\ token' = [token EXCEPT ![t] = next_token + 1]
       /\ handle' = [handle EXCEPT ![t] = Running(w)]
       /\ sample_hz' = [sample_hz EXCEPT ![t] = loc[w].hz]
       /\ ring' = [ring EXCEPT ![t] = <<>>]
       /\ quality' = [quality EXCEPT ![t] = {}]
       /\ draining' = [draining EXCEPT ![t] = TRUE]
       /\ target_transition(t, "FREE", "ACTIVE")
       /\ GotoWith(w, "start_hz", [loc[w] EXCEPT !.target = t, !.arg = next_token + 1])
    /\ host_lock' = w
    /\ UNCHANGED <<pin, active_targets, active_sample_hz, host_failed, worker_vars>>

\* Refused under the lock; the last disjunct is calloc returning NULL.
start_refused(w) ==
    /\ At(w, "start_lock")
    /\ host_lock = NoWorker
    /\ \/ HzClash(loc[w].hz)
       \/ HandleTaken(Running(w))
       \/ Available = {}
       \/ SystemCallsFail
    /\ ReturnTo(w, "none")
    /\ UNCHANGED <<life_vars, target_vars, host_vars, worker_vars, scheduler_token>>

start_hz(w) ==
    /\ At(w, "start_hz")
    /\ active_sample_hz' = loc[w].hz
    /\ Goto(w, "start_count")
    /\ UNCHANGED <<life_vars, target_vars, host_lock, active_targets, host_failed,
                   worker_vars>>

\* The last store under the lock; then the slot is withdrawn.
start_count(w) ==
    /\ At(w, "start_count")
    /\ active_targets' = active_targets + 1
    /\ host_lock' = NoWorker
    /\ Mask(w)
    /\ PublishMasked(w, NoSlot)
    /\ GotoWith(w, "discard_pin", [loc[w] EXCEPT !.prev = slot[w]])
    /\ UNCHANGED <<life_vars, target_vars, active_sample_hz, host_failed, current_handle,
                   odd, armed_hz, pending>>

start_publish(w) ==
    /\ At(w, "start_publish")
    /\ PublishMasked(w, [target |-> loc[w].target, token |-> loc[w].arg,
                         vm |-> Running(w)])
    /\ Unmask(w)
    /\ scheduler_token' = [scheduler_token EXCEPT ![Running(w)] = loc[w].arg]
    /\ ReturnTo(w, "end")
    /\ UNCHANGED <<life_vars, target_vars, host_vars, current_handle, odd, armed_hz,
                   pending>>

rollback_lock(w) ==
    /\ At(w, "rollback_lock")
    /\ host_lock = NoWorker
    /\ target_transition(loc[w].target, "ACTIVE", "RECLAIMING")
    /\ host_lock' = w
    /\ Goto(w, "rollback_count")
    /\ UNCHANGED <<token, pin, next_token, target_vars, active_targets, active_sample_hz,
                   host_failed, worker_vars>>

\* One session fewer, in a roll-back and in a quiesce: the count, then the
\* frequency when it was the last.
drop_count(w, from, to) ==
    /\ At(w, from)
    /\ active_targets' = IF active_targets > 0 THEN active_targets - 1 ELSE 0
    /\ Goto(w, to)
    /\ UNCHANGED <<life_vars, target_vars, host_lock, active_sample_hz, host_failed,
                   worker_vars>>

\* Mutant: the frequency is reset although another session is left.
mutant_reset_hz == active_sample_hz' = 0

DropHz == active_sample_hz' = IF active_targets = 0 THEN 0 ELSE active_sample_hz

rollback_hz(w) ==
    /\ At(w, "rollback_hz")
    /\ DropHz
    /\ Goto(w, "rollback_wait")
    /\ UNCHANGED <<life_vars, target_vars, host_lock, active_targets, host_failed,
                   worker_vars>>

rollback_wait(w) ==
    /\ At(w, "rollback_wait")
    /\ Unpinned(loc[w].target)
    /\ FreeTarget(loc[w].target)
    /\ host_lock' = NoWorker
    /\ Unmask(w)
    /\ ReturnTo(w, "none")
    /\ UNCHANGED <<active_targets, active_sample_hz, host_failed, current_handle, slot, odd,
                   armed_hz, pending, scheduler_token>>

-----------------------------------------------------------------------------
(* target_quiesce.                                                         *)

Session(t, k, state) == life[t].state = state /\ token[t] = k

quiesce_lock(w) ==
    /\ At(w, "quiesce_lock")
    /\ host_lock = NoWorker
    /\ \E t \in Targets :
          /\ Session(t, loc[w].arg, "ACTIVE")
          /\ target_transition(t, "ACTIVE", "STOPPING")
          /\ GotoWith(w, "quiesce_count", [loc[w] EXCEPT !.target = t])
    /\ host_lock' = w
    /\ UNCHANGED <<token, pin, next_token, target_vars, active_targets, active_sample_hz,
                   host_failed, worker_vars>>

quiesce_hz(w) ==
    /\ At(w, "quiesce_hz")
    /\ DropHz
    /\ host_lock' = NoWorker
    /\ Mask(w)
    /\ PublishMasked(w, IF slot[w].target = loc[w].target THEN NoSlot ELSE slot[w])
    /\ GotoWith(w, "discard_pin",
                [loc[w] EXCEPT !.prev = [NoSlot EXCEPT !.target = loc[w].target,
                                                       !.token = loc[w].arg]])
    /\ UNCHANGED <<life_vars, target_vars, active_targets, host_failed, current_handle, odd,
                   armed_hz, pending>>

quiesce_end(w) ==
    /\ At(w, "quiesce_end")
    /\ IF loc[w].ok THEN UNCHANGED quality ELSE Count(loc[w].target, "timer_failures")
    /\ Unmask(w)
    /\ Goto(w, "quiesce_wait")
    /\ UNCHANGED <<life_vars, handle, sample_hz, allocated, ring, draining, host_vars,
                   current_handle, slot, odd, armed_hz, pending>>

\* Mutant: the drain begins while a reader may still append.
mutant_drain_early(w) ==
    /\ At(w, "quiesce_wait")
    /\ Return(w)
    /\ UNCHANGED <<life_vars, target_vars, host_vars, worker_vars>>

quiesce_wait(w) ==
    /\ At(w, "quiesce_wait")
    /\ Unpinned(loc[w].target)
    /\ Return(w)
    /\ UNCHANGED <<life_vars, target_vars, host_vars, worker_vars>>

-----------------------------------------------------------------------------
(* target_release, and the end of stop_collector.                          *)

ClosedBy(w) == scheduler_token' =
    [h \in Handles |-> IF scheduler_token[h] = loc[w].arg THEN 0 ELSE scheduler_token[h]]

release_lock(w) ==
    /\ At(w, "release_lock")
    /\ host_lock = NoWorker
    /\ \E t \in Targets :
          /\ Session(t, loc[w].arg, "STOPPING")
          /\ target_transition(t, "STOPPING", "RECLAIMING")
          /\ GotoWith(w, "release_wait", [loc[w] EXCEPT !.target = t])
    /\ host_lock' = w
    /\ UNCHANGED <<token, pin, next_token, target_vars, active_targets, active_sample_hz,
                   host_failed, worker_vars>>

release_wait(w) ==
    /\ At(w, "release_wait")
    /\ Unpinned(loc[w].target)
    /\ FreeTarget(loc[w].target)
    /\ host_lock' = NoWorker
    /\ ClosedBy(w)
    /\ ReturnTo(w, "none")
    /\ UNCHANGED <<active_targets, active_sample_hz, host_failed, worker_vars>>

-----------------------------------------------------------------------------
(* pin_active_handle and pin_token: scan, pin, look again; then the call's *)
(* own work under the pin.                                                 *)

Allowed(w) == IF op[w] \in {"enter", "publish"} THEN {"ACTIVE"} ELSE ActiveOrStopping

Wanted(w, t) == IF op[w] = "enter" THEN handle[t] = Running(w) ELSE token[t] = loc[w].arg

Found(w, t) == life[t].state \in Allowed(w) /\ Wanted(w, t)

NextTarget(w) == GotoWith(w, "find", [loc[w] EXCEPT !.i = @ + 1])

find(w) ==
    /\ At(w, "find")
    /\ loc[w].i <= NumTargets
    /\ IF Found(w, loc[w].i) THEN Goto(w, "find_pin") ELSE NextTarget(w)
    /\ UNCHANGED <<life_vars, target_vars, host_vars, worker_vars>>

\* No such session: the call does nothing.
find_none(w) ==
    /\ At(w, "find")
    /\ loc[w].i > NumTargets
    /\ IF op[w] = "enter" THEN Unmask(w) ELSE UNCHANGED masked
    /\ Return(w)
    /\ UNCHANGED <<life_vars, target_vars, host_vars, current_handle, slot, odd, armed_hz,
                   pending>>

find_pin(w) ==
    /\ At(w, "find_pin")
    /\ target_pin(<<w, "op">>, loc[w].i, Allowed(w))
    /\ Goto(w, "find_use")
    /\ UNCHANGED <<token, next_token, target_vars, host_vars, worker_vars>>

find_missed(w) ==
    /\ At(w, "find_pin")
    /\ life[loc[w].i].state \notin Allowed(w)
    /\ NextTarget(w)
    /\ UNCHANGED <<life_vars, target_vars, host_vars, worker_vars>>

\* The slot was given to another session between the scan and the pin.
find_lost(w) ==
    /\ At(w, "find_use")
    /\ ~Wanted(w, loc[w].i)
    /\ target_unpin(<<w, "op">>)
    /\ NextTarget(w)
    /\ UNCHANGED <<token, next_token, target_vars, host_vars, worker_vars>>

\* Pinned and checked: the call's work is done, the pin given back.
Use(w, o) ==
    /\ At(w, "find_use")
    /\ op[w] = o
    /\ Wanted(w, loc[w].i)

UnpinAndReturn(w) ==
    /\ target_unpin(<<w, "op">>)
    /\ Return(w)
    /\ UNCHANGED <<token, next_token, host_vars>>

bind_dispatch(w) ==
    LET t == loc[w].i IN
    /\ Use(w, "enter")
    /\ PublishMasked(w, [target |-> t, token |-> token[t], vm |-> handle[t]])
    /\ Unmask(w)
    /\ UnpinAndReturn(w)
    /\ UNCHANGED <<target_vars, current_handle, odd, armed_hz, pending>>

\* publish_state runs unmasked: the slot's version is odd while it is written.
\* The dispatched service is the session's: a bridge passes its own token.
publish_odd(w) ==
    /\ Use(w, "publish")
    /\ Running(w) = handle[loc[w].i]
    /\ odd' = [odd EXCEPT ![w] = TRUE]
    /\ Goto(w, "publish_even")
    /\ UNCHANGED <<life_vars, target_vars, host_vars, current_handle, slot, armed_hz, pending,
                   masked>>

publish_even(w) ==
    /\ At(w, "publish_even")
    /\ PublishMasked(w, [target |-> loc[w].i, token |-> loc[w].arg, vm |-> Running(w)])
    /\ odd' = [odd EXCEPT ![w] = FALSE]
    /\ Goto(w, "publish_unpin")
    /\ UNCHANGED <<life_vars, target_vars, host_vars, current_handle, armed_hz, pending,
                   masked>>

publish_unpin(w) ==
    /\ At(w, "publish_unpin")
    /\ UnpinAndReturn(w)
    /\ UNCHANGED <<target_vars, worker_vars>>

event_drain(w, o, flag) ==
    /\ Use(w, o)
    /\ draining' = [draining EXCEPT ![loc[w].i] = flag]
    /\ UnpinAndReturn(w)
    /\ UNCHANGED <<handle, sample_hz, allocated, ring, quality, worker_vars>>

\* next_event takes the oldest event, and drain_scheduler asks again ...
next_event(w) ==
    /\ Use(w, "next")
    /\ ring[loc[w].i] # <<>>
    /\ ring' = [ring EXCEPT ![loc[w].i] = Tail(@)]
    /\ target_unpin(<<w, "op">>)
    /\ GotoWith(w, "find", [loc[w] EXCEPT !.i = 1])
    /\ UNCHANGED <<token, next_token, handle, sample_hz, allocated, draining, quality,
                   host_vars, worker_vars>>

\* ... until there is none.
next_empty(w) ==
    /\ Use(w, "next")
    /\ ring[loc[w].i] = <<>>
    /\ UnpinAndReturn(w)
    /\ UNCHANGED <<target_vars, worker_vars>>

take_quality(w) ==
    /\ Use(w, "take")
    /\ quality' = [quality EXCEPT ![loc[w].i] = {}]
    /\ UnpinAndReturn(w)
    /\ UNCHANGED <<handle, sample_hz, allocated, ring, draining, worker_vars>>

-----------------------------------------------------------------------------
(* The timer and its signal handler.                                       *)

\* The CPU timer of worker w expires while its signal is masked: the signal
\* stays pending (another expiry only adds to its overrun count).
tick(w) ==
    /\ armed_hz[w] # 0 /\ masked[w] /\ ~pending[w]
    /\ pending' = [pending EXCEPT ![w] = TRUE]
    /\ UNCHANGED <<life_vars, target_vars, host_vars, current_handle, slot, odd, armed_hz,
                   masked, control_vars, irq, scheduler_token>>

\* Unmasked, an expiry or the signal that was left pending enters the handler,
\* which reads its worker's slot; without a target there is nothing to do.
handler_enter(w) ==
    /\ armed_hz[w] # 0 \/ pending[w]
    /\ ~masked[w] /\ irq[w].pc = "none"
    /\ pending' = [pending EXCEPT ![w] = FALSE]
    /\ irq' = [irq EXCEPT ![w] =
                 IF slot[w].target = NoTarget THEN NoIrq
                 ELSE [NoIrq EXCEPT !.pc = "pin", !.slot = slot[w], !.odd = odd[w]]]
    /\ UNCHANGED <<life_vars, target_vars, host_vars, current_handle, slot, odd, armed_hz,
                   masked, control_vars, scheduler_token>>

handler_pin(w) ==
    LET t == irq[w].slot.target IN
    /\ irq[w].pc = "pin"
    /\ target_pin(<<w, "irq">>, t, ActiveOrStopping)
    /\ irq' = [irq EXCEPT ![w].pc = "use", ![w].state = life[t].state,
                          ![w].draining = draining[t]]
    /\ UNCHANGED <<token, next_token, target_vars, host_vars, worker_vars, control_vars,
                   scheduler_token>>

handler_unpinned(w) ==
    /\ irq[w].pc = "pin"
    /\ life[irq[w].slot.target].state \notin ActiveOrStopping
    /\ irq' = [irq EXCEPT ![w] = NoIrq]
    /\ UNCHANGED <<life_vars, target_vars, host_vars, worker_vars, control_vars,
                   scheduler_token>>

\* Mutant: one event too many.
mutant_overfull(w) ==
    CASE irq[w].odd -> "unstable"
      [] irq[w].state # "ACTIVE" -> "stale"
      [] irq[w].draining -> "profiler_overhead"
      [] Len(ring[irq[w].slot.target]) > RingCapacity -> "dropped"
      [] OTHER -> ""

\* What becomes of a tick whose session is still that of the slot: "" when it
\* can be sampled, else the counter it goes to.
Rejection(w) ==
    CASE irq[w].odd -> "unstable"
      [] irq[w].state # "ACTIVE" -> "stale"
      [] irq[w].draining -> "profiler_overhead"
      [] Len(ring[irq[w].slot.target]) >= RingCapacity -> "dropped"
      [] OTHER -> ""

InHandler(w) == irq[w].pc = "use"
\* Mutant: the pinned target is taken for the published session.
mutant_any_session(w) == TRUE

SameSession(w) == token[irq[w].slot.target] = irq[w].slot.token

HandlerReturn(w) ==
    /\ target_unpin(<<w, "irq">>)
    /\ irq' = [irq EXCEPT ![w] = NoIrq]
    /\ UNCHANGED <<token, next_token, handle, sample_hz, allocated, draining, host_vars,
                   worker_vars, control_vars, scheduler_token>>

handler_push(w) ==
    /\ InHandler(w) /\ SameSession(w) /\ Rejection(w) = ""
    /\ ring' = [ring EXCEPT ![irq[w].slot.target] = Append(@, irq[w].slot.vm)]
    /\ UNCHANGED quality
    /\ HandlerReturn(w)

\* Mutant: the early return keeps its pin.
mutant_leak_pin(w) ==
    /\ InHandler(w) /\ SameSession(w) /\ Rejection(w) # ""
    /\ Count(irq[w].slot.target, Rejection(w))
    /\ irq' = [irq EXCEPT ![w] = NoIrq]
    /\ UNCHANGED <<life_vars, handle, sample_hz, allocated, ring, draining, host_vars,
                   worker_vars, control_vars, scheduler_token>>

handler_reject(w) ==
    /\ InHandler(w) /\ SameSession(w) /\ Rejection(w) # ""
    /\ Count(irq[w].slot.target, Rejection(w))
    /\ UNCHANGED ring
    /\ HandlerReturn(w)

handler_stale_token(w) ==
    /\ InHandler(w) /\ ~SameSession(w)
    /\ UNCHANGED <<ring, quality>>
    /\ HandlerReturn(w)

-----------------------------------------------------------------------------

Client(w) ==
    \/ \E h \in Handles : dispatch_enter(w, h)
    \/ dispatch_leave(w)
    \/ \E hz \in Hz : target_start(w, hz)
    \/ profiler_work(w)
    \/ publish_state(w)
    \/ \E h \in Handles : stop_collector(w, h)

Step(w) ==
    \/ discard_pin(w) \/ discard_unowned(w) \/ discard_use(w)
    \/ sync_count(w) \/ sync_hz(w) \/ sync_fails(w)
    \/ fail_pin(w) \/ fail_skip(w) \/ fail_use(w) \/ fail_end(w)
    \/ leave_end(w)
    \/ start_hz(w) \/ start_count(w) \/ start_publish(w)
    \/ drop_count(w, "rollback_count", "rollback_hz") \/ rollback_hz(w)
    \/ rollback_wait(w)
    \/ drop_count(w, "quiesce_count", "quiesce_hz") \/ quiesce_hz(w) \/ quiesce_end(w)
    \/ release_wait(w)
    \/ find(w) \/ find_none(w) \/ find_pin(w) \/ find_missed(w) \/ find_lost(w)
    \/ bind_dispatch(w)
    \/ publish_odd(w) \/ publish_even(w) \/ publish_unpin(w)
    \/ event_drain(w, "begin", TRUE) \/ event_drain(w, "end", FALSE)
    \/ next_event(w) \/ next_empty(w) \/ take_quality(w)

\* Steps that wait for another thread: for host_lock ...
Lock(w) ==
    \/ start_select(w) \/ start_refused(w) \/ rollback_lock(w)
    \/ quiesce_lock(w) \/ release_lock(w)

\* ... or for the readers of a session that still accepts ticks.
Thread(w) == Step(w) \/ Lock(w) \/ quiesce_wait(w)

Handler(w) ==
    \/ handler_pin(w) \/ handler_unpinned(w)
    \/ handler_push(w) \/ handler_reject(w) \/ handler_stale_token(w)

Next == \E w \in Workers :
    \/ Client(w) \/ Thread(w)
    \/ tick(w) \/ handler_enter(w) \/ Handler(w)

Spec == Init /\ [][Next]_vars

\* A handler runs to its end; ticks are not owed.  A timer counts CPU time, so its
\* ticks leave the thread they interrupt time to step.  A contended mutex is
\* acquired in the end, and sched_yield's loop sees a moment without readers if
\* there are infinitely many.
Fairness == \A w \in Workers : SF_vars(Thread(w)) /\ WF_vars(Handler(w))

FairSpec == Spec /\ Fairness

-----------------------------------------------------------------------------
(* Properties.                                                             *)

Active == {t \in Targets : life[t].state = "ACTIVE"}
HoldersOf(t) == {x \in Holders : pin[x] = t}

\* The lifecycle words implement the protocol of TargetLifecycle.
Lifecycle == INSTANCE TargetLifecycle
LifecycleSpec == Lifecycle!Spec

\* target_wait_unpinned is what keeps free(target->events) from a reader: a
\* pinned target's ring is allocated, and the count it waits on is exact.
NoUseAfterFree ==
    /\ \A x \in Holders : pin[x] # NoTarget => pin[x] \in allocated
    /\ \A t \in Targets : life[t].readers = Cardinality(HoldersOf(t))

\* "Other services ... are not counted in this result" (profiling-model.md 2.3):
\* a ring only holds events of the VM whose session owns the slot, whatever
\* reuse and migration went on while the handler ran.
SamplesBelong ==
    \A t \in Targets : \A i \in DOMAIN ring[t] : ring[t][i] = handle[t]

\* When host_lock is free, active_targets counts the ACTIVE targets, and all of
\* them sample at active_sample_hz, which is 0 when there is none.
CountsExact ==
    host_lock = NoWorker =>
        /\ active_targets = Cardinality(Active)
        /\ \A t \in Active : sample_hz[t] = active_sample_hz
        /\ Active = {} => active_sample_hz = 0

Publishes(w, t) == slot[w].target = t /\ slot[w].token = token[t]

\* A ring has a single producer: no two workers publish the same session.
SingleProducer ==
    \A v, w \in Workers, t \in Active :
        Publishes(v, t) /\ Publishes(w, t) => v = w

\* sync_worker_timer reads two atomics without the lock, yet a worker that runs
\* a profiled service samples at the frequency the service asked for, unless a
\* timer system call failed (and timer_failures says so).
ArmedForTarget ==
    \A w \in Workers, t \in Active :
        Publishes(w, t) /\ ~host_failed => armed_hz[w] = sample_hz[t]

\* sync_worker_timer's result is dropped by dispatch_enter, so the failure must
\* have reached the session another way: a service that lands on a worker whose
\* timer does not run at its frequency finds timer_failures counted.
FailureReported ==
    [][\A w \in Workers, t \in Active :
         slot'[w] # slot[w] /\ slot'[w].target = t /\ armed_hz[w] # sample_hz[t]
            => "timer_failures" \in quality[t]]_vars

\* The thread inside stop_collector, and whether it has come to the drain.
Stopper(t) == {v \in Workers : loc[v].stop /\ loc[v].arg = token[t]}
Drained(t) == \E v \in Stopper(t) : op[v] \in {"next", "take", "end", "release"}

\* When a session is reclaimed by target_release, its ring has been drained and
\* (if its service was not running meanwhile) every counter taken.
NothingLost ==
    [][\A t \in Targets :
         life[t].state = "RECLAIMING" /\ life'[t].state = "FREE" /\ Stopper(t) # {}
            => /\ ring[t] = <<>>
               /\ ~ForeignStop => quality[t] = {}]_vars

\* The sessions, as the recorder of a service sees them.
Phase(t) == CASE life[t].state = "ACTIVE" -> "open"
              [] life[t].state = "STOPPING" /\ ~Drained(t) -> "closing"
              [] life[t].state = "FREE" -> "none"
              [] OTHER -> "closed"
Sessions == INSTANCE ProfileSession WITH
    Slots <- Targets,
    Services <- Handles, NoService <- NoHandle,
    Capacity <- RingCapacity,
    phase <- [t \in Targets |-> Phase(t)],
    owner <- handle,
    running <- {current_handle[w] : w \in Workers} \ {NoHandle},
    inbox <- ring
SessionsSpec == Sessions!Spec

\* Every call returns: no wait for readers or for the lock lasts for ever, not
\* even that of a release that holds the lock while it waits.
CallsReturn == \A w \in Workers : (pc[w] # "idle") ~> (pc[w] = "idle")
=============================================================================
