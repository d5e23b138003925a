# TLA+ models of luaprof

luaprof is a sampling profiler for Lua. A *recorder* collects CPU samples (a
timer signal interrupts the thread, the VM is sampled at the next safe point) or
memory samples (weighted allocations) of one VM, and ends in a *result* that is
written as a pprof file. A VM runs either on a thread of its own or as a service
of Skynet, where worker threads dispatch many services. Paths below are relative
to the repository.

## The system

| component | state it keeps | operations | hard behaviour |
|---|---|---|---|
| Skynet host, `src/skynet_host.c` | `targets[]` (lifecycle word, token, handle, ring, counters), `active_targets`, `active_sample_hz`, one execution slot and timer per worker, the reference-counted signal | `worker_start/stop`, `dispatch_enter/leave`, the session API (`target_start`, `target_quiesce`, `target_release`, `publish_state`, `begin/end_event_drain`, `next_event`, `take_quality`), the signal handler | workers and handlers interleave on lock-free words; slots are reused; services migrate; two atomics read without the lock; waits under the lock |
| Lua bridge, `src/lua_bridge.c` | `scheduler_token` or `cpu_timer`, `profiler_work_depth`, `cpu_active`, `memory_active`, generations | `start/stop_collector`, `begin/end_profiler_work`, the VM's callbacks `safe_point`, `state_change`, `allocation` | callbacks inside profiler work; events that name a coroutine which may die |
| Thread timer, `src/thread_timer.c` | ring, version-protected slot, counters, `active_timers[]`, the signal's users | `arm`, `disarm`, `publish_state`, `next`, drain flags, the handler | the handler interrupts every step of its thread; signals pending at disarm; a full registry |
| VM bridge, `patches/lua-5.4.8.patch` (`lprofile.c`) | hooks, `profilepending`, `profileincallback`, per-thread state | publish of states, safe points, allocations, `lua_setprofilehooks` | nested guards, coroutines, ticks left over from an earlier hook set |
| Runtime, `src/runtime.c` | one CPU and one memory slot: recorder generation, profile under construction | `start`, `stop`, callbacks of the bridge, results | stale generations, failure of one of several steps |
| Lua module, `src/lua_module.c` | userdata of recorders and results | `cpu_start`, `memory_start`, `stop`, `write`, collectors | finalizers in any order, re-entrance through allocations |
| CPU core, `src/cpu_core.c` | symbols, aggregated samples, quality counters | `record`, `quality`, `merge` | allocation failure in the middle, saturation |
| Memory core, `src/memory_core.c` | symbols, cumulative and live samples, the map of live pointers, the sampling countdown | `allocation_event`, `should_sample`, `record`, `reconcile` | pointers reused, table growth that fails, freed during profiler work |
| pprof exporter, `src/pprof_exporter.c` | a temporary file | encode, write, rename | crash or failure between the steps |
| Lua symbols, `src/lua_symbols.c` | the set of visited tables, names | walk of `package.loaded` | which alias is kept |
| native symbols, backend lookup, `tools/pprof-flamegraph` | none that lives on | reading ELF, `dlsym`, rendering | none that a model would show |

### How they interact

The Lua module asks the runtime to start a recorder; the runtime calls the
bridge's `start_collector`, which either opens a session of the Skynet host (when
`src/skynet_backend.c` finds its API in the process) or arms a thread timer, and
sets the VM's hooks. The VM calls back on state changes, safe points and
allocations. A timer signal makes the handler of the host or of the thread timer
append an event that names the VM state of the published slot; the bridge drains
events into the runtime from safe points, when the VM goes to HOST, and when the
recorder stops. Counters (`quality`) account for the ticks that became no event.

## What is modelled

| module | stands for |
|---|---|
| `TargetLifecycle` | the protocol of the lifecycle word alone: state and reader count in one compare-and-swap word, slots, tokens, holders |
| `ProfileSession` | what the host promises a recorder: a session opens, takes events of its own service up to the capacity, closes, is drained, ends |
| `SkynetHost` | `skynet_host.c` with the scheduler half of `lua_bridge.c`: every API call, the dispatch hooks, the timer sync and the handler, at the grain of the shared accesses |
| `TickTimer` | `struct lp_thread_timer` as a value and the functions that only touch it: the handler's decision, publication, drain, counters |
| `ThreadTimer` | `thread_timer.c` as threads of a process see it: `arm` and `disarm` step by step, the shared signal, the table, signal queues and masks |
| `VmProfile` | one VM with a thread timer: `lprofile.c` and its call sites in the Lua core, `lua_bridge.c` in thread mode, the work guard, `cpu_start`, `stop` and the finalizer of `lua_module.c` |
| `LiveMap` | what "in use" promises: a map of bounded size from the blocks the VM holds to samples |
| `MemoryProfile` | `memory_core.c` as the allocation callback of `lua_bridge.c` drives it through `runtime.c`: interning, aggregates, the chained live table, saturating sums |
| `WorkerRegistry` | `worker_start`, `worker_stop`, `acquire_signal`, `release_signal` and the handler's way to its worker in `skynet_host.c`, on top of `TargetLifecycle` |
| `ProfileOwnership` | who owns a profile: the slots of `runtime.c`, the recorder and result objects of `lua_module.c`, their finalizers and the collector |
| `CpuProfile` | `cpu_core.c` as functions on a profile: interning, aggregates, overflows; and the stacks that `build_cpu_samples` of `pprof_exporter.c` makes of them |
| `CpuRecording` | a VM that runs while it is recorded: `ProfileOwnership` and `CpuProfile` joined by the events that wait for a safe point |
| `Destination` | what the documents promise of the file that `result:write` makes |
| `ReportFile` | the temporary file of `pprof_exporter.c`, system call by system call, with failures, crashes and other programs |
| `MC...` | the instances for TLC: `MCSkynetHost`, `MCWorkerRegistry`, `MCThreadTimer`, `MCVmProfile`, `MCMemoryProfile`, `MCCpuRecording`, `MCReportFile` |
| `..._proofs`: `TargetLifecycle`, `WorkerRegistry`, `SkynetHost`, `ThreadTimer`, `VmProfile`, `MemoryProfile`, `CpuRecording`, `ReportFile` | the theorems |

`SkynetHost` implements both abstract modules: `LifecycleSpec` (the variables `life`,
`token`, `pin`, `next_token` are those of `TargetLifecycle`) and `SessionsSpec`
(refinement mapping `Phase`, `handle`, `ring`). `MemoryProfile` implements `LiveMap`
(`LiveMapSpec`): the map is what a search of the buckets finds. `ReportFile` implements
`Destination` (`DestinationSpec`), `WorkerRegistry` implements `TargetLifecycle`, and
every step of `CpuRecording` is one of `ProfileOwnership`.

### State and actions of SkynetHost

`life[t]` is the lifecycle word, `token`, `handle`, `sample_hz`, `ring`,
`draining`, `quality` the fields it protects; `allocated` holds the targets whose
event ring exists. `slot[w]` is the execution slot of worker `w`, `odd[w]` the low
bit of its version, `armed_hz[w]` the period of its timer, `masked[w]` and
`pending[w]` the signal. A worker's thread has a call (`op`), a place in it (`pc`)
and locals (`loc`); its handler has its own (`irq`). `At(w, p)` lets a thread step
only while its handler is not running, which is what a signal does to a thread.

Each action is one step of the code between two accesses that another thread can
see: `start_select` is what `target_start` does to a slot under `host_lock`,
`start_hz` and `start_count` are the two stores that `sync_worker_timer` of
another worker may read in between, `find`, `find_pin`, `find_use` the scan, the
pin and the second look of `pin_token`, `quiesce_wait` the exit of
`target_wait_unpinned`. While a worker's signal is masked, `publish_slot` is one
step, since only that worker and its handler read it; `publish_state` runs
unmasked, so its odd version is a state of its own.

Abstractions: the events of a ring are the VMs they were taken from; a counter of
`quality` is a member of a set when it is not zero; `worker_mask`, `generation` and
overrun counts are left out; while `publish_slot` is odd the model's handler sees
the old slot as owner of the tick, which is what `slot_quality_target` holds until
the new one is stored. "Session not found" in `target_quiesce` and
`target_release`, and a foreign `current_handle` in `target_publish_state`, have no
action because the bridge never passes such a token: if it could, the thread would
be stuck and `CallsReturn` and the deadlock check would fail.

`ThreadTimer` and `VmProfile` both build on `TickTimer`: the first looks at
several timers and their signals, the second at everything one timer is told by its
VM. Where they meet (`disarm`), `VmProfile` keeps only what `ThreadTimer` shows:
the timer is off, and what was queued is counted as dropped.

`ForeignStop = TRUE` checks the host against its strongest caller: a session that
another worker stops while its service is being dispatched. With `FALSE` (Skynet
closes a VM outside of a dispatch) one more thing holds, the counters part of
`NothingLost`: a tick that is discarded after the counters were taken is lost with
a foreign stop and cannot happen otherwise. The run `sharing` checks that part, in the
run `host` it says nothing.

### State and actions of WorkerRegistry

`phase[w]` says how far a thread is in `worker_start` (`allocated`, `acquired`,
`checked`), in `dispatch_enter` (`finding`, `publishing`) or in `worker_stop`
(`blocked`, `deleted`, `drained`). `registered` is `workers[]`, `signal_users` and
`disposition` the shared signal, `timer`, `pending`, `slot` and `handler` belong to
a thread. Expirations, the threads that were created with the signal blocked, and a
program that had another handler before are inputs. The sessions are those of
`TargetLifecycle`; a worker is one of its holders, and its handler pins what
`slot[w]` names. `erased` is a history: the tokens of the sessions that are over,
which no later session may have again.

`SkynetHost` takes its workers as registered, `WorkerRegistry` takes the calls on a
session as the few steps of `TargetLifecycle`. They meet in that module: both
implement it, and what holds a pin in one is a holder for the other.

### State and actions of ThreadTimer

`owner[a]` is the thread whose VM allocated the struct at address `a`, `timer[a]`
its fields, `slotOf[a]` its `signal_slot`, `kernel[a]` the POSIX timer.
`activeTimers`, `signalUsers` and `disposition` are shared; `blocked`, `queue` and
`activeThread` belong to a thread. `arm` is `Acquire` (the table and the handler
under `signal_lock`), `ArmBlock`, `ArmCreate`, `ArmStart`, `ArmUndo`, `Unblock`;
`disarm` is `Disarm`, `FetchQueued`, `StopTimer`, `CollectQueued`, `DisarmRelease`,
`Unblock`: one step per system call, each of which may fail where the code handles
a failure. A refused `Acquire` changes nothing and is no action. `Expire` and
`Deliver` are the kernel. An address that is deleted can be allocated by another
thread; `serial` remembers which arm a signal came from. Both functions run on the
VM's own thread, as `docs/integration.md:203` requires of the host.

### State and actions of VmProfile

`chain` is the stack of resumed `lua_State`s, `frames[L]` their call frames with the
patch's guard of each, `profile[L]` the pair `profilestate`, `profilecfunction`.
The application may do anything Lua lets it: `HostCall`, `CallLua`, `CallC`,
`Return`, `ResumeCoroutine`, `YieldCoroutine`, `Throw`, `CloseCoroutine`, `Collect`,
`Allocate`, and call luaprof. Each of these fills `todo` with the calls that the
patched function makes, in its order; `Perform` executes them one at a time, so that
`Tick` can fall between any two, also between the two halves of a publication
(`open`, `shut`) and between the entries of a drain. After a `longjmp` the frames
that stay are no longer on the C stack (`attached`), and are entered again by
`reenter` when execution comes back to them, as `unroll` does.

Abstractions: a Lua frame has no program counter, so a sample is its count and not
its stack; `profileincallback` is left out because no callback runs Lua code; a
memory recording is one flag and its finalizer is not modelled; the ring has one
entry, which is full at once. A coroutine's error is only raised by a C function.

### State and actions of MemoryProfile

`profile` is the struct `lp_memory_profile`: `entries` with their `next` indices,
`buckets` and `free` are the live table, `symbols` and `aggregates` the two hash
tables, `alloc` and `inuse` the totals. A hash table that is probed over its whole
capacity is a set with a limit, so only the live table keeps its links.
`bucketOf` is any hash of addresses. `Allocate`, `Reallocate` and `Free` are the
three functions of `lmem.c` with the callback at their end; `working` is the guard
of a recorder's functions, during which the callback only reconciles. `sampled` and
`saturated` are histories for the properties. The first adds up what was sampled at
each stack, whatever the profile then did with the sample; the aggregates have to
agree with it (`StacksSeparate`), and their total with its total (`LossIsTold`), unless
the profile says otherwise: together they are `NoSilentLoss`.

Abstractions: bytes count and objects do not, since both are added and taken at the
same places; the countdown and the weights of `should_sample` are random in the
code and a choice in the model; a frame is its symbol, without line and text.

### State and actions of ProfileOwnership

`slot[k]` is the collector slot of `struct lp_runtime` for each kind, `collecting[k]`
the bridge's generation. A call of `start` makes recorder `i` and result `i`: `Start`,
`StartBusy` and `StartFails` are its outcomes, with `start_recorder` and
`lp_runtime_start` in one step, since nothing else runs in between. `Stop` is
`recorder_stop`, `Close` and `FinalizeRecorder` are `recorder_gc` as `__close` and
`__gc`, `FinalizeResult` is `result_gc`, `DeleteRuntime` is `runtime_gc`. A profile is
the generation it was made for.

The Lua VM is external: `held` are the objects the application refers to, a recorder
refers to its result until it is stopped, `Collect` dooms whatever nothing reaches,
and doomed objects are finalized one by one, in any order. That is more than Lua does
(it finalizes the newest first) and no property needs less. `LuaClose` dooms
everything; the runtime's holder, which is older than every recorder, goes last.

Two things are left to the application. It starts nothing while `lua_close` runs
finalizers (`docs/integration.md:32` asks that recorders be stopped before). And no
table with weak keys hands it a recorder between the finalizer of the result and that
of the recorder: `stop` would fill a result that was already finalized, and its
profile would stay.

### State and actions of CpuRecording and CpuProfile

`stack` are the functions that run, `fetched` says that a Lua instruction is past its
safe point, so that it may call. `Tick` appends an event with the published state and
C function; `Fetch`, `Leave` (when the host is back) and `ApiStop` capture `stack` and
record the events into `content`, a profile of `CpuProfile`. `Within` keeps calls and
finalizers out of the gap between two instructions, where the code cannot run them.

`intern_symbol`, `lp_cpu_profile_record`, `Matches` and `Shown` follow the C code;
hash tables that are probed over their whole capacity are sets with a limit. `heard`
remembers what was recorded, with the true stack of each sampled C function as long as
its frame can be told from others: `docs/profiling-model.md:102` to 106 say that a
frame that was left, and a function that was entered again, cannot.

Abstractions: a frame is its function, without line or text; one `lua_State` and no
coroutines, whose events are the subject of `VmProfile`; no event is refused, since
the ring's limit is in `TickTimer` and `VmProfile`; Lua code inside the finalizers of
`lua_close` is not followed; the stack is never blocked (`profilecaptureblocked` is
set during reallocations of the stack only).

### State and actions of ReportFile

`directory` maps names to files, `file[w]` is what call `w` has created: how much was
given to the stream, how much of it has reached the file, mode, descriptor. Each
system call is an action and most have a failing twin; `Crash` may come between any
two, `Exchange` and `ChangeMode` are other programs at the destination. The two formats share
their actions, since both keep data back until they are closed. `Destination` sees
only `ShownDestination` and the outcome of each call: the rename is its one step. What it
promises of permissions is no more than the code does: they are those of the file that
the call found when it began, which another program may have replaced since.

## Runs

| run | instance | shows |
|---|---|---|
| `workers` | 3 threads, table of 2, 3 sessions in 2 slots | the shared signal never meets another disposition, a thread that left or failed to start leaves nothing; no pin on a free slot, no token names two sessions, now or ever, and none changes under a pin |
| `host` | 2 workers, 2 services, 1 slot, 2 sessions of which the second stays, ring of 1, foreign stops | no use after free, no sample of another session, one producer per ring, nothing lost between the last tick and the release; `SessionsSpec` and `LifecycleSpec` |
| `sharing` | 2 slots, 3 sessions of which the third stays, 2 frequencies, failing system calls, no foreign stops | the lock-free pair of count and frequency, every worker's timer, complete roll-backs, timer failures that are reported, and taken with the other counters before a release |
| `live` | 2 services of which 1 is recorded, failing system calls, foreign stops, fairness | every call returns, also from a wait (quiesce, release, roll-back) that finds a reader |
| `thread_timer` | 2 threads, 2 addresses, 2 table entries, 2 arms or 2 expirations | the process survives every disarm, ticks stay with their arm, expirations are kept, failures leave nothing behind |
| `vm_calls` | 2 coroutines, 3 frames on the main thread and 2 elsewhere, 5 frames in all, 1 recording, 1 tick, luaprof called with an open guard | slot and drain flag are right after calls, errors and resumes at any depth; freed coroutines are never named by the slot or the ring |
| `vm_recordings` | 1 coroutine, 2 frames, 2 recordings or 2 expirations | nothing is counted twice, lost, or left for the next recording |
| `memory` | 3 addresses, 2 buckets, 2 live entries, 1 of 2 symbols, 2 aggregates for 3 stacks, words up to 3 | links, sums and overflow flags stay right at every limit, a sample is merged or dropped only if the profile says so, and `LiveMapSpec` |
| `report_file` | 2 calls, 2 temporary names, 2 modes, 2 foreign changes | only whole files are ever seen, no temporary file outlives a call that returns, and `DestinationSpec` |
| `recording` | 2 recordings, 1 Lua and 2 C functions, 3 ticks, 2 symbols, 2 aggregates, stacks of 3 | one owner for each profile, active means collected, each tick counted once and in its recording, exported stacks are those sampled |
| `vm_guard`, `vm_stale` | as `vm_recordings` with 1 or 2 recordings, 1 tick | the two findings below |

Two workers are the smallest number with a race between two threads and each has
its handler; a second slot is only needed where sessions share state (`sharing`),
a second session where a slot is reused. The ring of one entry is full
at once. Symmetry of workers and services is used for safety only. The constraints
`StartsAndStops`, `Quiet` and `LastStays` of `MCSkynetHost` drop client calls or
ticks that the run is not about; they never drop a step of a call that began. The
last session is there to be mistaken for an earlier one, or to share with it: its own
drain and stop are those of the sessions before. In `live` the second service is there
because the roll-back of a start waits only for another worker's scan of the targets;
`OneRecorded` of `MCSkynetHost_live` keeps it from being recorded, each service on its
worker, and `w2`, where nothing is recorded, without ticks.
In `WorkerRegistry` a table of two entries for three threads makes registration fail
and lets a second user of the signal come and go around the first.

In `ThreadTimer` two arms give two threads at once or one address twice, and two
expirations of one arm a delivery with an overrun; `FewAtOnce` leaves out both together,
and so does its namesake for two recordings in `vm_recordings`. In `VmProfile` two
frames let a luaprof function be called from Lua, three let that happen under a `pcall`;
a coroutine resumed by the host, by the main thread and by another coroutine are the
three cases of `lua_resume`. `MaxWork` bounds the guards that may already be open when
luaprof is called, which nest only because of the first finding.

In `MemoryProfile` three addresses in two buckets give a chain of two in one bucket and
a third block that finds the table full; two functions, a stack of each and one of both,
with room for one symbol and two aggregates, reach both overflows, and an aggregate with
a lost symbol in it; two heavy samples saturate a word, while a heavy and a light one,
or three light ones, fill it and are still exact (`FewHeavy`: only one stack has heavy
ones; `FewDropped`: a stack that has no aggregate is sampled once). Addresses and
buckets are interchangeable.

In `ReportFile` two calls are the smallest number whose renames compete, and two
foreign changes put a file there and take or chmod it again. In `CpuRecording` two
recordings give one after the other and one of each kind at once; three functions with
room for two symbols, three ticks with room for two aggregates, and a stack of three
under the recorder's own function reach symbol overflow, aggregate overflow and
truncation. The constraint `FewAtOnce` bounds the sum of depth and ticks, not their
combination: it keeps stacks of three with one tick, three ticks at depth one, and
lets a second recording start with one of either.

### Findings

`vm_guard`: a luaprof function that raises an error (a wrong option, no memory) in a
coroutine that no `pcall` protects leaves its work guard open. The error kills the
coroutine, and `lua_resume` does not close the to-be-closed slots of a dead stack;
only `coroutine.close` or `coroutine.wrap` would. `profiler_work_depth` then never
comes back to zero, and every later tick counts as the profiler's own.
`docs/profiling-model.md:162` says the guard is left when an error unwinds the stack.
`WorkIsOverhead` is stated so that it holds with and without such a leak.

`vm_stale`: `lua_setprofilehooks` brings only the current `lua_State` up to date.
When a recording ends, or fails to start, inside a call on the main thread, the main
thread's `profilestate` stays at that C function; when the next recording starts in
a coroutine which the host resumed, a collection the host runs later saves and
republishes the stale value, and ticks in the host are attributed to it, against
what `tests/integration/cpu_sampling_test.c:452` expects. `SlotShowsRunning`, the
same claim while a `lua_State` runs, holds.

### Fairness

`SF(Thread(w))`: a thread that can step again and again does so. It covers three
things the code leaves to the platform: timers count the CPU time of the thread, so
that the ticks they raise leave it time to run between two handlers; a contended
`pthread_mutex` is acquired in the end; and the `sched_yield` loop of
`target_wait_unpinned` sees a moment without readers if there are infinitely many.
`WF(Handler(w))`: a handler that runs is not suspended for ever. Ticks and client
calls are owed nothing.

## Proofs

`TargetLifecycle_proofs` shows, for any sets of slots and holders and any number of
sessions, every property that module states; the run `workers` checks them on an
instance, `TokensDistinct` as a part of `TokensNeverReused`, all but `ReadersExact`:
that the counts are exact is what keeps a pinned slot from being freed. The inductive
invariant adds two facts to types, exact counts and distinct tokens: a pinned slot is
not `FREE` (`FreeIsUnpinned`), since a slot is freed only when its count is zero and the
count is exact; and a slot has a token exactly while it is not `FREE`. Only the
finiteness of the set of holders is needed, because counts are cardinalities.

`SkynetHost_proofs` carries this to the whole host, for any number of workers,
services, targets, ring entries, frequencies and sessions. Its invariant `HInv`
says where threads stand: what `pc` and `loc` say is pinned is what is pinned
(`PinsMatch`), locals name targets where the code uses them as such (`Local`), the
allocated rings are those of the targets that are not `FREE`, and an admitted start
finds a token left. It is proved action by action; reader counts are only integers
in it. Then every step of the host is a step of `TargetLifecycle` or leaves its
variables alone (`StepMaps`), so `Spec => LifecycleSpec`, the protocol's own
invariant holds of the host, and with it that no count is negative (`TypeCorrect`)
and that no pin, of a thread or of a handler, is ever on a target without a ring
(`RingSafety`).

Its second part proves the rest of the host's invariants, again for any constants. That
a ring holds its own VM's events only (`SamplesOwn`) and has one producer
(`OneProducer`) follows from what slots say. A slot, the copy of it that a handler took,
and the slot a thread is about to publish name a session that was opened, and that
session's VM while the target still has the token (`Sound`); tokens only grow, so a
reused target is never mistaken for the one a stale slot means. A slot names nothing
while its worker changes services or its session is being set up (`Withdrawn`), and a
service runs on one worker at a time (`RunsOnce`), which is skynet's promise and in the
model the guard of a dispatch. That the counts are exact when `host_lock` is free
(`CountsAgree`) needs them at every step before which the lock is held: a start has made
its target `ACTIVE` and not counted it (`AddingSession`), a rollback or quiesce has
taken one out that is still counted (`DroppingSession`). `sync_worker_timer` reads these
counts without the lock, and `TimersFollow` says that it does not matter: as long as the
worker runs an `ACTIVE` session's service the count is not zero and the frequency does
not change, so what it loads is what it needs.

Its third part follows the calls. `PlacesInv` says at which steps each operation can
be, `OwnersInv` whose session a call is about: a started session is its thread's until
it is published, a bridge's token is its own service's, and of two threads only one
opens or stops a session. `ReportInv` uses them for what a service is told of its timer
(`FailuresTold`): a dispatch has not gone past its session's target while it looks for
it, and until the scan of `record_active_timer_failure` has passed that target nothing
is published. A session may be stopped and its counters taken in between, which is why
the argument needs who owns what: only the service's own calls take them.

The last lines of the argument follow one session that is being stopped
(`DrainedWhenFreed`, the property `NothingLost`). `HiddenInv` says whose ticks a call
discards, `AloneInv` that without a foreign stop no other worker runs the service,
`WithheldInv` that from the quiesce's withdrawal on the stopping thread publishes no slot
of the session. `DrainInv` then says, for a thread that is past the wait of its quiesce,
that nobody will add to the session (no handler that pinned the target met it `ACTIVE`,
no scan is about to tell it), and what the drain has emptied so far: the ring after
`next_event` has found no more, the counters after `take_quality`. That a slot is freed
only by a roll-back, which is about a session nobody stops, or by a release, which comes
after both, is the step lemma `FreedWhenDrained`.

With this the host implements the promise to its recorder (`RecorderPromise`, the
refinement of `ProfileSession`): each of its steps opens, closes, feeds, drains or gives
back one session, changes which service a worker runs, or is none of these. Feeding needs
that the slot a handler took still means the session it pinned, opening and giving back
that a target's ring is empty when it is free or not yet published (`EmptyInv`), which
comes from the drain above.

`WorkerRegistry_proofs` shows, for any threads, sessions and capacity, that no
expiration meets another disposition (`SignalSafety`), that the signal is shared
exactly (`SharingExact`), that a thread that is out has nothing (`NothingRemains`), and
that the registry implements `TargetLifecycle`, so that its pins are safe too
(`WorkersPinLive`), and that no token names two sessions (`TokensFresh`): a token is
above all that were issued, and those of the sessions that are over were issued
(`ErasedOver`). The inductive invariant counts the users of the signal as the
threads in the table (`TableExact`), gives a timer only to a thread in the table
(`TimersOwned`), and leaves nothing pending for a thread whose signal is drained
(`ThreadsSound`).

`ThreadTimer_proofs` shows, for any threads, timers, table size and ring capacity,
that no tick ends the process (`NeverKilled`), that the handler is in place exactly
while the table has timers and finds none that was freed (`TableAlwaysExact`), that a
queued tick belongs to its timer's present arm and thread (`TicksStayOwn`), and that
every way out of `arm` and `disarm` leaves one running timer or nothing
(`FailuresLeaveNothing`). Between two steps of `arm` or `disarm` only the timer they
work on may disagree with the table, the thread and the kernel (`OthersAgree`);
`TargetSound` says how far it is. `TicksAreOwn` needs `TargetQuiet`: nothing is queued
for a timer that is about to leave the table, because `disarm` leaves its loop only on
an empty queue of a stopped timer. The process survives because a queued tick's timer
is in the table, so the count of users is not zero and the disposition is luaprof's.
The masks are no part of that argument: the process survives even if the host unblocks
the signal during `disarm`. They are part of the next. That every expiration is kept
(`NoneLost`) is a second invariant, `CInv`, on top of the first: the kernel queues one
signal of a timer at most (`OneQueued`), so what waits is none or one and its overrun;
`disarm` works with the signal blocked (`Masked`), so none is delivered to a timer that
is not active any more; and while the timer is about to be stopped, all that is queued
came late (`StopSound`), so the overrun that stopping may clear is within what is
allowed to be missing.

`ReportFile_proofs` shows, for any calls, names, modes and lengths, that a destination
never shows a part of a report (`Whole`), that temporary names are not left behind or
shared (`NoLeftovers`), and that the whole protocol implements `Destination`
(`ImplementsDestination`). Its invariant says that a name in the directory belongs to
the call that made it (`OwnsName`), that a closed stream without a failure has given
everything (`Streams`), and that a file has the mode of what the call found
(`ModesKept`).

`CpuRecording_proofs` shows that every step of `CpuRecording` is a step of
`ProfileOwnership` (`CpuRecordingOwns`), and for any number of recordings that every
profile has one owner (`ProfilesOwned`) and that an active recorder can be stopped
(`ActiveOnesCollected`). The two properties need each other: finalizing a recorder
frees the right profile because its slot still has its generation, and that is so
because no two active recorders share a kind (`OneRecorder`). `SlotShape` and `Fresh`
make a new generation the name of no profile; `LiveIsReached` and `ResultShape` say
that `stop` never fills a result that is finalized; `Closing` makes the slots empty
when the runtime is deleted.

On top of these, for any functions, depths of stacks, ticks and capacities of the
tables, it shows that every tick is accounted for (`TicksAccounted`) and that what is
exported is the stack that was sampled (`StacksExact`). The invariant `DataInv` says
which generation the waiting events belong to (`Ticked`, `Waiting`), that the bottom of
the running stack is still what an event remembers of it (`KnownEvents`, `Suffix`), and
what a profile and the bag of its events have in common (`Booked`): a count of each
state, of each C function as long as no aggregate was lost, and of each exported stack
as long as no symbol was. One event adds one to both sides (`EventBooked`); that the
first frame that matches is the sampled one is `FoundIsExported`. The ownership comes
in where profiles end: a deleted profile takes its events with it, or is not the one
they wait for, since its slot owns that (`EraseKeeps`).

`MemoryProfile_proofs` shows, for any addresses, stacks, buckets, hash of addresses and
capacities, all that the run `memory` checks: types (`Types`), that the buckets and the
free list share out the entries of the live table (`TableIsSound`), that the sums agree
(`SumsDoAgree`), that an aggregate has all samples of one stack and no other's unless
symbols were lost and the total lacks samples exactly when aggregates were lost
(`LossesAreTold`), and that the table implements `LiveMap` (`TableIsMap`). From the last
follows that nothing is in use that the VM has given back (`InUseIsAllocated`). A list
of entries is a sequence without duplicates that follows `next` to its end (`IsList`).
Lemmas say what taking the head, adding a head and passing over an entry do to that
sequence, and that `Chain` is the sequence. The invariant `Inv` says of a profile that
its entries are shared out among such lists (`Table`), that its symbols and aggregates
fit (`SymbolsFit`, `AggregatesFit`), that its sums are those of its entries until one
saturates (`Sound`), that a pointer in the table is a block of the heap (`Allocated`),
and how the profile differs from what was sampled (`Samples`). Each is needed: a
subtraction does not underflow because the entry is part of the sum; a sample fits
because what is in use is at most what was allocated; a sample finds no old entry of its
block, because an address comes back only after its block was freed or moved, and that
was reconciled even during the profiler's own work. Sums over sets and chains are
defined by recursive functions, and what they compute is proved from a minimal
counterexample, which the library's theorem on well-founded orders gives without an
operator as parameter.

`VmProfile_proofs` shows, for any lua_States and functions, stacks of any depth and any
number of recordings and expirations, that the slot shows what the VM runs
(`ShowsRunning`), that the timer never names a freed lua_State (`NamesAlive`) and its
queue never one that went back to its host (`QueueNamed`), that a queued event is
requested (`RequestsQueued`), that every expiration delivered or discarded is counted
once (`NoneUncounted`), and that the timer drains exactly while work is open
(`WorkHidden`). What a state promises depends on the calls left in `todo`, so the
invariant `Inv` is made of small automata that read `todo`: `Run(T, todo, a, e)` says
that the automaton with the steps `T`, started in `a`, reads all of `todo` and ends in
`e`; each aspect asks for an `a` that fits the state and an `e` that is fit for an idle
VM. A step of the VM takes the first call off and moves `a` along one step of the
automaton; a primitive, or a call that puts others in front of the rest, is a new word
for which a run is shown. The aspects are the recorder (`RecorderInv`: how far a start
or a stop has come), the slot (`SlotInv`: how much of a publication has reached the
timer), the names (`NamesInv`: what the slot, the queue and `profilethread` may name,
and what nothing left in `todo` frees), the stacks (`ShapeInv`: of each frame whether it
is attached, a GC step, a luaprof function, and whether what its guard saved is what the
frames below run; and which lua_State is shown as it runs), and the work (`LedgerInv`:
how much open work no guard on a stack accounts for, whose topmost guard the next return
takes off its stack, and whether the timer drains because it has just been made). They
need each other in one direction only: `ShapeInv` says that a frame is there for a call
that needs one, without which types are not kept; `RecorderInv` says that ticks come
only while there is a timer; `SlotInv` and `NamesInv` give that a collection never meets
a name that is still in use; `LedgerInv` rests on what `RecorderInv` says of when a
timer is there and armed, and on the frames of `ShapeInv`. The ledger counts down: work
that an error unwound is in the ledger before its guard's close is called, so that
`profiler_work_depth` is never below the guards still on a stack. It is at least their
number and not equal to it, because the leak of the run `vm_guard` is real; with
equality the invariant would be false. `ShowsRunning` is where they meet: with nothing
left to call, each automaton is in a state in which it may end.

Model-checked only: the liveness property `CallsReturn` of the host, which is beyond the
prover. Proved and not run: `ReadersExact`, and the type invariants of
`TargetLifecycle`, `WorkerRegistry`, `SkynetHost`, `ThreadTimer`, `VmProfile`,
`ReportFile` and `ProfileOwnership`.

## Not modelled

- `lua_symbols.c`: one walk over the loaded modules with no state that outlives it. Of
  several names it keeps the best it meets (`docs/profiling-model.md:134`); which it
  meets depends on the order of `lua_next` where the limit of depth or of tables cuts
  the walk, and that order is the Lua VM's.
- Reading ELF files (`native_symbol.c`), the encoding of the protobuf messages with
  their string and mapping tables, `dlsym` (`skynet_backend.c`), and the flame graph
  converter: data conversion without a protocol.
- Options, the tables that `stats` returns, and the accessors of samples: they read
  what the models hold.
- Of the patches, the compiler changes, `lua_getprofilestate`, and the variants for
  Lua 5.4.6 and 5.5.0, which change the same call sites.
- Two numbers: overrun counts of the Skynet host, which are added where its other
  counters are, and the wrap of 64-bit generations and tokens, which no run reaches.
