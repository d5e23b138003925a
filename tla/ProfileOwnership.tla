-------------------------- MODULE ProfileOwnership ---------------------------
(***************************************************************************)
(* Who owns a profile, from the start of a recording to the end of its     *)
(* VM (src/src/runtime.c and the Lua objects of src/src/lua_module.c).     *)
(*                                                                         *)
(* A runtime has one collector slot for each kind of recording.  start     *)
(* creates a recorder and, with it, the result that stop will return, so   *)
(* that stop allocates nothing; stop moves the profile from the slot to    *)
(* that result.  Recorders and results are Lua objects: the application    *)
(* may stop a recorder, close it, forget either of them, or end the VM at  *)
(* any time, and the collector runs their finalizers some time later, in   *)
(* any order here (Lua runs the newest first; nothing depends on it).      *)
(*                                                                         *)
(* Two things are assumed of the application: it starts no recording       *)
(* while lua_close runs finalizers, which docs/integration.md asks more    *)
(* generally, and it does not get at a recorder between two finalizers     *)
(* when the recorder's result has already been finalized (a table with     *)
(* weak keys could give it away).                                          *)
(***************************************************************************)
EXTENDS Naturals

CONSTANT MaxRecordings  \* bound: calls of start

ASSUME RecordingsAssumption == MaxRecordings \in Nat

Kinds == {"cpu", "memory"}
Recordings == 1 .. MaxRecordings
Things == {"recorder", "result"}

NoGeneration == 0
NoProfile == 0      \* NULL

VARIABLES
    vm,                 \* open, closing (in lua_close) or closed
    next_generation,    \* of the runtime
    slot,               \* collectors: each kind's active, generation and profile
    collecting,         \* the generation the bridge collects for, of each kind
    profiles,           \* the profiles allocated, named by their generation
    made,               \* calls of start; a call makes one recorder and one result
    recorder,           \* lp_lua_recorder and its second uservalue
    result,             \* lp_lua_result
    life,               \* of each object: none, live, doomed (to finalize), final
    held                \* the recorders and results the application refers to

runtime == <<next_generation, slot, collecting, profiles>>
objects == <<made, recorder, result, life, held>>
ownerVars == <<vm, runtime, objects>>

EmptySlot == [active |-> FALSE, generation |-> NoGeneration, profile |-> NoProfile]
NewRecorder(k) == [kind |-> k, generation |-> NoGeneration, active |-> FALSE,
                   result |-> TRUE]
NewResult == [generation |-> NoGeneration, profile |-> NoProfile]

OwnerInit ==
    /\ vm = "open"
    /\ next_generation = 0
    /\ slot = [k \in Kinds |-> EmptySlot]
    /\ collecting = [k \in Kinds |-> NoGeneration]
    /\ profiles = {}
    /\ made = 0
    /\ recorder = [i \in Recordings |-> NewRecorder("cpu")]
    /\ result = [i \in Recordings |-> NewResult]
    /\ life = [t \in Things |-> [i \in Recordings |-> "none"]]
    /\ held = [t \in Things |-> {}]

\* A recorder refers to its result until it is stopped.
Reachable(t, i) ==
    \/ i \in held[t]
    \/ t = "result" /\ recorder[i].result /\ i \in held["recorder"]

------------------------------------------------------------------------------
(* start_recorder and lp_runtime_start.                                     *)

\* The recorder and its result.
Create(k) ==
    /\ vm = "open" /\ made < MaxRecordings
    /\ made' = made + 1
    /\ life' = [t \in Things |-> [life[t] EXCEPT ![made'] = "live"]]
    /\ UNCHANGED <<vm, result>>

Start(k) ==
    /\ Create(k)
    /\ ~slot[k].active
    /\ next_generation' = next_generation + 1
    /\ slot' = [slot EXCEPT ![k] = [active |-> TRUE, generation |-> next_generation',
                                    profile |-> next_generation']]
    /\ profiles' = profiles \cup {next_generation'}
    /\ collecting' = [collecting EXCEPT ![k] = next_generation']
    /\ recorder' = [recorder EXCEPT ![made'] =
            [NewRecorder(k) EXCEPT !.generation = next_generation', !.active = TRUE]]
    /\ held' = [held EXCEPT !["recorder"] = @ \cup {made'}]

\* LP_ERR_BUSY
StartBusy(k) ==
    /\ Create(k)
    /\ slot[k].active
    /\ recorder' = [recorder EXCEPT ![made'] = NewRecorder(k)]
    /\ UNCHANGED <<runtime, held>>

\* Mutant: the slot is not cleared when the host refuses.
mutant_failed_start(k) ==
    /\ Create(k)
    /\ ~slot[k].active
    /\ next_generation' = next_generation + 1
    /\ slot' = [slot EXCEPT ![k].active = TRUE]
    /\ recorder' = [recorder EXCEPT ![made'] = NewRecorder(k)]
    /\ UNCHANGED <<collecting, profiles, held>>

\* There is no memory for the profile, or the host cannot start; the profile is
\* deleted again and the slot cleared.
StartFails(k) ==
    /\ Create(k)
    /\ ~slot[k].active
    /\ next_generation' = next_generation + 1
    /\ slot' = [slot EXCEPT ![k] = EmptySlot]
    /\ recorder' = [recorder EXCEPT ![made'] = NewRecorder(k)]
    /\ UNCHANGED <<collecting, profiles, held>>

------------------------------------------------------------------------------
(* recorder_stop, recorder_gc, result_gc and lp_runtime_stop.               *)

\* lp_runtime_stop succeeds: neither LP_ERR_INACTIVE nor LP_ERR_STALE.
Stoppable(i) ==
    /\ recorder[i].active
    /\ slot[recorder[i].kind].active
    /\ slot[recorder[i].kind].generation = recorder[i].generation

\* stop_collector ends what the bridge collects for this generation, if it still does.
EndCollector(i) ==
    LET k == recorder[i].kind
    IN  /\ collecting' = IF collecting[k] = recorder[i].generation
                         THEN [collecting EXCEPT ![k] = NoGeneration]
                         ELSE collecting
        /\ slot' = [slot EXCEPT ![k] = EmptySlot]

\* The application has the recorder at hand; or the finalizer of an object of its own,
\* newer than both, stops the recorder before they are finalized.
Stop(i) ==
    /\ \/ Reachable("recorder", i) /\ held' = [held EXCEPT !["result"] = @ \cup {i}]
       \/ life["recorder"][i] = "doomed" /\ life["result"][i] = "doomed"
            /\ UNCHANGED held
    /\ recorder[i].result /\ Stoppable(i)
    /\ EndCollector(i)
    /\ result' = [result EXCEPT ![i] = [generation |-> recorder[i].generation,
                                        profile |-> slot[recorder[i].kind].profile]]
    /\ recorder' = [recorder EXCEPT ![i].active = FALSE, ![i].result = FALSE]
    /\ UNCHANGED <<vm, next_generation, profiles, made, life>>

\* Mutant: what was recorded is not disposed.
mutant_no_dispose(i) ==
    /\ IF Stoppable(i)
       THEN EndCollector(i)
       ELSE UNCHANGED <<collecting, slot>>
    /\ recorder' = [recorder EXCEPT ![i].active = FALSE]
    /\ UNCHANGED profiles

\* recorder_gc: an active recording is stopped into a result of its own, which is
\* disposed at once.
Discard(i) ==
    /\ IF Stoppable(i)
       THEN /\ EndCollector(i)
            /\ profiles' = profiles \ {slot[recorder[i].kind].profile}
       ELSE UNCHANGED <<collecting, slot, profiles>>
    /\ recorder' = [recorder EXCEPT ![i].active = FALSE]

\* The __close of a recorder
Close(i) ==
    /\ Reachable("recorder", i)
    /\ Discard(i)
    /\ UNCHANGED <<vm, next_generation, made, result, life, held>>

\* The __gc of a recorder
FinalizeRecorder(i) ==
    /\ life["recorder"][i] = "doomed"
    /\ life' = [life EXCEPT !["recorder"][i] = "final"]
    /\ Discard(i)
    /\ UNCHANGED <<vm, next_generation, made, result, held>>

\* result_gc, lp_result_dispose
FinalizeResult(i) ==
    /\ life["result"][i] = "doomed"
    /\ life' = [life EXCEPT !["result"][i] = "final"]
    /\ profiles' = profiles \ {result[i].profile}
    /\ result' = [result EXCEPT ![i].profile = NoProfile]
    /\ UNCHANGED <<vm, next_generation, slot, collecting, made, recorder, held>>

------------------------------------------------------------------------------
(* The Lua VM (external), and runtime_gc with lp_runtime_delete.            *)

Forget(t, i) ==
    /\ i \in held[t]
    /\ held' = [held EXCEPT ![t] = @ \ {i}]
    /\ UNCHANGED <<vm, runtime, made, recorder, result, life>>

\* A collection finds what cannot be reached; finalizers run later, one by one.
Collect ==
    /\ \E t \in Things, i \in Recordings : life[t][i] = "live" /\ ~Reachable(t, i)
    /\ life' = [t \in Things |-> [i \in Recordings |->
            IF life[t][i] = "live" /\ ~Reachable(t, i) THEN "doomed" ELSE life[t][i]]]
    /\ UNCHANGED <<vm, runtime, made, recorder, result, held>>

\* lua_close finalizes every object.
LuaClose ==
    /\ vm = "open"
    /\ vm' = "closing"
    /\ life' = [t \in Things |-> [i \in Recordings |->
            IF life[t][i] = "live" THEN "doomed" ELSE life[t][i]]]
    /\ held' = [t \in Things |-> {}]
    /\ UNCHANGED <<runtime, made, recorder, result>>

\* The runtime's holder was made before every recorder and is finalized last.
DeleteRuntime ==
    /\ vm = "closing"
    /\ \A t \in Things, i \in Recordings : life[t][i] # "doomed"
    /\ vm' = "closed"
    /\ collecting' = [k \in Kinds |->
            IF slot[k].active /\ collecting[k] = slot[k].generation
            THEN NoGeneration ELSE collecting[k]]
    /\ profiles' = profiles \ {slot[k].profile : k \in {j \in Kinds : slot[j].active}}
    /\ slot' = [k \in Kinds |-> EmptySlot]
    /\ UNCHANGED <<next_generation, objects>>

OwnerNext ==
    \/ \E k \in Kinds : Start(k) \/ StartBusy(k) \/ StartFails(k)
    \/ \E i \in Recordings : \/ Stop(i) \/ Close(i)
                             \/ FinalizeRecorder(i) \/ FinalizeResult(i)
    \/ \E t \in Things, i \in Recordings : Forget(t, i)
    \/ Collect \/ LuaClose \/ DeleteRuntime

OwnerSpec == OwnerInit /\ [][OwnerNext]_ownerVars

------------------------------------------------------------------------------
(* Properties. *)

\* Every variable keeps the type its declaration states.
OwnerTypeOK ==
    /\ vm \in {"open", "closing", "closed"}
    /\ next_generation \in Nat
    /\ slot \in [Kinds -> [active: BOOLEAN, generation: Nat, profile: Nat]]
    /\ collecting \in [Kinds -> Nat]
    /\ profiles \in SUBSET (Nat \ {NoProfile})
    /\ made \in 0 .. MaxRecordings
    /\ recorder \in [Recordings -> [kind: Kinds, generation: Nat, active: BOOLEAN,
                                    result: BOOLEAN]]
    /\ result \in [Recordings -> [generation: Nat, profile: Nat]]
    /\ life \in [Things -> [Recordings -> {"none", "live", "doomed", "final"}]]
    /\ held \in [Things -> SUBSET Recordings]

\* A profile has exactly one owner, a collector slot or a result, whatever is stopped,
\* closed, forgotten and collected in whatever order: no pointer to a profile that was
\* deleted, no profile that two would delete, none that a finalized object left behind,
\* and none when the VM is gone.  A result the application has keeps its profile.
OneOwner ==
    /\ profiles = ({slot[k].profile : k \in Kinds}
                    \cup {result[i].profile : i \in Recordings}) \ {NoProfile}
    /\ \A j, k \in Kinds : slot[j].profile = slot[k].profile =>
            j = k \/ slot[j].profile = NoProfile
    /\ \A i, j \in Recordings : result[i].profile = result[j].profile =>
            i = j \/ result[i].profile = NoProfile
    /\ \A k \in Kinds, i \in Recordings : slot[k].profile = result[i].profile =>
            slot[k].profile = NoProfile
    /\ \A i \in Recordings : /\ life["result"][i] = "final" =>
                                    result[i].profile = NoProfile
                             /\ i \in held["result"] =>
                                    result[i].profile # NoProfile
    /\ vm = "closed" => profiles = {}

\* A recorder that says it is active runs: its slot, its generation and the host agree,
\* so that stop and the finalizer never meet LP_ERR_INACTIVE or LP_ERR_STALE; and what
\* runs has a recorder that can still end it, so that a kind is never busy for ever.
ActiveIsCollected ==
    /\ \A i \in Recordings : recorder[i].active =>
            /\ Stoppable(i) /\ recorder[i].result
            /\ collecting[recorder[i].kind] = recorder[i].generation
            /\ life["recorder"][i] \in {"live", "doomed"}
    /\ \A k \in Kinds : slot[k].active \/ collecting[k] # NoGeneration =>
            \E i \in Recordings : recorder[i].active /\ recorder[i].kind = k
==============================================================================
