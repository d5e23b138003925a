------------------------ MODULE WorkerRegistry_proofs ------------------------
(***************************************************************************)
(* Proofs about WorkerRegistry, for any number of workers, any table size  *)
(* and any number of sessions.                                             *)
(***************************************************************************)
EXTENDS WorkerRegistry, TargetLifecycle_proofs

\* A step of the workers does to the sessions what TargetLifecycle allows.
LEMMA StepImplements == WorkerTypeOK /\ [WorkerNext]_allVars => [Next]_vars
<1> SUFFICES ASSUME WorkerTypeOK, [WorkerNext]_allVars PROVE [Next]_vars
  OBVIOUS
<1>1. CASE Sessions
  BY <1>1 DEF Sessions, Next
<1>2. CASE \E w \in Workers : Start(w)
  BY <1>2 DEF Start, Allocate, AllocateFails, Acquire, AcquireFails, CheckMask,
     CreateTimer, StartFails, targetVars, vars
<1>3. ASSUME NEW w \in Workers, Dispatch(w) PROVE [Next]_vars
  <2>1. CASE dispatch_enter(w) \/ dispatch_leave(w) \/ FindNothing(w)
    BY <2>1 DEF dispatch_enter, dispatch_leave, Withdraw, FindNothing, targetVars, vars
  <2>2. CASE \E t \in Targets : PinHandle(w, t)
    BY <2>2, WorkersAssumption DEF PinHandle, Next
  <2>3. CASE Publish(w)
    BY <2>3, WorkersAssumption DEF Publish, Next
  <2> QED
    BY <1>3, <2>1, <2>2, <2>3 DEF Dispatch
<1>4. ASSUME NEW w \in Workers, Signal(w) PROVE [Next]_vars
  <2>1. CASE Expire(w) \/ Deliver(w) \/ HandlerSkips(w)
    BY <2>1 DEF Expire, Deliver, HandlerSkips, targetVars, vars
  <2>2. CASE HandlerPins(w)
    <3>1. Pin(w, slot[w], Pinnable) /\ slot[w] \in Targets
      BY <2>2 DEF HandlerPins, Sampled, WorkerTypeOK
    <3> QED
      BY <3>1, WorkersAssumption DEF Next
  <2>3. CASE HandlerReturns(w)
    BY <2>3, WorkersAssumption DEF HandlerReturns, Next
  <2> QED
    BY <1>4, <2>1, <2>2, <2>3 DEF Signal
<1>5. CASE \E w \in Workers : Stop(w)
  BY <1>5 DEF Stop, Block, DeleteTimer, Drain, Leave, targetVars, vars
<1>6. CASE UNCHANGED allVars
  BY <1>6 DEF allVars, targetVars, vars
<1> QED
  BY <1>1, <1>2, <1>3, <1>4, <1>5, <1>6 DEF WorkerNext, Step

-----------------------------------------------------------------------------
(* The inductive invariant.                                                *)

Registering == {"acquired", "checked", "running", "finding", "publishing",
                "blocked", "deleted", "drained"}

\* A worker is in the table from acquire_signal to release_signal, and nowhere
\* else; the handler is in place exactly while somebody is.
TableExact ==
    /\ \A w \in Workers : w \in registered <=> phase[w] \in Registering
    /\ SignalShared

\* A timer exists while its worker is active or about to delete it, and only
\* then can one of its expirations be queued, or one that is not drained yet.
TimersOwned ==
    /\ \A w \in Workers :
          timer[w] # "none" => phase[w] \in {"running", "finding", "publishing",
                                             "blocked"}
    /\ \A w \in pending :
          phase[w] \in {"running", "finding", "publishing", "blocked", "deleted"}

\* What a thread holds, and why the handler runs only on top of a worker that
\* is active and lets the signal through.
ThreadsSound ==
    /\ \A w \in inherited : phase[w] \in {"out", "allocated", "acquired"}
    /\ \A w \in Workers :
          /\ handler[w] # "idle" => phase[w] = "running"
          /\ slot[w] # NoTarget => phase[w] = "running"
          /\ pin[w] # NoTarget => phase[w] = "publishing" \/ handler[w] = "pinned"
          /\ phase[w] = "publishing" => pin[w] # NoTarget

\* The tokens of the sessions that are over were all issued, and no slot has one:
\* a new session gets a token above every token issued before.
ErasedOver ==
    /\ \A k \in erased : k # 0 /\ k <= next_token
    /\ \A t \in Targets : token[t] \notin erased

WInv ==
    /\ IInv /\ WorkerTypeOK
    /\ TableExact /\ TimersOwned /\ ThreadsSound /\ NoStraySignal
    /\ ErasedOver

\* The workers of the table can be counted.
LEMMA RegisteredFinite ==
    ASSUME NEW S \in SUBSET Workers
    PROVE  IsFiniteSet(S) /\ Cardinality(S) \in Nat
<1>1. IsFiniteSet(S)
  BY HoldersAssumption, WorkersAssumption, FS_Subset
<1> QED
  BY <1>1, FS_CardinalityType

\* One more, and one fewer, user of the signal.
LEMMA AcquireShares ==
    ASSUME registered \subseteq Workers, SignalShared,
           NEW w \in Workers, w \notin registered, acquire_signal(w)
    PROVE  SignalShared' /\ signal_users' \in Nat /\ registered' = registered \cup {w}
<1>1. Cardinality(registered \cup {w}) = Cardinality(registered) + 1
  BY RegisteredFinite, FS_AddElement
<1> QED
  BY <1>1, RegisteredFinite DEF acquire_signal, SignalShared

LEMMA ReleaseShares ==
    ASSUME registered \subseteq Workers, SignalShared,
           NEW w \in registered, release_signal(w)
    PROVE  SignalShared' /\ signal_users' \in Nat /\ registered' = registered \ {w}
<1> DEFINE rest == registered \ {w}
<1>1. /\ Cardinality(registered) \in Nat /\ Cardinality(rest) \in Nat
      /\ IsFiniteSet(rest)
  BY RegisteredFinite
<1>2. Cardinality(registered) = Cardinality(rest) + 1
  <2>1. Cardinality(rest \cup {w}) = Cardinality(rest) + 1
    BY <1>1, FS_AddElement
  <2>2. rest \cup {w} = registered
    OBVIOUS
  <2> QED
    BY <2>1, <2>2
<1>3. Cardinality(rest) = 0 <=> rest = {}
  BY <1>1, FS_EmptySet
<1>4. signal_users' = Cardinality(rest) /\ registered' = rest
  BY <1>1, <1>2 DEF release_signal, SignalShared
<1>5. disposition' = "handler" <=> rest # {}
  <2>1. CASE signal_users = 1
    BY <1>1, <1>2, <1>3, <2>1 DEF release_signal, SignalShared
  <2>2. CASE signal_users # 1
    BY <1>1, <1>2, <1>3, <2>2 DEF release_signal, SignalShared
  <2> QED
    BY <2>1, <2>2
<1> QED
  BY <1>1, <1>4, <1>5 DEF SignalShared

LEMMA InitWInv == WorkerInit => WInv
<1> SUFFICES ASSUME WorkerInit PROVE WInv
  OBVIOUS
<1>1. IInv
  BY InitIInv DEF WorkerInit
<1>2. WorkerTypeOK
  BY <1>1 DEF IInv, WorkerInit, WorkerTypeOK, Phases
<1>3. TableExact
  BY FS_EmptySet DEF WorkerInit, TableExact, SignalShared, Registering
<1>4. TimersOwned /\ ThreadsSound /\ NoStraySignal /\ ErasedOver
  BY WorkersAssumption DEF WorkerInit, Init, TimersOwned, ThreadsSound, NoStraySignal,
     ErasedOver
<1> QED
  BY <1>1, <1>2, <1>3, <1>4 DEF WInv

\* What a step has to be shown to preserve, the sessions being TargetLifecycle's.
Kept == WorkerTypeOK' /\ TableExact' /\ TimersOwned' /\ ThreadsSound' /\ NoStraySignal'

\* A step of worker w that leaves the signal alone keeps the table exact when it
\* leaves the registration of w alone too.
LEMMA TableKept ==
    ASSUME WInv, NEW w \in Workers, NEW p \in Phases, Goto(w, p),
           UNCHANGED signalVars, p \in Registering <=> phase[w] \in Registering
    PROVE  TableExact'
  BY DEF WInv, TableExact, SignalShared, Goto, signalVars, WorkerTypeOK

LEMMA StartKeeps ==
    ASSUME WInv, TypeOK', erased' \subseteq Nat, NEW w \in Workers, Start(w)
    PROVE  Kept
<1> USE DEF WInv, At, Goto
<1>1. CASE Allocate(w) \/ AllocateFails(w) \/ AcquireFails(w) \/ CheckMask(w)
  <2> USE DEF signalVars, WorkerTypeOK, NoStraySignal
  <2>1. WorkerTypeOK' /\ NoStraySignal'
    <3>1. CASE Allocate(w) \/ CheckMask(w)
      BY <3>1 DEF Allocate, CheckMask, Phases
    <3>2. CASE AllocateFails(w) \/ AcquireFails(w)
      <4>1. /\ host_failed' = TRUE /\ phase' = [phase EXCEPT ![w] = "out"]
            /\ UNCHANGED <<inherited, signalVars, timer, pending, slot, handler, stray>>
        BY <3>2 DEF AllocateFails, AcquireFails, GiveUp
      <4> QED
        BY <4>1 DEF Phases
    <3> QED
      BY <1>1, <3>1, <3>2
  <2>2. TableExact'
    BY <1>1, TableKept DEF Allocate, AllocateFails, AcquireFails, CheckMask, GiveUp,
       Phases, Registering
  <2>3. TimersOwned' /\ ThreadsSound'
    BY <1>1, WorkersAssumption DEF Allocate, AllocateFails, AcquireFails, CheckMask,
       GiveUp, targetVars, vars, WorkerTypeOK, TimersOwned, ThreadsSound, Masked
  <2> QED
    BY <2>1, <2>2, <2>3 DEF Kept
<1>2. CASE Acquire(w)
  <2>1. SignalShared' /\ signal_users' \in Nat /\ registered' = registered \cup {w}
    BY <1>2, AcquireShares DEF Acquire, TableExact, Registering, WorkerTypeOK
  <2>2. WorkerTypeOK' /\ NoStraySignal'
    BY <1>2, <2>1 DEF Acquire, acquire_signal, WorkerTypeOK, Phases, NoStraySignal
  <2>3. TableExact'
    BY <1>2, <2>1 DEF Acquire, TableExact, Registering, WorkerTypeOK
  <2>4. TimersOwned' /\ ThreadsSound'
    BY <1>2, WorkersAssumption DEF Acquire, targetVars, vars, WorkerTypeOK, TimersOwned,
       ThreadsSound
  <2> QED
    BY <2>2, <2>3, <2>4 DEF Kept
<1>3. CASE StartFails(w)
  <2>1. SignalShared' /\ signal_users' \in Nat /\ registered' = registered \ {w}
    BY <1>3, ReleaseShares DEF StartFails, TableExact, Registering, WorkerTypeOK
  <2>2. WorkerTypeOK' /\ NoStraySignal'
    BY <1>3, <2>1 DEF StartFails, GiveUp, release_signal, WorkerTypeOK, Phases, NoStraySignal
  <2>3. TableExact'
    BY <1>3, <2>1 DEF StartFails, GiveUp, TableExact, Registering, WorkerTypeOK
  <2>4. TimersOwned' /\ ThreadsSound'
    BY <1>3, WorkersAssumption DEF StartFails, GiveUp, targetVars, vars, WorkerTypeOK,
       TimersOwned, ThreadsSound
  <2> QED
    BY <2>2, <2>3, <2>4 DEF Kept
<1>4. CASE CreateTimer(w)
  <2>1. WorkerTypeOK' /\ NoStraySignal'
    BY <1>4 DEF CreateTimer, Sync, SyncTimer, SyncFails, signalVars, targetVars, vars,
       WorkerTypeOK, Phases, NoStraySignal
  <2>2. TableExact'
    BY <1>4, TableKept DEF CreateTimer, Phases, Registering
  <2>3. TimersOwned' /\ ThreadsSound'
    BY <1>4, WorkersAssumption DEF CreateTimer, Sync, SyncTimer, SyncFails, targetVars,
       vars, WorkerTypeOK, TimersOwned, ThreadsSound
  <2> QED
    BY <2>1, <2>2, <2>3 DEF Kept
<1> QED
  BY <1>1, <1>2, <1>3, <1>4 DEF Start

LEMMA DispatchKeeps ==
    ASSUME WInv, TypeOK', erased' \subseteq Nat, NEW w \in Workers, Dispatch(w)
    PROVE  Kept
<1> USE DEF WInv, At, Goto
<1>1. CASE dispatch_enter(w) \/ dispatch_leave(w) \/ FindNothing(w)
  <2>1. WorkerTypeOK' /\ NoStraySignal'
    <3> USE DEF signalVars, WorkerTypeOK, NoStraySignal, Phases
    <3>1. CASE FindNothing(w)
      BY <3>1 DEF FindNothing
    <3>2. ASSUME NEW p \in {"finding", "running"}, Withdraw(w, p)
          PROVE  WorkerTypeOK' /\ NoStraySignal'
      <4>1. CASE SyncTimer(w)
        BY <3>2, <4>1 DEF Withdraw, SyncTimer
      <4>2. CASE SyncFails(w)
        BY <3>2, <4>2 DEF Withdraw, SyncFails
      <4> QED
        BY <3>2, <4>1, <4>2 DEF Withdraw, Sync
    <3> QED
      BY <1>1, <3>1, <3>2 DEF dispatch_enter, dispatch_leave
  <2>2. TableExact'
    BY <1>1, TableKept DEF dispatch_enter, dispatch_leave, Withdraw, FindNothing, Phases,
       Registering
  <2>3. TimersOwned' /\ ThreadsSound'
    BY <1>1, WorkersAssumption DEF dispatch_enter, dispatch_leave, Withdraw, FindNothing,
       Sync, SyncTimer, SyncFails, targetVars, vars, WorkerTypeOK, TimersOwned, ThreadsSound
  <2> QED
    BY <2>1, <2>2, <2>3 DEF Kept
<1>2. ASSUME NEW t \in Targets, PinHandle(w, t) PROVE Kept
  <2>1. WorkerTypeOK' /\ NoStraySignal'
    BY <1>2 DEF PinHandle, signalVars, WorkerTypeOK, Phases, NoStraySignal
  <2>2. TableExact'
    BY <1>2, TableKept DEF PinHandle, Phases, Registering
  <2>3. TimersOwned' /\ ThreadsSound'
    BY <1>2, WorkersAssumption, NoTargetAssumption DEF PinHandle, Pin, WorkerTypeOK, TypeOK,
       TimersOwned, ThreadsSound
  <2> QED
    BY <2>1, <2>2, <2>3 DEF Kept
<1>3. CASE Publish(w)
  <2>1. pin[w] \in Targets
    BY <1>3, WorkersAssumption DEF Publish, ThreadsSound, WorkerTypeOK, TypeOK
  <2>2. WorkerTypeOK' /\ NoStraySignal'
    BY <1>3, <2>1 DEF Publish, signalVars, WorkerTypeOK, Phases, NoStraySignal
  <2>3. TableExact'
    BY <1>3, TableKept DEF Publish, Phases, Registering
  <2>4. TimersOwned' /\ ThreadsSound'
    BY <1>3, WorkersAssumption DEF Publish, Unpin, WorkerTypeOK, TypeOK, TimersOwned,
       ThreadsSound
  <2> QED
    BY <2>2, <2>3, <2>4 DEF Kept
<1> QED
  BY <1>1, <1>2, <1>3 DEF Dispatch

\* An expiration only reaches a worker that is active, hence registered, hence
\* with the handler in place.
LEMMA DeliverySafe ==
    ASSUME WInv, NEW w \in Workers, Deliver(w)
    PROVE  phase[w] = "running" /\ disposition = "handler"
<1>1. phase[w] = "running"
  BY DEF WInv, Deliver, TimersOwned, Masked
<1>2. registered # {}
  BY <1>1 DEF WInv, TableExact, Registering
<1> QED
  BY <1>1, <1>2 DEF WInv, TableExact, SignalShared

LEMMA SignalKeeps ==
    ASSUME WInv, TypeOK', erased' \subseteq Nat, NEW w \in Workers, Signal(w)
    PROVE  Kept
<1> USE DEF WInv
<1>1. UNCHANGED <<phase, inherited, signalVars, host_failed, timer, slot>>
  BY DEF Signal, Expire, Deliver, HandlerPins, HandlerSkips, HandlerReturns
<1>2. TableExact'
  BY <1>1 DEF TableExact, SignalShared, signalVars
<1>3. CASE Expire(w)
  BY <1>1, <1>2, <1>3, WorkersAssumption DEF Expire, Kept, signalVars, targetVars, vars,
     WorkerTypeOK, TimersOwned, ThreadsSound, NoStraySignal
<1>4. CASE Deliver(w)
  <2>1. /\ phase[w] = "running" /\ UNCHANGED <<stray, pin>>
        /\ pending' = pending \ {w}
        /\ handler' = [handler EXCEPT ![w] = "entered"]
    BY <1>4, DeliverySafe DEF Deliver, targetVars, vars
  <2>2. WorkerTypeOK' /\ NoStraySignal'
    BY <1>1, <2>1 DEF signalVars, WorkerTypeOK, NoStraySignal
  <2>3. TimersOwned' /\ ThreadsSound'
    BY <1>1, <1>4, <2>1, WorkersAssumption DEF Deliver, WorkerTypeOK, TimersOwned,
       ThreadsSound
  <2> QED
    BY <1>2, <2>2, <2>3 DEF Kept
<1>5. CASE HandlerPins(w)
  BY <1>1, <1>2, <1>5, WorkersAssumption DEF HandlerPins, Pin, Kept, signalVars,
     WorkerTypeOK, TypeOK, TimersOwned, ThreadsSound, NoStraySignal
<1>6. CASE HandlerSkips(w)
  <2>1. pin[w] = NoTarget
    BY <1>6 DEF HandlerSkips, ThreadsSound
  <2> QED
    BY <1>1, <1>2, <1>6, <2>1, WorkersAssumption DEF HandlerSkips, Kept, signalVars,
       targetVars, vars, WorkerTypeOK, TypeOK, TimersOwned, ThreadsSound, NoStraySignal
<1>7. CASE HandlerReturns(w)
  BY <1>1, <1>2, <1>7, WorkersAssumption DEF HandlerReturns, Unpin, Kept, signalVars,
     WorkerTypeOK, TypeOK, TimersOwned, ThreadsSound, NoStraySignal
<1> QED
  BY <1>3, <1>4, <1>5, <1>6, <1>7 DEF Signal

LEMMA StopKeeps ==
    ASSUME WInv, TypeOK', erased' \subseteq Nat, NEW w \in Workers, Stop(w)
    PROVE  Kept
<1> USE DEF WInv, At, Goto
<1>1. CASE Block(w) \/ DeleteTimer(w) \/ Drain(w)
  <2>1. WorkerTypeOK' /\ NoStraySignal'
    BY <1>1 DEF Block, DeleteTimer, Drain, signalVars, targetVars, vars, WorkerTypeOK,
       Phases, NoStraySignal
  <2>2. TableExact'
    BY <1>1, TableKept DEF Block, DeleteTimer, Drain, Phases, Registering
  <2>3. TimersOwned' /\ ThreadsSound'
    BY <1>1, WorkersAssumption DEF Block, DeleteTimer, Drain, targetVars, vars,
       WorkerTypeOK, TimersOwned, ThreadsSound
  <2> QED
    BY <2>1, <2>2, <2>3 DEF Kept
<1>2. CASE Leave(w)
  <2>1. SignalShared' /\ signal_users' \in Nat /\ registered' = registered \ {w}
    BY <1>2, ReleaseShares DEF Leave, TableExact, Registering, WorkerTypeOK
  <2>2. WorkerTypeOK' /\ NoStraySignal'
    BY <1>2, <2>1 DEF Leave, release_signal, WorkerTypeOK, Phases, NoStraySignal
  <2>3. TableExact'
    BY <1>2, <2>1 DEF Leave, TableExact, Registering, WorkerTypeOK
  <2>4. TimersOwned' /\ ThreadsSound'
    BY <1>2, WorkersAssumption DEF Leave, targetVars, vars, WorkerTypeOK, TimersOwned,
       ThreadsSound
  <2> QED
    BY <2>2, <2>3, <2>4 DEF Kept
<1> QED
  BY <1>1, <1>2 DEF Stop

LEMMA SessionsKeep ==
    ASSUME WInv, TypeOK', erased' \subseteq Nat, Sessions
    PROVE  Kept
<1>1. \A w \in Workers : pin'[w] = pin[w]
  BY WorkersAssumption DEF WInv, Sessions, Pin, Unpin, Activate, Quiesce, Reclaim, Free,
     IInv, TypeOK
<1>2. UNCHANGED workerVars
  BY DEF Sessions
<1> QED
  BY <1>1, <1>2 DEF WInv, Kept, workerVars, signalVars, WorkerTypeOK, TableExact,
     SignalShared, TimersOwned, ThreadsSound, NoStraySignal

\* What a step does to a token: it stays, is erased, or is the next one.
LEMMA TokenStep ==
    ASSUME IInv, [Next]_vars
    PROVE  /\ next_token' \in Nat /\ next_token' >= next_token
           /\ \A t \in Targets : token'[t] \in {0, token[t], next_token + 1}
<1> USE DEF IInv, TypeOK
<1>1. CASE \E t \in Targets : Activate(t)
  BY <1>1 DEF Activate
<1>2. CASE \E t \in Targets : Free(t)
  BY <1>2 DEF Free
<1>3. CASE UNCHANGED <<token, next_token>>
  BY <1>3
<1> QED
  BY <1>1, <1>2, <1>3 DEF Next, Pin, Unpin, Quiesce, Reclaim, vars

\* Whatever a step does to the sessions, the history stays below the counter and
\* apart from the live tokens.
LEMMA ErasedKept ==
    ASSUME IInv, erased \subseteq Nat, ErasedOver, [Next]_vars,
           Remember \/ UNCHANGED <<token, next_token, erased>>
    PROVE  erased' \subseteq Nat /\ ErasedOver'
<1> DEFINE gone == {token[t] : t \in {s \in Targets :
                       token[s] # 0 /\ \A r \in Targets : token'[r] # token[s]}}
<1>1. CASE UNCHANGED <<token, next_token, erased>>
  BY <1>1 DEF ErasedOver
<1>2. CASE Remember
  <2>1. erased' = erased \cup gone
    BY <1>2 DEF Remember
  <2>2. \A k \in gone : k \in Nat /\ k # 0 /\ k <= next_token
    BY DEF IInv, TypeOK, TokensDistinct
  <2>3. \A t \in Targets : token'[t] \notin gone
    OBVIOUS
  <2> HIDE DEF gone
  <2>4. next_token \in Nat
    BY DEF IInv, TypeOK
  <2>5. \A k \in erased' : k \in Nat /\ k # 0 /\ k <= next_token'
    BY <2>1, <2>2, <2>4, TokenStep DEF ErasedOver
  <2>6. ASSUME NEW t \in Targets PROVE token'[t] \notin erased
    <3>1. 0 \notin erased /\ next_token + 1 \notin erased /\ token[t] \notin erased
      BY <2>4 DEF ErasedOver
    <3> QED
      BY <3>1, TokenStep
  <2> QED
    BY <2>1, <2>3, <2>5, <2>6 DEF ErasedOver
<1> QED
  BY <1>1, <1>2

LEMMA NextWInv == WInv /\ [WorkerNext]_allVars => WInv'
<1> SUFFICES ASSUME WInv, [WorkerNext]_allVars PROVE WInv'
  OBVIOUS
<1>1. IInv' /\ TypeOK' /\ [Next]_vars
  BY StepImplements, NextIInv DEF WInv, IInv
<1>2. erased' \subseteq Nat /\ ErasedOver'
  <2>1. Remember \/ UNCHANGED <<token, next_token, erased>>
    BY DEF WorkerNext, allVars, targetVars, vars
  <2> QED
    BY <1>1, <2>1, ErasedKept DEF WInv, WorkerTypeOK
<1>3. CASE UNCHANGED allVars
  BY <1>1, <1>2, <1>3 DEF WInv, allVars, targetVars, vars, workerVars, signalVars,
     WorkerTypeOK, TableExact, SignalShared, TimersOwned, ThreadsSound, NoStraySignal
<1>4. CASE Step
  BY <1>1, <1>2, <1>4, SessionsKeep, StartKeeps, DispatchKeeps, SignalKeeps, StopKeeps
  DEF Step, WInv, Kept
<1> QED
  BY <1>3, <1>4 DEF WorkerNext

THEOREM WorkerInvariance == WorkerSpec => []WInv
  BY InitWInv, NextWInv, PTL DEF WorkerSpec

-----------------------------------------------------------------------------

\* Every behaviour of the workers is one of the lifecycle protocol, so that what
\* is proved of TargetLifecycle holds whatever threads start, sample and leave.
THEOREM WorkersImplementLifecycle == WorkerSpec => Spec
<1>1. WorkerInit => Init
  BY DEF WorkerInit
<1>2. WInv /\ [WorkerNext]_allVars => [Next]_vars
  BY StepImplements DEF WInv
<1> QED
  BY <1>1, <1>2, WorkerInvariance, PTL DEF WorkerSpec, Spec

\* A pinned slot is never free, whoever pins it.
THEOREM WorkersPinLive == WorkerSpec => []PinnedIsLive
  BY WorkersImplementLifecycle, PinSafety, PTL

\* The process survives: no expiration meets any other disposition.
THEOREM SignalSafety == WorkerSpec => []NoStraySignal
  BY WorkerInvariance, PTL DEF WInv

\* The shared signal is installed exactly while a worker is registered.
THEOREM SharingExact == WorkerSpec => []SignalShared
  BY WorkerInvariance, PTL DEF WInv, TableExact

\* A worker that left, or failed to start, leaves nothing behind.
THEOREM NothingRemains == WorkerSpec => []OutIsClean
<1>1. WInv => OutIsClean
  BY DEF WInv, WorkerTypeOK, TableExact, TimersOwned, ThreadsSound, Registering, OutIsClean
<1> QED
  BY <1>1, WorkerInvariance, PTL

\* No token ever names a second session: not at the same time, and not after the
\* session that had it is over.
THEOREM TokensFresh == WorkerSpec => []TokensNeverReused
<1>1. WInv => TokensNeverReused
  BY DEF WInv, IInv, ErasedOver, TokensNeverReused
<1> QED
  BY <1>1, WorkerInvariance, PTL
=============================================================================
