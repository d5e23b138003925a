-------------------------- MODULE ThreadTimer_proofs --------------------------
(***************************************************************************)
(* Proofs about ThreadTimer, for any threads, timers and table size, any   *)
(* number of arms and expirations, and any capacity of the ring.           *)
(***************************************************************************)
EXTENDS ThreadTimer, FiniteSetTheorems, TLAPS

Arming == {"block", "create", "start", "undo"}
Disarming == {"fetch", "stop", "collect", "release"}

\* Whether a timer is in the table, is its thread's active one, is marked active
\* and runs in the kernel is one and the same.
Agrees(t, a) ==
    /\ Acquired(a) <=> activeThread[t] = a
    /\ Acquired(a) <=> timer[a].active
    /\ kernel[a] = IF Acquired(a) THEN "running" ELSE "none"

\* So it is of every timer but the one that arm or disarm is busy with.
OthersAgree ==
    \A t \in Threads, a \in Timers :
        owner[a] = t /\ (pc[t] \in Arming \cup Disarming => target[t] # a)
            => Agrees(t, a)

\* What arm has done to its target so far, and what disarm has still to undo.
TargetSound ==
    \A t \in Threads :
        /\ pc[t] \in Arming \cup Disarming =>
            /\ target[t] \in Timers
            /\ owner[target[t]] = t
            /\ Acquired(target[t])
            /\ ~timer[target[t]].active
        /\ pc[t] \in Arming =>
            /\ activeThread[t] = NoTimer
            /\ kernel[target[t]] = IF pc[t] = "start" THEN "created" ELSE "none"
        /\ pc[t] \in Disarming =>
            /\ activeThread[t] = target[t]
            /\ kernel[target[t]] = "running" => pc[t] \in {"fetch", "stop"}

\* A thread's active timer is its own, and a freed timer has nothing.
OwnersSound ==
    /\ \A t \in Threads : activeThread[t] # NoTimer => owner[activeThread[t]] = t
    /\ \A a \in Timers : owner[a] = NoTimer => ~Acquired(a) /\ kernel[a] = "none"

\* The table and the timers' slots name each other.
SlotsMatch == \A a \in Timers : Acquired(a) => activeTimers[slotOf[a]] = a

\* Nothing is queued for a timer that does not run yet, or that disarm is about to
\* take out of the table.
TargetQuiet ==
    \A t \in Threads : pc[t] \in Arming \cup {"release"} =>
        \A signal \in queue[t] : signal.timer # target[t]

TInv ==
    /\ TypeOK
    /\ OthersAgree /\ TargetSound /\ OwnersSound
    /\ TableExact /\ SlotsMatch
    /\ TicksAreOwn /\ TargetQuiet
    /\ ProcessSurvives

-----------------------------------------------------------------------------
(* What the operations on a timer's own fields leave alone.                *)

\* Whatever a timer's own functions do to it, it stays a timer, and arming and
\* disarming alone decide whether it is active.
Keeps(before, after) == after \in Timer /\ after.active = before.active

LEMMA NewIsTimer == NewTimer \in Timer /\ ~NewTimer.active
  BY DEF NewTimer, Timer, Slot, VmStates

LEMMA OverrunKeeps ==
    ASSUME NEW x \in Timer, NEW overrun \in Nat
    PROVE  Keeps(x, RecordOverrun(x, overrun))
<1>1. x.overrunEvents + 1 \in Nat /\ x.overrunTicks + overrun \in Nat
  BY DEF Timer
<1>2. [x EXCEPT !.overrunEvents = @ + 1, !.overrunTicks = @ + overrun] \in Timer
  BY <1>1 DEF Timer
<1> QED
  BY <1>2 DEF Keeps, RecordOverrun, Timer

LEMMA HandleKeeps ==
    ASSUME NEW x \in Timer, NEW overrun \in Nat
    PROVE  Keeps(x, Handle(x, overrun))
<1> DEFINE counted == RecordOverrun(x, overrun)
<1>1. counted \in Timer /\ counted.active = x.active
  BY OverrunKeeps DEF Keeps
<1> HIDE DEF counted
<1>2. x.slot \in Slot /\ counted.events \in Seq(Slot)
  BY <1>1 DEF Timer
<1>3. Append(counted.events, x.slot) \in Seq(Slot)
  BY <1>2
<1>4. /\ Keeps(x, [counted EXCEPT !.overhead = @ + 1])
      /\ Keeps(x, [counted EXCEPT !.unstable = @ + 1])
      /\ Keeps(x, [counted EXCEPT !.dropped = @ + 1])
      /\ Keeps(x, [counted EXCEPT !.events = Append(@, x.slot)])
  <2>1. /\ counted.overhead + 1 \in Nat /\ counted.unstable + 1 \in Nat
        /\ counted.dropped + 1 \in Nat
    BY <1>1 DEF Timer
  <2>2. Keeps(x, [counted EXCEPT !.overhead = @ + 1])
    BY <1>1, <2>1 DEF Keeps, Timer
  <2>3. Keeps(x, [counted EXCEPT !.unstable = @ + 1])
    BY <1>1, <2>1 DEF Keeps, Timer
  <2>4. Keeps(x, [counted EXCEPT !.dropped = @ + 1])
    BY <1>1, <2>1 DEF Keeps, Timer
  <2>5. Keeps(x, [counted EXCEPT !.events = Append(@, x.slot)])
    BY <1>1, <1>3 DEF Keeps, Timer
  <2> QED
    BY <2>2, <2>3, <2>4, <2>5
<1>5. Keeps(x, x) /\ x.active \in BOOLEAN /\ x.draining \in BOOLEAN
  BY DEF Keeps, Timer
<1>6. Handle(x, overrun) \in {x, [counted EXCEPT !.overhead = @ + 1],
                              [counted EXCEPT !.unstable = @ + 1],
                              [counted EXCEPT !.dropped = @ + 1],
                              [counted EXCEPT !.events = Append(@, x.slot)]}
  BY <1>5 DEF Handle, Attributable, counted
<1> QED
  BY <1>4, <1>5, <1>6

LEMMA DiscardKeeps ==
    ASSUME NEW x \in Timer, NEW overrun \in Nat
    PROVE  Keeps(x, Discard(x, overrun))
<1> DEFINE counted == RecordOverrun(x, overrun)
<1>1. counted \in Timer /\ counted.active = x.active
  BY OverrunKeeps DEF Keeps
<1> HIDE DEF counted
<1>2. counted.dropped + 1 \in Nat
  BY <1>1 DEF Timer
<1>3. Keeps(x, [counted EXCEPT !.dropped = @ + 1])
  BY <1>1, <1>2 DEF Keeps, Timer
<1> QED
  BY <1>3 DEF Discard, counted

LEMMA VmKeeps ==
    ASSUME NEW x \in Timer
    PROVE  /\ Keeps(x, BeginDrain(x)) /\ Keeps(x, EndDrain(x))
           /\ Keeps(x, TakeQuality(x))
           /\ \A slot \in Slot : Keeps(x, CloseSlot(x, slot))
           /\ x.events # <<>> => Keeps(x, TakeEvent(x))
<1>1. x.events \in Seq(Slot) /\ (x.events # <<>> => Tail(x.events) \in Seq(Slot))
  BY DEF Timer
<1>2. Keeps(x, BeginDrain(x)) /\ Keeps(x, EndDrain(x))
  BY DEF Keeps, Timer, BeginDrain, EndDrain
<1>3. Keeps(x, TakeQuality(x))
  BY DEF Keeps, Timer, TakeQuality
<1>4. \A slot \in Slot : Keeps(x, CloseSlot(x, slot))
  BY DEF Keeps, Timer, CloseSlot
<1>5. x.events # <<>> => Keeps(x, TakeEvent(x))
  BY <1>1 DEF Keeps, Timer, TakeEvent
<1> QED
  BY <1>2, <1>3, <1>4, <1>5

\* Expirations and the events taken are numbers.
LEMMA ExpirationsNat ==
    ASSUME NEW x \in Timer
    PROVE  Expirations(x) \in Nat
<1> DEFINE n == Len(x.events)
           d == x.dropped
           u == x.unstable
           o == x.overhead
           r == x.overrunTicks
<1>1. n \in Nat
  <2>1. x.events \in Seq(Slot)
    BY DEF Timer
  <2> HIDE DEF n
  <2>2. n = Len(x.events)
    BY DEF n
  <2> QED
    BY <2>1, <2>2
<1>2. d \in Nat /\ u \in Nat
  BY DEF Timer
<1>3. o \in Nat /\ r \in Nat
  BY DEF Timer
<1>4. Expirations(x) = n + d + u + o + r
  BY DEF Expirations, Deliveries
<1> HIDE DEF n, d, u, o, r
<1>5. n + d + u + o + r \in Nat
  BY <1>1, <1>2, <1>3
<1> QED
  BY <1>4, <1>5

-----------------------------------------------------------------------------
(* Types.                                                                  *)

\* Taking a signal off the queue of a thread that works on a timer.
LEMMA TakeSignalTyped ==
    ASSUME TypeOK, NEW t \in Threads, target[t] \in Timers,
           NEW signal \in queue[t], TakeSignal(t, signal)
    PROVE  /\ timer' \in [Timers -> Timer]
           /\ queue' \in [Threads -> SUBSET Signal]
           /\ \A a \in Timers : timer'[a].active = timer[a].active
<1>1. signal \in Signal /\ signal.overrun \in Nat
  BY DEF TypeOK, Signal
<1>2. Keeps(timer[target[t]], Discard(timer[target[t]], signal.overrun))
  BY <1>1, DiscardKeeps DEF TypeOK
<1>3. queue' \in [Threads -> SUBSET Signal]
  BY DEF TypeOK, TakeSignal
<1>4. /\ timer' \in [Timers -> Timer]
      /\ \A a \in Timers : timer'[a].active = timer[a].active
  BY <1>2 DEF TypeOK, TakeSignal, Keeps
<1> QED
  BY <1>3, <1>4

\* The VM's own use of its timer.
LEMMA UseTyped ==
    ASSUME TypeOK, NEW t \in Threads, NEW a \in Timers,
           Publish(t, a) \/ SetDraining(t, a) \/ Drain(t, a)
    PROVE  \E x \in Timer, n \in Nat :
              /\ Use(t, a, x) /\ Keeps(timer[a], x)
              /\ taken' = [taken EXCEPT ![a] = @ + n]
<1>1. timer[a] \in Timer /\ taken = [taken EXCEPT ![a] = @ + 0]
  BY DEF TypeOK
<1>2. CASE Publish(t, a)
  <2>1. PICK slot \in Slot : Use(t, a, CloseSlot(timer[a], slot))
    BY <1>2 DEF Publish, Slot, VmStates
  <2> QED
    BY <1>1, <1>2, <2>1, VmKeeps DEF Publish, Keeps
<1>3. CASE SetDraining(t, a)
  BY <1>1, <1>3, VmKeeps DEF SetDraining, Keeps
<1>4. CASE Drain(t, a)
  BY <1>1, <1>4, VmKeeps, ExpirationsNat DEF Drain, Keeps
<1> QED
  BY <1>2, <1>3, <1>4

-----------------------------------------------------------------------------
(* The table and the users of the signal.                                  *)

\* The slots in use can be counted.
LEMMA UsedFinite ==
    ASSUME NEW S \in SUBSET Slots
    PROVE  IsFiniteSet(S) /\ Cardinality(S) \in Nat
  BY SlotsAssumption, FS_Subset, FS_CardinalityType

\* acquire_timer_signal: the slot that was free is the timer's, and counted.
LEMMA AcquireExact ==
    ASSUME TInv, NEW a \in Timers, NEW i \in FreeSlots, CanAcquire,
           owner[a] # NoTimer, owner' = owner, ~Acquired(a),
           activeTimers' = [activeTimers EXCEPT ![i] = a],
           slotOf' = [slotOf EXCEPT ![a] = i],
           signalUsers' = signalUsers + 1,
           disposition' = "luaprof"
    PROVE  TableExact' /\ SlotsMatch'
<1> DEFINE used == Slots \ FreeSlots
<1>1. IsFiniteSet(used) /\ i \notin used /\ Cardinality(used) \in Nat
  BY UsedFinite
<1>2. Slots \ FreeSlots' = used \cup {i}
  BY TimersAssumption DEF TInv, TypeOK, FreeSlots
<1>3. signalUsers' = Cardinality(Slots \ FreeSlots') /\ signalUsers' > 0
  <2>1. signalUsers = Cardinality(used)
    BY DEF TInv, TableExact
  <2>2. Cardinality(used \cup {i}) = Cardinality(used) + 1
    BY <1>1, FS_AddElement
  <2>3. Cardinality(Slots \ FreeSlots') = Cardinality(used \cup {i})
    BY <1>2, Zenon
  <2> HIDE DEF used
  <2> QED
    BY <1>1, <2>1, <2>2, <2>3
<1>4. SlotsMatch'
  BY TimersAssumption DEF TInv, TypeOK, SlotsMatch, Acquired, FreeSlots
<1>5. ASSUME NEW j \in Slots, activeTimers'[j] # NoTimer
      PROVE  owner'[activeTimers'[j]] # NoTimer /\ slotOf'[activeTimers'[j]] = j
  BY <1>5, TimersAssumption DEF TInv, TypeOK, TableExact, Acquired, FreeSlots
<1> QED
  BY <1>3, <1>4, <1>5 DEF TableExact

\* release_timer_signal: the timer's slot is free again, and its user gone.
LEMMA ReleaseExact ==
    ASSUME TInv, NEW a \in Timers, Acquired(a), Release(a), owner' = owner
    PROVE  /\ TableExact' /\ SlotsMatch'
           /\ slotOf' = [slotOf EXCEPT ![a] = NoSlot]
           /\ signalUsers' \in Nat
           /\ activeTimers' \in [Slots -> Timers \cup {NoTimer}]
           /\ disposition' \in {"default", "luaprof", "foreign"}
<1> DEFINE i == slotOf[a]
           used == Slots \ FreeSlots
<1>1. i \in Slots /\ activeTimers[i] = a /\ i \in used
  BY TimersAssumption DEF TInv, TypeOK, SlotsMatch, Acquired, FreeSlots
<1>2. IsFiniteSet(used) /\ Cardinality(used) \in Nat
  BY UsedFinite
<1>3. Cardinality(used \ {i}) = Cardinality(used) - 1 /\ Cardinality(used \ {i}) \in Nat
  BY <1>1, <1>2, FS_RemoveElement, UsedFinite
<1>4. Slots \ FreeSlots' = used \ {i}
  BY <1>1, TimersAssumption DEF TInv, TypeOK, Release, FreeSlots
<1>5. /\ signalUsers' = Cardinality(Slots \ FreeSlots') /\ signalUsers' \in Nat
      /\ signalUsers > 0
  <2>1. signalUsers = Cardinality(used)
    BY DEF TInv, TableExact
  <2>2. Cardinality(Slots \ FreeSlots') = Cardinality(used \ {i})
    BY <1>4, Zenon
  <2> HIDE DEF used
  <2> QED
    BY <1>2, <1>3, <2>1, <2>2 DEF Release
<1>6. disposition' = "luaprof" <=> signalUsers' > 0
  BY <1>5 DEF TInv, TableExact, TypeOK, Release
<1>7. SlotsMatch'
  BY <1>1, TimersAssumption DEF TInv, TypeOK, SlotsMatch, Acquired, Release
<1>8. ASSUME NEW j \in Slots, activeTimers'[j] # NoTimer
      PROVE  owner'[activeTimers'[j]] # NoTimer /\ slotOf'[activeTimers'[j]] = j
  BY <1>1, <1>8, TimersAssumption DEF TInv, TypeOK, TableExact, Release
<1>9. TableExact'
  BY <1>5, <1>6, <1>8 DEF TableExact
<1> QED
  BY <1>5, <1>7, <1>9 DEF Release, TInv, TypeOK

\* Nothing happens to the table.
LEMMA TableKept ==
    ASSUME TableExact, SlotsMatch, UNCHANGED <<owner, slotOf, table>>
    PROVE  TableExact' /\ SlotsMatch'
  BY DEF TableExact, SlotsMatch, FreeSlots, Acquired, table

\* Signals are taken off the queues, if anything, and timers stay where they are.
LEMMA TicksKept ==
    ASSUME TInv, UNCHANGED <<owner, slotOf, serial>>,
           \A t \in Threads :
              /\ queue'[t] \subseteq queue[t]
              /\ pc'[t] \in Arming \cup {"release"} =>
                    pc[t] \in Arming \cup {"release"} /\ target'[t] = target[t]
    PROVE  TicksAreOwn' /\ TargetQuiet'
<1>1. TicksAreOwn'
  BY DEF TInv, TicksAreOwn, Acquired
<1>2. TargetQuiet'
  BY DEF TInv, TargetQuiet
<1> QED
  BY <1>1, <1>2

\* Only the timers' other fields change.
LEMMA AgreementKept ==
    ASSUME TInv, UNCHANGED <<owner, slotOf, kernel, activeThread, pc, target>>,
           \A a \in Timers : timer'[a].active = timer[a].active
    PROVE  OthersAgree' /\ TargetSound' /\ OwnersSound'
<1>1. OthersAgree'
  BY DEF TInv, OthersAgree, Agrees, Acquired
<1>2. TargetSound'
  BY DEF TInv, TargetSound, Acquired
<1>3. OwnersSound'
  BY DEF TInv, OwnersSound, Acquired
<1> QED
  BY <1>1, <1>2, <1>3

-----------------------------------------------------------------------------
(* Every step keeps the invariant.                                         *)

\* A fresh timer has nothing, and nobody's thread or queue names it.
LEMMA NewStep ==
    ASSUME TInv, NEW t \in Threads, NEW a \in Timers, New(t, a)
    PROVE  TInv'
<1>1. TypeOK'
  BY NewIsTimer DEF TInv, TypeOK, New, structs, table, thread, history
<1>2. ~Acquired(a) /\ kernel[a] = "none" /\ owner[a] = NoTimer /\ ~timer'[a].active
  BY NewIsTimer DEF TInv, TypeOK, OwnersSound, New
<1>3. \A u \in Threads : activeThread[u] # a
  BY <1>2, TimersAssumption DEF TInv, OwnersSound, New
<1>4. OthersAgree'
  BY <1>2, <1>3, TimersAssumption
  DEF TInv, TypeOK, OthersAgree, Agrees, Acquired, New, structs, table, thread
<1>5. TargetSound' /\ OwnersSound'
  BY <1>2, <1>3, TimersAssumption
  DEF TInv, TypeOK, TargetSound, OwnersSound, Acquired, New, table, thread
<1>6. TableExact' /\ SlotsMatch'
  BY <1>2, TimersAssumption
  DEF TInv, TypeOK, TableExact, SlotsMatch, FreeSlots, Acquired, New, table
<1>7. TicksAreOwn' /\ TargetQuiet'
  BY <1>2, TimersAssumption
  DEF TInv, TypeOK, TicksAreOwn, TargetQuiet, Signal, Acquired, New, thread
<1> QED
  BY <1>1, <1>4, <1>5, <1>6, <1>7 DEF TInv, ProcessSurvives, New

\* Only a timer that is in no table and no queue is freed.
LEMMA DeleteStep ==
    ASSUME TInv, NEW t \in Threads, NEW a \in Timers, Delete(t, a)
    PROVE  TInv'
<1>1. TypeOK'
  BY DEF TInv, TypeOK, Delete, table, thread, history
<1>2. /\ ~Acquired(a) /\ kernel[a] = "none" /\ activeThread[t] # a
      /\ owner[a] = t /\ pc[t] = "idle"
  BY DEF TInv, OthersAgree, Agrees, Delete, Arming, Disarming
<1>3. OthersAgree'
  BY <1>2, TimersAssumption
  DEF TInv, TypeOK, OthersAgree, Agrees, Acquired, Delete, table, thread
<1>4. TargetSound' /\ OwnersSound'
  BY <1>2, TimersAssumption
  DEF TInv, TypeOK, TargetSound, OwnersSound, Acquired, Delete, table, thread
<1>5. TableExact' /\ SlotsMatch'
  BY <1>2, TimersAssumption
  DEF TInv, TypeOK, TableExact, SlotsMatch, FreeSlots, Acquired, Delete, table
<1>6. TicksAreOwn' /\ TargetQuiet'
  BY <1>2, TimersAssumption
  DEF TInv, TypeOK, TicksAreOwn, TargetQuiet, Signal, Acquired, Delete, thread, history
<1> QED
  BY <1>1, <1>3, <1>4, <1>5, <1>6 DEF TInv, ProcessSurvives, Delete

\* A timer that enters the table has no tick queued from an earlier arm.
LEMMA AcquireStep ==
    ASSUME TInv, NEW t \in Threads, NEW a \in Timers, Acquire(t, a)
    PROVE  TInv'
<1>1. PICK i \in FreeSlots : /\ activeTimers' = [activeTimers EXCEPT ![i] = a]
                             /\ slotOf' = [slotOf EXCEPT ![a] = i]
  BY DEF Acquire
<1>2. /\ i \in Slots /\ i # NoSlot /\ Acquired(a)'
      /\ \A b \in Timers \ {a} : Acquired(b)' <=> Acquired(b)
  BY <1>1, TimersAssumption DEF TInv, TypeOK, FreeSlots, Acquired
<1>3. TypeOK'
  BY <1>1, <1>2 DEF TInv, TypeOK, Acquire, Goto
<1>4. ~timer[a].active /\ kernel[a] = "none"
  BY DEF TInv, OthersAgree, Agrees, Acquire, Arming, Disarming
<1>5. OthersAgree'
  BY <1>2, TimersAssumption
  DEF TInv, TypeOK, OthersAgree, Agrees, Acquire, Goto, Arming, Disarming
<1>6. TargetSound' /\ OwnersSound'
  BY <1>2, <1>4, TimersAssumption
  DEF TInv, TypeOK, TargetSound, OwnersSound, Acquire, Goto, Arming, Disarming
<1>7. TableExact' /\ SlotsMatch'
  BY <1>1, AcquireExact, TimersAssumption DEF Acquire
<1>8. \A u \in Threads : \A signal \in queue[u] : signal.timer # a
  BY DEF TInv, TicksAreOwn, Acquire
<1>9. TicksAreOwn' /\ TargetQuiet'
  BY <1>2, <1>8 DEF TInv, TypeOK, TicksAreOwn, TargetQuiet, Signal, Acquire, Goto
<1> QED
  BY <1>3, <1>5, <1>6, <1>7, <1>9 DEF TInv, ProcessSurvives, Acquire

\* A thread that had blocked the signal itself leaves the table again.
LEMMA ArmBlockStep ==
    ASSUME TInv, NEW t \in Threads, ArmBlock(t)
    PROVE  TInv'
<1>1. PICK a \in Timers :
        /\ a = target[t] /\ owner[a] = t /\ Acquired(a) /\ ~timer[a].active
        /\ activeThread[t] = NoTimer /\ kernel[a] = "none"
        /\ \A signal \in queue[t] : signal.timer # a
  BY DEF TInv, TargetSound, TargetQuiet, ArmBlock, Arming
<1>2. CASE blocked[t]
  <2>1. Release(a) /\ pc' = [pc EXCEPT ![t] = "idle"]
    BY <1>1, <1>2 DEF ArmBlock, Goto, Release
  <2>2. /\ TableExact' /\ SlotsMatch'
        /\ slotOf' = [slotOf EXCEPT ![a] = NoSlot]
        /\ signalUsers' \in Nat
        /\ activeTimers' \in [Slots -> Timers \cup {NoTimer}]
        /\ disposition' \in {"default", "luaprof", "foreign"}
    BY <1>1, <2>1, ReleaseExact DEF ArmBlock
  <2>3. TypeOK'
    BY <2>1, <2>2 DEF TInv, TypeOK, ArmBlock, history
  <2>4. ~Acquired(a)' /\ \A b \in Timers \ {a} : Acquired(b)' <=> Acquired(b)
    BY <1>1, <2>2 DEF TInv, TypeOK, Acquired
  <2>5. OthersAgree'
    BY <1>1, <2>1, <2>4, TimersAssumption
    DEF TInv, TypeOK, OthersAgree, Agrees, ArmBlock, Arming, Disarming
  <2>6. TargetSound' /\ OwnersSound'
    BY <1>1, <2>1, <2>4, TimersAssumption
    DEF TInv, TypeOK, TargetSound, OwnersSound, ArmBlock, Arming, Disarming
  <2>7. TicksAreOwn' /\ TargetQuiet'
    BY <1>1, <2>1, <2>4
    DEF TInv, TypeOK, TicksAreOwn, TargetQuiet, Signal, ArmBlock, history, Arming
  <2> QED
    BY <2>2, <2>3, <2>5, <2>6, <2>7 DEF TInv, ProcessSurvives, ArmBlock
<1>3. CASE ~blocked[t]
  <2>1. pc' = [pc EXCEPT ![t] = "create"] /\ UNCHANGED <<slotOf, table>>
    BY <1>3 DEF ArmBlock, Goto
  <2>2. TypeOK'
    BY <2>1 DEF TInv, TypeOK, ArmBlock, table, history
  <2>3. OthersAgree'
    BY <2>1 DEF TInv, TypeOK, OthersAgree, Agrees, Acquired, ArmBlock, Arming, Disarming
  <2>4. TargetSound' /\ OwnersSound'
    BY <1>1, <2>1
    DEF TInv, TypeOK, TargetSound, OwnersSound, Acquired, ArmBlock, Arming, Disarming
  <2>5. TableExact' /\ SlotsMatch'
    BY <2>1, TableKept DEF TInv, ArmBlock
  <2>6. TicksAreOwn' /\ TargetQuiet'
    BY <2>1, TicksKept DEF TInv, TypeOK, ArmBlock, history, Arming
  <2> QED
    BY <2>2, <2>3, <2>4, <2>5, <2>6 DEF TInv, ProcessSurvives, ArmBlock
<1> QED
  BY <1>2, <1>3

\* The kernel timer exists, or arm backs out.
LEMMA ArmCreateStep ==
    ASSUME TInv, NEW t \in Threads, ArmCreate(t)
    PROVE  TInv'
<1>1. TypeOK'
  BY DEF TInv, TypeOK, TargetSound, ArmCreate, Goto, table, history
<1>2. /\ target[t] \in Timers /\ owner[target[t]] = t /\ pc[t] \in Arming
      /\ pc' \in {[pc EXCEPT ![t] = "start"], [pc EXCEPT ![t] = "undo"]}
  BY DEF TInv, TargetSound, ArmCreate, Goto, Arming
<1>3. OthersAgree'
  BY <1>2
  DEF TInv, TypeOK, OthersAgree, Agrees, Acquired, ArmCreate, Goto, Arming, Disarming
<1>4. TargetSound' /\ OwnersSound'
  BY <1>2, TimersAssumption
  DEF TInv, TypeOK, TargetSound, OwnersSound, Acquired, ArmCreate, Goto, Arming, Disarming
<1>5. TableExact' /\ SlotsMatch'
  BY TableKept DEF TInv, ArmCreate
<1>6. TicksAreOwn' /\ TargetQuiet'
  BY <1>2, TicksKept DEF TInv, TypeOK, ArmCreate, history, Arming
<1> QED
  BY <1>1, <1>3, <1>4, <1>5, <1>6 DEF TInv, ProcessSurvives, ArmCreate

\* The timer runs and is its thread's active one, or arm backs out.
LEMMA ArmStartStep ==
    ASSUME TInv, NEW t \in Threads, ArmStart(t)
    PROVE  TInv'
<1>1. PICK a \in Timers :
        /\ a = target[t] /\ owner[a] = t /\ Acquired(a) /\ pc[t] = "start"
        /\ activeThread[t] = NoTimer /\ ~timer[a].active
  BY DEF TInv, TargetSound, ArmStart, Arming
<1>2. /\ TypeOK'
      /\ \A b \in Timers \ {a} : timer'[b] = timer[b] /\ kernel'[b] = kernel[b]
  <2>1. \A x \in Timer : [x EXCEPT !.active = TRUE] \in Timer
    BY DEF Timer
  <2>2. [timer EXCEPT ![a].active = TRUE] \in [Timers -> Timer]
    BY <2>1 DEF TInv, TypeOK
  <2> QED
    BY ZenonT(60), <1>1, <2>2 DEF TInv, TypeOK, ArmStart, Goto, table, history
<1>3. ASSUME kernel' = [kernel EXCEPT ![a] = "running"],
             timer' = [timer EXCEPT ![a].active = TRUE],
             activeThread' = [activeThread EXCEPT ![t] = a],
             pc' = [pc EXCEPT ![t] = "unblock"]
      PROVE  OthersAgree' /\ TargetSound' /\ OwnersSound' /\ TicksAreOwn' /\ TargetQuiet'
  <2>1. timer'[a].active /\ kernel'[a] = "running"
    BY <1>1, <1>3 DEF TInv, TypeOK, Timer
  <2>2. OthersAgree'
    BY <1>1, <1>2, <1>3, <2>1, TimersAssumption
    DEF TInv, TypeOK, OthersAgree, Agrees, Acquired, ArmStart, Arming, Disarming
  <2>3. TargetSound' /\ OwnersSound'
    BY <1>1, <1>2, <1>3, TimersAssumption
    DEF TInv, TypeOK, TargetSound, OwnersSound, Acquired, ArmStart, Arming, Disarming
  <2>4. TicksAreOwn' /\ TargetQuiet'
    BY <1>1, <1>3, TicksKept DEF TInv, TypeOK, ArmStart, history, Arming
  <2> QED
    BY <2>2, <2>3, <2>4
<1>4. ASSUME kernel' = [kernel EXCEPT ![a] = "none"],
             UNCHANGED <<timer, activeThread>>,
             pc' = [pc EXCEPT ![t] = "undo"]
      PROVE  OthersAgree' /\ TargetSound' /\ OwnersSound' /\ TicksAreOwn' /\ TargetQuiet'
  <2>1. OthersAgree'
    BY <1>1, <1>2, <1>4, TimersAssumption
    DEF TInv, TypeOK, OthersAgree, Agrees, Acquired, ArmStart, Arming, Disarming
  <2>2. TargetSound' /\ OwnersSound'
    BY <1>1, <1>2, <1>4, TimersAssumption
    DEF TInv, TypeOK, TargetSound, OwnersSound, Acquired, ArmStart, Arming, Disarming
  <2>3. TicksAreOwn' /\ TargetQuiet'
    BY <1>1, <1>4, TicksKept DEF TInv, TypeOK, ArmStart, history, Arming
  <2> QED
    BY <2>1, <2>2, <2>3
<1>5. OthersAgree' /\ TargetSound' /\ OwnersSound' /\ TicksAreOwn' /\ TargetQuiet'
  BY <1>1, <1>3, <1>4 DEF ArmStart, Goto
<1>6. TableExact' /\ SlotsMatch'
  BY TableKept DEF TInv, ArmStart
<1> QED
  BY <1>2, <1>5, <1>6 DEF TInv, ProcessSurvives, ArmStart

\* An arm that failed takes its timer out of the table before it lets ticks in.
LEMMA ArmUndoStep ==
    ASSUME TInv, NEW t \in Threads, ArmUndo(t)
    PROVE  TInv'
<1>1. PICK a \in Timers :
        /\ a = target[t] /\ owner[a] = t /\ Acquired(a) /\ ~timer[a].active
        /\ activeThread[t] = NoTimer /\ kernel[a] = "none"
        /\ \A signal \in queue[t] : signal.timer # a
  BY DEF TInv, TargetSound, TargetQuiet, ArmUndo, Arming
<1>2. Release(a) /\ pc' = [pc EXCEPT ![t] = "unblock"]
  BY <1>1 DEF ArmUndo, Goto, Release
<1>3. /\ TableExact' /\ SlotsMatch'
      /\ slotOf' = [slotOf EXCEPT ![a] = NoSlot]
      /\ signalUsers' \in Nat
      /\ activeTimers' \in [Slots -> Timers \cup {NoTimer}]
      /\ disposition' \in {"default", "luaprof", "foreign"}
  BY <1>1, <1>2, ReleaseExact DEF ArmUndo
<1>4. TypeOK'
  BY <1>2, <1>3 DEF TInv, TypeOK, ArmUndo, history
<1>5. ~Acquired(a)' /\ \A b \in Timers \ {a} : Acquired(b)' <=> Acquired(b)
  BY <1>1, <1>3 DEF TInv, TypeOK, Acquired
<1>6. OthersAgree'
  BY <1>1, <1>2, <1>5, TimersAssumption
  DEF TInv, TypeOK, OthersAgree, Agrees, ArmUndo, Arming, Disarming
<1>7. TargetSound' /\ OwnersSound'
  BY <1>1, <1>2, <1>5, TimersAssumption
  DEF TInv, TypeOK, TargetSound, OwnersSound, ArmUndo, Arming, Disarming
<1>8. TicksAreOwn' /\ TargetQuiet'
  BY <1>1, <1>2, <1>5
  DEF TInv, TypeOK, TicksAreOwn, TargetQuiet, Signal, ArmUndo, history, Arming
<1> QED
  BY <1>3, <1>4, <1>6, <1>7, <1>8 DEF TInv, ProcessSurvives, ArmUndo

\* The end of arm and of disarm only gives the mask back.
LEMMA UnblockStep ==
    ASSUME TInv, NEW t \in Threads, Unblock(t)
    PROVE  TInv'
<1>1. TypeOK'
  BY DEF TInv, TypeOK, Unblock, Goto, structs, table, history
<1>2. OthersAgree'
  BY DEF TInv, TypeOK, OthersAgree, Agrees, Acquired, Unblock, Goto, structs, Arming,
     Disarming
<1>3. TargetSound' /\ OwnersSound'
  BY DEF TInv, TypeOK, TargetSound, OwnersSound, Acquired, Unblock, Goto, structs,
     Arming, Disarming
<1>4. TableExact' /\ SlotsMatch'
  BY TableKept DEF TInv, Unblock, structs
<1>5. TicksAreOwn' /\ TargetQuiet'
  BY TicksKept DEF TInv, TypeOK, Unblock, Goto, structs, history, Arming
<1> QED
  BY <1>1, <1>2, <1>3, <1>4, <1>5 DEF TInv, ProcessSurvives, Unblock

\* Disarm begins: the timer is not active any more, but all else is as it was.
LEMMA DisarmStep ==
    ASSUME TInv, NEW t \in Threads, NEW a \in Timers, Disarm(t, a)
    PROVE  TInv'
<1>1. /\ owner[a] = t /\ Acquired(a) /\ activeThread[t] = a /\ pc[t] = "idle"
  BY DEF TInv, OthersAgree, Agrees, Disarm, Arming, Disarming
<1>2. [timer EXCEPT ![a].active = FALSE] \in [Timers -> Timer]
  <2>1. \A x \in Timer : [x EXCEPT !.active = FALSE] \in Timer
    BY DEF Timer
  <2> QED
    BY <2>1 DEF TInv, TypeOK
<1>3. TypeOK'
  BY <1>2 DEF TInv, TypeOK, Disarm, Goto, table, history
<1>4. ~timer'[a].active /\ \A b \in Timers \ {a} : timer'[b] = timer[b]
  BY <1>2 DEF TInv, TypeOK, Timer, Disarm
<1>5. OthersAgree'
  BY <1>1, <1>4, TimersAssumption
  DEF TInv, TypeOK, OthersAgree, Agrees, Acquired, Disarm, Goto, Arming, Disarming
<1>6. TargetSound' /\ OwnersSound'
  BY <1>1, <1>4, TimersAssumption
  DEF TInv, TypeOK, TargetSound, OwnersSound, Acquired, Disarm, Goto, Arming, Disarming
<1>7. TableExact' /\ SlotsMatch'
  BY TableKept DEF TInv, Disarm
<1>8. TicksAreOwn' /\ TargetQuiet'
  BY TicksKept DEF TInv, TypeOK, Disarm, Goto, history, Arming
<1> QED
  BY <1>3, <1>5, <1>6, <1>7, <1>8 DEF TInv, ProcessSurvives, Disarm

\* Disarm's first look takes at most one signal off the queue.
LEMMA FetchQueuedStep ==
    ASSUME TInv, NEW t \in Threads, FetchQueued(t)
    PROVE  TInv'
<1>1. /\ target[t] \in Timers /\ pc[t] = "fetch" /\ pc' = [pc EXCEPT ![t] = "stop"]
  BY DEF TInv, TargetSound, FetchQueued, Goto, Disarming
<1>2. /\ timer' \in [Timers -> Timer]
      /\ queue' \in [Threads -> SUBSET Signal]
      /\ \A b \in Timers : timer'[b].active = timer[b].active
      /\ \A u \in Threads : queue'[u] \subseteq queue[u]
  <2>1. ASSUME NEW signal \in queue[t], TakeSignal(t, signal)
        PROVE  \A u \in Threads : queue'[u] \subseteq queue[u]
    BY <2>1 DEF TInv, TypeOK, TakeSignal
  <2> QED
    BY <1>1, <2>1, TakeSignalTyped DEF TInv, TypeOK, FetchQueued
<1>3. TypeOK'
  BY <1>1, <1>2 DEF TInv, TypeOK, FetchQueued, table, history
<1>4. OthersAgree'
  BY <1>1, <1>2
  DEF TInv, TypeOK, OthersAgree, Agrees, Acquired, FetchQueued, Arming, Disarming
<1>5. TargetSound' /\ OwnersSound'
  BY <1>1, <1>2
  DEF TInv, TypeOK, TargetSound, OwnersSound, Acquired, FetchQueued, Arming, Disarming
<1>6. TableExact' /\ SlotsMatch'
  BY TableKept DEF TInv, FetchQueued
<1>7. TicksAreOwn' /\ TargetQuiet'
  BY <1>1, <1>2, TicksKept DEF TInv, TypeOK, FetchQueued, history, Arming
<1> QED
  BY <1>3, <1>4, <1>5, <1>6, <1>7 DEF TInv, ProcessSurvives, FetchQueued

\* The kernel timer stops; the signal it had queued stays its own.
LEMMA StopTimerStep ==
    ASSUME TInv, NEW t \in Threads, StopTimer(t)
    PROVE  TInv'
<1>1. PICK a \in Timers :
        a = target[t] /\ owner[a] = t /\ pc[t] = "stop" /\ pc' = [pc EXCEPT ![t] = "collect"]
  BY DEF TInv, TargetSound, StopTimer, Goto, Disarming
<1>2. /\ queue' \in [Threads -> SUBSET Signal]
      /\ \A u \in Threads : \A signal \in queue'[u] :
            \E old \in queue[u] : signal.timer = old.timer /\ signal.serial = old.serial
  <2>1. CASE UNCHANGED queue
    BY <2>1 DEF TInv, TypeOK
  <2>2. ASSUME NEW old \in queue[t],
               queue' = [queue EXCEPT ![t] =
                            (@ \ {old}) \cup {[old EXCEPT !.overrun = 0]}]
        PROVE  /\ queue' \in [Threads -> SUBSET Signal]
               /\ \A u \in Threads : \A signal \in queue'[u] :
                     \E other \in queue[u] : /\ signal.timer = other.timer
                                             /\ signal.serial = other.serial
    <3>1. old \in Signal
      BY DEF TInv, TypeOK
    <3>2. [old EXCEPT !.overrun = 0] \in Signal
      BY <3>1 DEF Signal
    <3>3. /\ [old EXCEPT !.overrun = 0].timer = old.timer
          /\ [old EXCEPT !.overrun = 0].serial = old.serial
      BY <3>1 DEF Signal
    <3> QED
      BY <2>2, <3>2, <3>3 DEF TInv, TypeOK
  <2> QED
    BY <2>1, <2>2 DEF StopTimer
<1>3. kernel' \in {[kernel EXCEPT ![a] = "created"], [kernel EXCEPT ![a] = "none"]}
  BY <1>1 DEF StopTimer
<1>4. TypeOK'
  BY ZenonT(60), <1>1, <1>2, <1>3 DEF TInv, TypeOK, StopTimer, table, history
<1>5. OthersAgree'
  BY <1>1, <1>3
  DEF TInv, TypeOK, OthersAgree, Agrees, Acquired, StopTimer, Arming, Disarming
<1>6. TargetSound' /\ OwnersSound'
  BY <1>1, <1>3, TimersAssumption
  DEF TInv, TypeOK, TargetSound, OwnersSound, Acquired, StopTimer, Arming, Disarming
<1>7. TableExact' /\ SlotsMatch'
  BY TableKept DEF TInv, StopTimer
<1>8. TicksAreOwn'
  BY <1>2 DEF TInv, TypeOK, TicksAreOwn, Acquired, StopTimer, history
<1>9. TargetQuiet'
  BY <1>1, <1>2 DEF TInv, TypeOK, TargetQuiet, StopTimer, Arming
<1> QED
  BY <1>4, <1>5, <1>6, <1>7, <1>8, <1>9 DEF TInv, ProcessSurvives, StopTimer

\* Disarm goes on only when the thread's queue is empty.
LEMMA CollectQueuedStep ==
    ASSUME TInv, NEW t \in Threads, CollectQueued(t)
    PROVE  TInv'
<1>1. /\ target[t] \in Timers /\ pc[t] = "collect"
      /\ \/ UNCHANGED pc
         \/ queue'[t] = {} /\ pc' = [pc EXCEPT ![t] = "release"]
  BY DEF TInv, TargetSound, CollectQueued, Goto, Disarming
<1>2. /\ timer' \in [Timers -> Timer]
      /\ queue' \in [Threads -> SUBSET Signal]
      /\ \A b \in Timers : timer'[b].active = timer[b].active
      /\ \A u \in Threads : queue'[u] \subseteq queue[u]
  <2>1. ASSUME NEW signal \in queue[t], TakeSignal(t, signal)
        PROVE  \A u \in Threads : queue'[u] \subseteq queue[u]
    BY <2>1 DEF TInv, TypeOK, TakeSignal
  <2> QED
    BY <1>1, <2>1, TakeSignalTyped DEF TInv, TypeOK, CollectQueued
<1>3. TypeOK'
  BY <1>1, <1>2 DEF TInv, TypeOK, CollectQueued, table, history
<1>4. OthersAgree'
  BY <1>1, <1>2
  DEF TInv, TypeOK, OthersAgree, Agrees, Acquired, CollectQueued, Arming, Disarming
<1>5. TargetSound' /\ OwnersSound'
  BY <1>1, <1>2
  DEF TInv, TypeOK, TargetSound, OwnersSound, Acquired, CollectQueued, Arming, Disarming
<1>6. TableExact' /\ SlotsMatch'
  BY TableKept DEF TInv, CollectQueued
<1>7. TicksAreOwn'
  BY <1>2 DEF TInv, TypeOK, TicksAreOwn, Acquired, CollectQueued, history
<1>8. TargetQuiet'
  BY <1>1, <1>2 DEF TInv, TypeOK, TargetQuiet, CollectQueued, Arming
<1> QED
  BY <1>3, <1>4, <1>5, <1>6, <1>7, <1>8 DEF TInv, ProcessSurvives, CollectQueued

\* What leaves the table has no tick queued and no kernel timer to raise one.
LEMMA DisarmReleaseStep ==
    ASSUME TInv, NEW t \in Threads, DisarmRelease(t)
    PROVE  TInv'
<1>1. PICK a \in Timers :
        /\ a = target[t] /\ owner[a] = t /\ Acquired(a) /\ ~timer[a].active
        /\ activeThread[t] = a
        /\ \A signal \in queue[t] : signal.timer # a
  BY DEF TInv, TargetSound, TargetQuiet, DisarmRelease, Disarming
<1>2. /\ Release(a) /\ pc' = [pc EXCEPT ![t] = "unblock"]
      /\ kernel' = [kernel EXCEPT ![a] = "none"]
      /\ activeThread' = [activeThread EXCEPT ![t] = NoTimer]
  BY <1>1 DEF TInv, TypeOK, DisarmRelease, Goto, Release
<1>3. /\ TableExact' /\ SlotsMatch'
      /\ slotOf' = [slotOf EXCEPT ![a] = NoSlot]
      /\ signalUsers' \in Nat
      /\ activeTimers' \in [Slots -> Timers \cup {NoTimer}]
      /\ disposition' \in {"default", "luaprof", "foreign"}
  BY <1>1, <1>2, ReleaseExact DEF DisarmRelease
<1>4. TypeOK'
  BY <1>2, <1>3 DEF TInv, TypeOK, DisarmRelease, history
<1>5. ~Acquired(a)' /\ \A b \in Timers \ {a} : Acquired(b)' <=> Acquired(b)
  BY <1>1, <1>3 DEF TInv, TypeOK, Acquired
<1>6. OthersAgree'
  BY <1>1, <1>2, <1>5, TimersAssumption
  DEF TInv, TypeOK, OthersAgree, Agrees, DisarmRelease, Arming, Disarming
<1>7. TargetSound' /\ OwnersSound'
  BY <1>1, <1>2, <1>5, TimersAssumption
  DEF TInv, TypeOK, TargetSound, OwnersSound, DisarmRelease, Arming, Disarming
<1>8. TicksAreOwn' /\ TargetQuiet'
  BY <1>1, <1>2, <1>5
  DEF TInv, TypeOK, TicksAreOwn, TargetQuiet, Signal, DisarmRelease, history, Arming
<1> QED
  BY <1>3, <1>4, <1>6, <1>7, <1>8 DEF TInv, ProcessSurvives, DisarmRelease

\* The VM's use of its timer arms and disarms nothing.
LEMMA VmStep ==
    ASSUME TInv, NEW t \in Threads, NEW a \in Timers,
           Publish(t, a) \/ SetDraining(t, a) \/ Drain(t, a)
    PROVE  TInv'
<1>1. PICK x \in Timer, n \in Nat :
        /\ Use(t, a, x) /\ Keeps(timer[a], x)
        /\ taken' = [taken EXCEPT ![a] = @ + n]
  BY UseTyped DEF TInv
<1>2. /\ timer' \in [Timers -> Timer]
      /\ \A b \in Timers : timer'[b].active = timer[b].active
  BY <1>1 DEF TInv, TypeOK, Use, Keeps
<1>3. TypeOK'
  BY <1>1, <1>2 DEF TInv, TypeOK, Use, table, thread
<1>4. OthersAgree' /\ TargetSound' /\ OwnersSound'
  BY <1>1, <1>2, AgreementKept DEF Use, thread
<1>5. TableExact' /\ SlotsMatch'
  BY <1>1, TableKept DEF TInv, Use
<1>6. TicksAreOwn' /\ TargetQuiet'
  BY <1>1, TicksKept DEF Use, thread
<1> QED
  BY <1>1, <1>3, <1>4, <1>5, <1>6 DEF TInv, ProcessSurvives, Use

\* A mask is the host's own business.
LEMMA SetMaskStep ==
    ASSUME TInv, NEW t \in Threads, SetMask(t)
    PROVE  TInv'
<1>1. TypeOK'
  BY DEF TInv, TypeOK, SetMask, structs, table, history
<1>2. OthersAgree' /\ TargetSound' /\ OwnersSound'
  BY AgreementKept DEF SetMask, structs
<1>3. TableExact' /\ SlotsMatch'
  BY TableKept DEF TInv, SetMask, structs
<1>4. TicksAreOwn' /\ TargetQuiet'
  BY TicksKept DEF SetMask, structs, history
<1> QED
  BY <1>1, <1>2, <1>3, <1>4 DEF TInv, ProcessSurvives, SetMask

\* The host touches the disposition only while the table is empty.
LEMMA SetForeignStep ==
    ASSUME TInv, SetForeign
    PROVE  TInv'
<1>1. TypeOK'
  BY DEF TInv, TypeOK, SetForeign, structs, thread, history
<1>2. OthersAgree' /\ TargetSound' /\ OwnersSound'
  BY AgreementKept DEF SetForeign, structs, thread
<1>3. TableExact' /\ SlotsMatch'
  BY DEF TInv, TypeOK, TableExact, SlotsMatch, FreeSlots, Acquired, SetForeign, structs
<1>4. TicksAreOwn' /\ TargetQuiet'
  BY TicksKept DEF SetForeign, structs, thread, history
<1> QED
  BY <1>1, <1>2, <1>3, <1>4 DEF TInv, ProcessSurvives, SetForeign

\* A timer that runs is in the table, and no arm or disarm counts on its silence.
LEMMA ExpireStep ==
    ASSUME TInv, NEW a \in Timers, Expire(a)
    PROVE  TInv'
<1>1. PICK t \in Threads :
        /\ t = owner[a] /\ Acquired(a)
        /\ pc[t] \in Arming \cup {"release"} => a # target[t]
  <2>1. kernel[a] = "running"
    BY DEF Expire
  <2>2. owner[a] \in Threads
    BY <2>1 DEF TInv, TypeOK, OwnersSound
  <2>3. Acquired(a)
    BY <2>1, <2>2 DEF TInv, OthersAgree, Agrees, TargetSound
  <2>4. pc[owner[a]] \in Arming \cup {"release"} => a # target[owner[a]]
    BY <2>1, <2>2 DEF TInv, TargetSound, Arming, Disarming
  <2> QED
    BY <2>2, <2>3, <2>4
<1>2. /\ queue' \in [Threads -> SUBSET Signal]
      /\ \A u \in Threads \ {t} : queue'[u] = queue[u]
      /\ \A signal \in queue'[t] :
            signal \in queue[t] \/ (signal.timer = a /\ signal.serial = serial[a])
  <2> DEFINE queued == {signal \in queue[t] :
                            signal.timer = a /\ signal.serial = serial[a]}
             fresh == [timer |-> a, overrun |-> 0, serial |-> serial[a]]
             more == {[signal EXCEPT !.overrun = @ + 1] : signal \in queued}
  <2>1. /\ fresh \in Signal
        /\ fresh.timer = a /\ fresh.serial = serial[a]
    BY DEF TInv, TypeOK, Signal
  <2>2. ASSUME NEW old \in queued
        PROVE  /\ [old EXCEPT !.overrun = @ + 1] \in Signal
               /\ [old EXCEPT !.overrun = @ + 1].timer = a
               /\ [old EXCEPT !.overrun = @ + 1].serial = serial[a]
    <3>1. old \in Signal /\ old.timer = a /\ old.serial = serial[a]
      BY DEF TInv, TypeOK
    <3> QED
      BY <3>1 DEF Signal
  <2>3. ASSUME NEW signal \in more
        PROVE  signal \in Signal /\ signal.timer = a /\ signal.serial = serial[a]
    <3>1. PICK old \in queued : signal = [old EXCEPT !.overrun = @ + 1]
      OBVIOUS
    <3> HIDE DEF queued
    <3> QED
      BY <2>2, <3>1
  <2>4. queue' = [queue EXCEPT ![t] = IF queued = {} THEN queue[t] \cup {fresh}
                                      ELSE (queue[t] \ queued) \cup more]
    BY <1>1 DEF Expire
  <2> HIDE DEF queued, fresh, more
  <2> QED
    BY <2>1, <2>3, <2>4 DEF TInv, TypeOK
<1>3. TypeOK'
  BY <1>2 DEF TInv, TypeOK, Expire, structs, table, thread
<1>4. OthersAgree' /\ TargetSound' /\ OwnersSound'
  BY AgreementKept DEF Expire, structs, thread
<1>5. TableExact' /\ SlotsMatch'
  BY TableKept DEF TInv, Expire, structs
<1>6. TicksAreOwn'
  BY <1>1, <1>2 DEF TInv, TicksAreOwn, Acquired, Expire, structs
<1>7. TargetQuiet'
  BY <1>1, <1>2 DEF TInv, TargetQuiet, Expire, thread
<1> QED
  BY <1>3, <1>4, <1>5, <1>6, <1>7 DEF TInv, ProcessSurvives, Expire

\* A tick that is delivered finds the handler, since its timer is in the table.
LEMMA DeliverStep ==
    ASSUME TInv, NEW t \in Threads, Deliver(t)
    PROVE  TInv'
<1>1. PICK signal \in queue[t] :
        /\ queue' = [queue EXCEPT ![t] = @ \ {signal}]
        /\ timer' = IF /\ disposition = "luaprof"
                       /\ \E i \in Slots : activeTimers[i] = signal.timer
                    THEN [timer EXCEPT ![signal.timer] = Handle(@, signal.overrun)]
                    ELSE timer
  BY DEF Deliver
<1>2. signal.timer \in Timers /\ signal.overrun \in Nat /\ Acquired(signal.timer)
  BY DEF TInv, TypeOK, TicksAreOwn, Signal
<1>3. disposition = "luaprof"
  <2>1. /\ slotOf[signal.timer] \in Slots \ FreeSlots
    BY <1>2, TimersAssumption DEF TInv, TypeOK, SlotsMatch, Acquired, FreeSlots
  <2>2. Cardinality(Slots \ FreeSlots) # 0
    BY <2>1, UsedFinite, FS_EmptySet, Zenon
  <2>3. signalUsers = Cardinality(Slots \ FreeSlots) /\ signalUsers \in Nat
    BY DEF TInv, TypeOK, TableExact
  <2> QED
    BY <2>2, <2>3 DEF TInv, TableExact
<1>4. Keeps(timer[signal.timer], Handle(timer[signal.timer], signal.overrun))
  BY <1>2, HandleKeeps DEF TInv, TypeOK
<1>5. /\ timer' \in [Timers -> Timer]
      /\ \A b \in Timers : timer'[b].active = timer[b].active
  BY <1>1, <1>2, <1>4 DEF TInv, TypeOK, Keeps
<1>6. TypeOK' /\ ~killed'
  BY <1>1, <1>3, <1>5 DEF TInv, TypeOK, Deliver, table, thread, history
<1>7. OthersAgree' /\ TargetSound' /\ OwnersSound'
  BY <1>5, AgreementKept DEF Deliver, thread
<1>8. TableExact' /\ SlotsMatch'
  BY TableKept DEF TInv, Deliver
<1>9. TicksAreOwn' /\ TargetQuiet'
  BY <1>1, TicksKept DEF TInv, TypeOK, Deliver, thread, history
<1> QED
  BY <1>6, <1>7, <1>8, <1>9 DEF TInv, ProcessSurvives

-----------------------------------------------------------------------------
(* The invariant, and what follows from it.                                *)

LEMMA InitTInv == Init => TInv
<1> SUFFICES ASSUME Init PROVE TInv
  OBVIOUS
<1>1. TypeOK
  BY NewIsTimer DEF Init, TypeOK
<1>2. OthersAgree /\ TargetSound /\ OwnersSound
  BY NewIsTimer, TimersAssumption
  DEF Init, OthersAgree, Agrees, TargetSound, OwnersSound, Acquired, Arming, Disarming
<1>3. TableExact /\ SlotsMatch
  <2>1. Slots \ FreeSlots = {}
    BY DEF Init, FreeSlots
  <2>2. Cardinality(Slots \ FreeSlots) = 0
    BY <2>1, FS_EmptySet, Zenon
  <2> QED
    BY <2>2 DEF Init, TableExact, SlotsMatch, Acquired
<1>4. TicksAreOwn /\ TargetQuiet /\ ProcessSurvives
  BY DEF Init, TicksAreOwn, TargetQuiet, ProcessSurvives
<1> QED
  BY <1>1, <1>2, <1>3, <1>4 DEF TInv

LEMMA StutterStep == TInv /\ UNCHANGED vars => TInv'
<1> SUFFICES ASSUME TInv, UNCHANGED vars PROVE TInv'
  OBVIOUS
<1> USE DEF vars, structs, table, thread, history
<1>1. TypeOK'
  BY DEF TInv, TypeOK
<1>2. OthersAgree' /\ TargetSound' /\ OwnersSound'
  BY AgreementKept
<1>3. TableExact' /\ SlotsMatch'
  BY TableKept DEF TInv
<1>4. TicksAreOwn' /\ TargetQuiet'
  BY TicksKept
<1> QED
  BY <1>1, <1>2, <1>3, <1>4 DEF TInv, ProcessSurvives

\* The inductive invariant of arm, disarm, the table and the queues, whatever the
\* threads do between one step of lp_thread_timer_arm or _disarm and the next.
THEOREM TimerInvariant == Spec => []TInv
<1>1. TInv /\ [Next]_vars => TInv'
  <2> SUFFICES ASSUME TInv, [Next]_vars PROVE TInv'
    OBVIOUS
  <2>1. ASSUME NEW t \in Threads, NEW a \in Timers,
               \/ New(t, a) \/ Delete(t, a) \/ Acquire(t, a) \/ Disarm(t, a)
               \/ Publish(t, a) \/ SetDraining(t, a) \/ Drain(t, a)
        PROVE  TInv'
    BY <2>1, NewStep, DeleteStep, AcquireStep, DisarmStep, VmStep
  <2>2. ASSUME NEW t \in Threads,
               \/ ArmBlock(t) \/ ArmCreate(t) \/ ArmStart(t) \/ ArmUndo(t)
               \/ Unblock(t) \/ FetchQueued(t) \/ StopTimer(t) \/ CollectQueued(t)
               \/ DisarmRelease(t) \/ SetMask(t) \/ Deliver(t)
        PROVE  TInv'
    BY <2>2, ArmBlockStep, ArmCreateStep, ArmStartStep, ArmUndoStep, UnblockStep,
       FetchQueuedStep, StopTimerStep, CollectQueuedStep, DisarmReleaseStep,
       SetMaskStep, DeliverStep
  <2>3. CASE SetForeign
    BY <2>3, SetForeignStep
  <2>4. CASE \E a \in Timers : Expire(a)
    BY <2>4, ExpireStep
  <2>5. CASE UNCHANGED vars
    BY <2>5, StutterStep
  <2> QED
    BY <2>1, <2>2, <2>3, <2>4, <2>5 DEF Next
<1> QED
  BY <1>1, InitTInv, PTL DEF Spec

\* No tick meets the default action, however disarms, failed arms and the ticks of
\* other threads interleave: the process survives.
THEOREM NeverKilled == Spec => []ProcessSurvives
<1>1. TInv => ProcessSurvives
  BY DEF TInv
<1> QED
  BY <1>1, TimerInvariant, PTL

\* The handler is installed exactly while the table has timers, which are alive.
THEOREM TableAlwaysExact == Spec => []TableExact
<1>1. TInv => TableExact
  BY DEF TInv
<1> QED
  BY <1>1, TimerInvariant, PTL

\* A queued tick is of the arm its timer is in now, on its own thread: the address
\* of a freed timer that comes back never gets the ticks of the one before it.
THEOREM TicksStayOwn == Spec => []TicksAreOwn
<1>1. TInv => TicksAreOwn
  BY DEF TInv
<1> QED
  BY <1>1, TimerInvariant, PTL

\* Every way out of arm and disarm leaves a thread either sampled by the one timer
\* that is in the table, active and running, or with nothing.
THEOREM FailuresLeaveNothing == Spec => []NothingLeftBehind
<1>1. TInv => NothingLeftBehind
  BY DEF TInv, OthersAgree, Agrees, NothingLeftBehind, Arming, Disarming
<1> QED
  BY <1>1, TimerInvariant, PTL

\* Every variable of the process keeps its type; the fields of a timer stay natural
\* numbers and its ring a sequence of slots through every handler.
THEOREM ProcessTyped == Spec => []TypeOK
<1>1. TInv => TypeOK
  BY DEF TInv
<1> QED
  BY <1>1, TimerInvariant, PTL
-----------------------------------------------------------------------------
(* Every expiration is accounted for.                                      *)

\* The expirations of a set of queued signals, and what the library's fold says of it.
Chosen(s) == CHOOSE x \in s : TRUE
Total(S) == FoldSet(LAMBDA signal, sum : sum + 1 + signal.overrun, 0, S)
TotalBody(g, s) == IF s = {} THEN 0 ELSE g[s \ {Chosen(s)}] + 1 + Chosen(s).overrun
TotalIter(S) == CHOOSE iter : iter = [s \in SUBSET S |-> TotalBody(iter, s)]

LEMMA TotalDef == ASSUME NEW S PROVE Total(S) = TotalIter(S)[S]
  BY DEF Total, FoldSet, MapThenFoldSet, TotalIter, TotalBody, Chosen

\* A timer has one signal queued, or none: no sum is longer.
LEMMA TotalShort ==
    ASSUME NEW S, NEW signal, S = {} \/ S = {signal}
    PROVE  Total(S) = IF S = {} THEN 0 ELSE 0 + 1 + signal.overrun
<1> DEFINE g == [s \in SUBSET S |-> IF s = {} THEN 0 ELSE 0 + 1 + signal.overrun]
<1>1. \A s \in SUBSET S : s = {} \/ (s = {signal} /\ Chosen(s) = signal /\ s \ {Chosen(s)} = {})
  BY DEF Chosen
<1>2. {} \in SUBSET S /\ S \in SUBSET S
  OBVIOUS
<1>3. g = [s \in SUBSET S |-> TotalBody(g, s)]
  <2>1. ASSUME NEW s \in SUBSET S PROVE g[s] = TotalBody(g, s)
    BY <1>1, <1>2 DEF TotalBody
  <2>2. g = [s \in SUBSET S |-> g[s]]
    OBVIOUS
  <2> HIDE DEF g
  <2> QED
    BY <2>1, <2>2
<1> HIDE DEF g
<1>4. \E iter : iter = [s \in SUBSET S |-> TotalBody(iter, s)]
  BY <1>3
<1> DEFINE f == TotalIter(S)
<1>5. f = [s \in SUBSET S |-> TotalBody(f, s)]
  BY <1>4 DEF TotalIter
<1> HIDE DEF f
<1>6. \A s \in SUBSET S : f[s] = TotalBody(f, s)
  BY <1>5
<1>7. f[{}] = 0
  BY <1>2, <1>6 DEF TotalBody
<1>8. f[S] = IF S = {} THEN 0 ELSE 0 + 1 + signal.overrun
  BY <1>1, <1>2, <1>6, <1>7 DEF TotalBody
<1> QED
  BY <1>8, TotalDef DEF f

Own(q, a) == {signal \in q : signal.timer = a}

\* The kernel queues one signal of a timer at most.
OneQueued(q) == \A s, r \in q : s.timer = r.timer => s = r

LEMMA WaitingIs ==
    ASSUME NEW q \in SUBSET Signal, OneQueued(q), NEW a
    PROVE  /\ Total(Own(q, a)) \in Nat
           /\ (\A s \in q : s.timer # a) => Total(Own(q, a)) = 0
           /\ \A s \in q : s.timer = a => Total(Own(q, a)) = 1 + s.overrun
<1>1. CASE \A s \in q : s.timer # a
  <2>1. Own(q, a) = {}
    BY <1>1 DEF Own
  <2> QED
    BY <1>1, <2>1, TotalShort
<1>2. ASSUME NEW s \in q, s.timer = a
      PROVE  Total(Own(q, a)) = 1 + s.overrun /\ s.overrun \in Nat
  <2>1. Own(q, a) = {s}
    BY <1>2 DEF Own, OneQueued
  <2>2. Total(Own(q, a)) = 0 + 1 + s.overrun
    BY <2>1, TotalShort
  <2>3. s.overrun \in Nat
    BY DEF Signal
  <2> QED
    BY <2>2, <2>3
<1> QED
  BY <1>1, <1>2

\* What a timer's own functions do to the expirations it holds.
LEMMA OverrunCounts ==
    ASSUME NEW x \in Timer, NEW overrun \in Nat
    PROVE  LET y == RecordOverrun(x, overrun)
           IN  /\ y \in Timer
               /\ y.events = x.events /\ y.dropped = x.dropped
               /\ y.unstable = x.unstable /\ y.overhead = x.overhead
               /\ y.overrunTicks = x.overrunTicks + overrun
<1>1. RecordOverrun(x, overrun) \in Timer
  BY OverrunKeeps DEF Keeps
<1>2. x.overrunTicks \in Nat
  BY DEF Timer
<1> QED
  BY <1>1, <1>2 DEF RecordOverrun, Timer

\* The handler counts the delivery and its overrun, as long as the timer is active.
LEMMA HandleCounts ==
    ASSUME NEW x \in Timer, x.active, NEW overrun \in Nat
    PROVE  Expirations(Handle(x, overrun)) = Expirations(x) + (1 + overrun)
<1> DEFINE y == RecordOverrun(x, overrun)
<1>1. /\ y \in Timer
      /\ y.events = x.events /\ y.dropped = x.dropped
      /\ y.unstable = x.unstable /\ y.overhead = x.overhead
      /\ y.overrunTicks = x.overrunTicks + overrun
  BY OverrunCounts
<1>2. /\ x.events \in Seq(Slot) /\ x.slot \in Slot /\ x.dropped \in Nat /\ x.unstable \in Nat
      /\ x.overhead \in Nat /\ x.overrunTicks \in Nat
      /\ x.active \in BOOLEAN /\ x.draining \in BOOLEAN
  BY DEF Timer
<1>3. Handle(x, overrun) \in {[y EXCEPT !.overhead = @ + 1], [y EXCEPT !.unstable = @ + 1],
                              [y EXCEPT !.dropped = @ + 1],
                              [y EXCEPT !.events = Append(@, x.slot)]}
  BY <1>2 DEF Handle, Attributable
<1> HIDE DEF y
<1> DEFINE n == Len(x.events)
           d == x.dropped
           u == x.unstable
           o == x.overhead
           r == x.overrunTicks
           e == Expirations(x) + (1 + overrun)
<1>10. n \in Nat /\ d \in Nat /\ u \in Nat /\ o \in Nat /\ r \in Nat
  BY <1>2
<1>11. Expirations(x) = n + d + u + o + r
  BY Zenon DEF Expirations, Deliveries, n, d, u, o, r
<1>12. /\ y \in Timer /\ Len(y.events) = n /\ y.dropped = d /\ y.unstable = u
       /\ y.overhead = o /\ y.overrunTicks = r + overrun
       /\ Len(Append(y.events, x.slot)) = n + 1
  BY <1>1, <1>2
<1> HIDE DEF n, d, u, o, r
<1>4. Expirations([y EXCEPT !.overhead = @ + 1]) = n + d + u + (o + 1) + (r + overrun)
  <2> DEFINE z == [y EXCEPT !.overhead = @ + 1]
  <2>1. /\ Len(z.events) = n /\ z.dropped = d /\ z.unstable = u
        /\ z.overhead = o + 1 /\ z.overrunTicks = r + overrun
    BY <1>12 DEF Timer
  <2> HIDE DEF z
  <2>3. Expirations(z) = n + d + u + (o + 1) + (r + overrun)
    BY <2>1, Zenon DEF Expirations, Deliveries
  <2> QED
    BY <2>3 DEF z
<1>5. Expirations([y EXCEPT !.unstable = @ + 1]) = n + d + (u + 1) + o + (r + overrun)
  <2> DEFINE z == [y EXCEPT !.unstable = @ + 1]
  <2>1. /\ Len(z.events) = n /\ z.dropped = d /\ z.unstable = u + 1
        /\ z.overhead = o /\ z.overrunTicks = r + overrun
    BY <1>12 DEF Timer
  <2> HIDE DEF z
  <2>3. Expirations(z) = n + d + (u + 1) + o + (r + overrun)
    BY <2>1, Zenon DEF Expirations, Deliveries
  <2> QED
    BY <2>3 DEF z
<1>6. Expirations([y EXCEPT !.dropped = @ + 1]) = n + (d + 1) + u + o + (r + overrun)
  <2> DEFINE z == [y EXCEPT !.dropped = @ + 1]
  <2>1. /\ Len(z.events) = n /\ z.dropped = d + 1 /\ z.unstable = u
        /\ z.overhead = o /\ z.overrunTicks = r + overrun
    BY <1>12 DEF Timer
  <2> HIDE DEF z
  <2>3. Expirations(z) = n + (d + 1) + u + o + (r + overrun)
    BY <2>1, Zenon DEF Expirations, Deliveries
  <2> QED
    BY <2>3 DEF z
<1>7. Expirations([y EXCEPT !.events = Append(@, x.slot)]) = (n + 1) + d + u + o + (r + overrun)
  <2> DEFINE z == [y EXCEPT !.events = Append(@, x.slot)]
  <2>1. /\ Len(z.events) = n + 1 /\ z.dropped = d /\ z.unstable = u
        /\ z.overhead = o /\ z.overrunTicks = r + overrun
    BY <1>12 DEF Timer
  <2> HIDE DEF z
  <2>3. Expirations(z) = (n + 1) + d + u + o + (r + overrun)
    BY <2>1, Zenon DEF Expirations, Deliveries
  <2> QED
    BY <2>3 DEF z
<1>8. Expirations(Handle(x, overrun)) \in {n + d + u + (o + 1) + (r + overrun),
            n + d + (u + 1) + o + (r + overrun), n + (d + 1) + u + o + (r + overrun),
            (n + 1) + d + u + o + (r + overrun)}
  BY <1>3, <1>4, <1>5, <1>6, <1>7
<1> QED
  BY <1>8, <1>10, <1>11

LEMMA DiscardCounts ==
    ASSUME NEW x \in Timer, NEW overrun \in Nat
    PROVE  Expirations(Discard(x, overrun)) = Expirations(x) + (1 + overrun)
<1> DEFINE y == RecordOverrun(x, overrun)
<1>1. /\ y \in Timer
      /\ y.events = x.events /\ y.dropped = x.dropped
      /\ y.unstable = x.unstable /\ y.overhead = x.overhead
      /\ y.overrunTicks = x.overrunTicks + overrun
  BY OverrunCounts
<1>2. /\ Len(x.events) \in Nat /\ x.dropped \in Nat /\ x.unstable \in Nat
      /\ x.overhead \in Nat /\ x.overrunTicks \in Nat
  BY DEF Timer
<1> HIDE DEF y
<1> DEFINE z == [y EXCEPT !.dropped = @ + 1]
<1>3. Discard(x, overrun) = z
  BY DEF Discard, y
<1>4. /\ z.events = x.events /\ z.dropped = x.dropped + 1 /\ z.unstable = x.unstable
      /\ z.overhead = x.overhead /\ z.overrunTicks = x.overrunTicks + overrun
  BY <1>1 DEF Timer
<1> HIDE DEF z
<1>5. /\ Expirations(z) = Len(x.events) + (x.dropped + 1) + x.unstable + x.overhead
                            + (x.overrunTicks + overrun)
      /\ Expirations(x) = Len(x.events) + x.dropped + x.unstable + x.overhead + x.overrunTicks
  BY <1>4, Zenon DEF Expirations, Deliveries
<1> DEFINE n == Len(x.events)
           d == x.dropped
           u == x.unstable
           o == x.overhead
           r == x.overrunTicks
           c == Expirations(x)
           e == Expirations(z)
<1>6. e = n + (d + 1) + u + o + (r + overrun) /\ c = n + d + u + o + r
  BY <1>5
<1>7. n \in Nat /\ d \in Nat /\ u \in Nat /\ o \in Nat /\ r \in Nat
  BY <1>2
<1> HIDE DEF n, d, u, o, r, c, e
<1>8. e = c + (1 + overrun)
  BY <1>6, <1>7
<1> QED
  BY <1>3, <1>8 DEF c, e

\* The VM only moves expirations into what it has taken.
LEMMA VmCounts ==
    ASSUME NEW x \in Timer
    PROVE  /\ Expirations(BeginDrain(x)) = Expirations(x)
           /\ Expirations(EndDrain(x)) = Expirations(x)
           /\ \A slot \in Slot : Expirations(CloseSlot(x, slot)) = Expirations(x)
           /\ x.events = <<>> => Expirations(TakeQuality(x)) = 0
           /\ x.events # <<>> => Expirations(TakeEvent(x)) + 1 = Expirations(x)
<1>1. /\ x.events \in Seq(Slot) /\ x.dropped \in Nat /\ x.unstable \in Nat
      /\ x.overhead \in Nat /\ x.overrunTicks \in Nat
  BY DEF Timer
<1>2. /\ Expirations(BeginDrain(x)) = Expirations(x)
      /\ Expirations(EndDrain(x)) = Expirations(x)
      /\ \A slot \in Slot : Expirations(CloseSlot(x, slot)) = Expirations(x)
  BY DEF Timer, BeginDrain, EndDrain, CloseSlot, Expirations, Deliveries
<1>3. x.events = <<>> => Expirations(TakeQuality(x)) = 0
  BY <1>1 DEF Timer, TakeQuality, Expirations, Deliveries
<1>4. ASSUME x.events # <<>> PROVE Expirations(TakeEvent(x)) + 1 = Expirations(x)
  <2>1. Len(Tail(x.events)) + 1 = Len(x.events) /\ Len(Tail(x.events)) \in Nat
    BY <1>1, <1>4
  <2>2. /\ TakeEvent(x).events = Tail(x.events) /\ TakeEvent(x).dropped = x.dropped
        /\ TakeEvent(x).unstable = x.unstable /\ TakeEvent(x).overhead = x.overhead
        /\ TakeEvent(x).overrunTicks = x.overrunTicks
    BY DEF Timer, TakeEvent
  <2>3. Len(x.events) \in Nat
    BY <1>1
  <2> DEFINE z == TakeEvent(x)
  <2> HIDE DEF z
  <2>4. /\ z.events = Tail(x.events) /\ z.dropped = x.dropped /\ z.unstable = x.unstable
        /\ z.overhead = x.overhead /\ z.overrunTicks = x.overrunTicks
    BY <2>2 DEF z
  <2>5. /\ Expirations(z) = Len(Tail(x.events)) + x.dropped + x.unstable + x.overhead
                              + x.overrunTicks
        /\ Expirations(x) = Len(x.events) + x.dropped + x.unstable + x.overhead
                              + x.overrunTicks
    BY <2>4, Zenon DEF Expirations, Deliveries
  <2> DEFINE n == Len(Tail(x.events))
             d == x.dropped
             u == x.unstable
             o == x.overhead
             r == x.overrunTicks
             c == Expirations(x)
             e == Expirations(z)
  <2>6. /\ e = n + d + u + o + r /\ c = (n + 1) + d + u + o + r
    BY <2>1, <2>5
  <2>7. n \in Nat /\ d \in Nat /\ u \in Nat /\ o \in Nat /\ r \in Nat
    BY <1>1, <2>1
  <2> HIDE DEF n, d, u, o, r, c, e
  <2>8. e + 1 = c
    BY <2>6, <2>7
  <2> QED
    BY <2>8 DEF c, e, z
<1> QED
  BY <1>2, <1>3, <1>4

LEMMA NewCounts == Expirations(NewTimer) = 0
  BY DEF NewTimer, Expirations, Deliveries

-----------------------------------------------------------------------------
(* The invariant of the counts.                                            *)

\* The expirations that a timer has let go or still holds, and those that wait in the
\* queue of its thread.
Held(a) == taken[a] + Expirations(timer[a])
Waiting(a) == Total(Own(queue[owner[a]], a))

Accounted(a) ==
    /\ Held(a) + Waiting(a) <= expired[a]
    /\ expired[a] <= Held(a) + Waiting(a) + late[a]

\* Since disarm looked at the queue, all that came is late: nothing is missed if the
\* overrun of a queued signal is lost.
StopSound ==
    \A t \in Threads :
        pc[t] = "stop" => expired[target[t]] <= Held(target[t]) + late[target[t]]

\* disarm works with the signal blocked: none is delivered to a timer that is not
\* active any more.
Masked == \A t \in Threads : pc[t] \in Disarming => blocked[t]

CInv ==
    /\ \A t \in Threads : OneQueued(queue[t])
    /\ \A a \in Timers : owner[a] # NoTimer => Accounted(a)
    /\ StopSound /\ Masked

LEMMA Numbers ==
    ASSUME TInv, CInv, NEW a \in Timers
    PROVE  /\ Held(a) \in Nat /\ taken[a] \in Nat /\ Expirations(timer[a]) \in Nat
           /\ expired[a] \in Nat /\ late[a] \in Nat
           /\ owner[a] # NoTimer => owner[a] \in Threads /\ Waiting(a) \in Nat
<1>1. /\ taken[a] \in Nat /\ expired[a] \in Nat /\ late[a] \in Nat /\ timer[a] \in Timer
      /\ owner[a] # NoTimer => owner[a] \in Threads
      /\ \A t \in Threads : queue[t] \in SUBSET Signal
  BY DEF TInv, TypeOK
<1>2. owner[a] # NoTimer => Waiting(a) \in Nat
  BY <1>1, WaitingIs DEF CInv, Waiting
<1> QED
  BY <1>1, <1>2, ExpirationsNat DEF Held

\* What disarm works on is all that is queued for its thread.
LEMMA QueuedForTarget ==
    ASSUME TInv, NEW t \in Threads, pc[t] \in Disarming
    PROVE  \A s \in queue[t] : s.timer = target[t]
<1>1. ASSUME NEW s \in queue[t], s.timer # target[t] PROVE FALSE
  <2>1. s.timer \in Timers /\ owner[s.timer] = t /\ Acquired(s.timer)
    BY DEF TInv, TypeOK, TicksAreOwn, Signal
  <2>2. activeThread[t] = s.timer
    BY <1>1, <2>1 DEF TInv, OthersAgree, Agrees
  <2> QED
    BY <1>1, <2>2 DEF TInv, TargetSound
<1> QED
  BY <1>1

\* A signal that is queued for a thread that is not disarming is of an active timer.
LEMMA QueuedIsActive ==
    ASSUME TInv, NEW t \in Threads, pc[t] \notin Disarming, NEW s \in queue[t]
    PROVE  timer[s.timer].active
<1>1. s.timer \in Timers /\ owner[s.timer] = t /\ Acquired(s.timer)
  BY DEF TInv, TypeOK, TicksAreOwn, Signal
<1>2. pc[t] \in Arming => target[t] # s.timer
  BY DEF TInv, TargetQuiet
<1> QED
  BY <1>1, <1>2 DEF TInv, OthersAgree, Agrees

-----------------------------------------------------------------------------
(* Every step keeps the counts.                                            *)

\* No expiration moves.
LEMMA CountsKept ==
    ASSUME TInv, CInv, UNCHANGED <<queue, expired, late>>, Masked',
           \A a \in Timers : owner'[a] # NoTimer => owner'[a] = owner[a],
           \A a \in Timers : Held(a)' = Held(a),
           \A t \in Threads : pc'[t] = "stop" => pc[t] = "stop" /\ target'[t] = target[t]
    PROVE  CInv'
<1>1. \A t \in Threads : OneQueued(queue'[t])
  BY DEF CInv
<1>2. ASSUME NEW a \in Timers, owner'[a] # NoTimer PROVE Accounted(a)'
  <2>1. owner'[a] = owner[a] /\ Held(a)' = Held(a) /\ Accounted(a)
    BY <1>2 DEF CInv
  <2>2. Waiting(a)' = Waiting(a)
    BY <2>1 DEF Waiting
  <2> QED
    BY <2>1, <2>2 DEF Accounted
<1>3. StopSound'
  BY DEF CInv, StopSound, TInv, TargetSound, Disarming
<1> QED
  BY <1>1, <1>2, <1>3 DEF CInv

\* Marking a timer active counts nothing.
LEMMA ActiveHolds ==
    ASSUME TInv, NEW a \in Timers, NEW on \in BOOLEAN, UNCHANGED taken,
           timer' = [timer EXCEPT ![a].active = on]
    PROVE  \A b \in Timers : Held(b)' = Held(b)
<1>1. timer \in [Timers -> Timer]
  BY DEF TInv, TypeOK
<1>2. Expirations([timer[a] EXCEPT !.active = on]) = Expirations(timer[a])
  BY <1>1 DEF Timer, Expirations, Deliveries
<1> QED
  BY <1>1, <1>2 DEF Held

\* A new timer starts with nothing, and nothing is queued for its address.
LEMMA NewCounted ==
    ASSUME TInv, CInv, NEW t \in Threads, NEW a \in Timers, New(t, a)
    PROVE  CInv'
<1>1. /\ owner' = [owner EXCEPT ![a] = t] /\ owner[a] = NoTimer
      /\ timer' = [timer EXCEPT ![a] = NewTimer]
      /\ expired' = [expired EXCEPT ![a] = 0] /\ taken' = [taken EXCEPT ![a] = 0]
      /\ late' = [late EXCEPT ![a] = 0]
      /\ UNCHANGED <<queue, pc, target, blocked>>
  BY DEF New, thread
<1>2. \A s \in queue[t] : s.timer # a
  BY <1>1, TimersAssumption DEF TInv, TicksAreOwn
<1>3. Accounted(a)'
  <2>1. queue[t] \in SUBSET Signal /\ OneQueued(queue[t])
    BY DEF TInv, TypeOK, CInv
  <2>2. Total(Own(queue[t], a)) = 0
    BY <1>2, <2>1, WaitingIs
  <2>3. Waiting(a)' = 0
    BY <1>1, <2>2 DEF Waiting, TInv, TypeOK
  <2>4. Held(a)' = 0 /\ expired'[a] = 0 /\ late'[a] = 0
    BY <1>1, NewCounts DEF Held, TInv, TypeOK
  <2> QED
    BY <2>3, <2>4 DEF Accounted
<1>4. ASSUME NEW b \in Timers, owner'[b] # NoTimer, b # a PROVE Accounted(b)'
  <2>1. Accounted(b) /\ owner'[b] = owner[b]
    BY <1>1, <1>4 DEF CInv, TInv, TypeOK
  <2>2. Waiting(b)' = Waiting(b)
    BY <1>1, <2>1 DEF Waiting
  <2>3. Held(b)' = Held(b) /\ expired'[b] = expired[b] /\ late'[b] = late[b]
    BY <1>1, <1>4 DEF Held, TInv, TypeOK
  <2> QED
    BY <2>1, <2>2, <2>3 DEF Accounted
<1>5. StopSound'
  <2> SUFFICES ASSUME NEW u \in Threads, pc[u] = "stop"
               PROVE  (expired[target[u]] <= Held(target[u]) + late[target[u]])'
    BY <1>1 DEF StopSound
  <2>1. target[u] \in Timers /\ target[u] # a
    BY <1>1, TimersAssumption DEF TInv, TargetSound, Disarming
  <2>2. expired[target[u]] <= Held(target[u]) + late[target[u]]
    BY DEF CInv, StopSound
  <2> QED
    BY <1>1, <2>1, <2>2 DEF Held, TInv, TypeOK
<1>6. Masked' /\ \A u \in Threads : OneQueued(queue'[u])
  BY <1>1 DEF CInv, Masked
<1> QED
  BY <1>3, <1>4, <1>5, <1>6 DEF CInv

\* What the VM takes leaves its timer.
LEMMA VmCounted ==
    ASSUME TInv, CInv, NEW t \in Threads, NEW a \in Timers,
           Publish(t, a) \/ SetDraining(t, a) \/ Drain(t, a)
    PROVE  CInv'
<1>1. timer \in [Timers -> Timer] /\ taken \in [Timers -> Nat] /\ Expirations(timer[a]) \in Nat
  BY Numbers DEF TInv, TypeOK
<1>2. PICK x : Use(t, a, x) /\ \A b \in Timers : Held(b)' = Held(b)
  <2>1. CASE Publish(t, a)
    <3>1. PICK slot \in Slot : Use(t, a, CloseSlot(timer[a], slot)) /\ UNCHANGED taken
      BY <2>1 DEF Publish, Slot, VmStates
    <3>2. Expirations(CloseSlot(timer[a], slot)) = Expirations(timer[a])
      BY <1>1, VmCounts
    <3> QED
      BY <1>1, <3>1, <3>2 DEF Use, Held
  <2>2. CASE SetDraining(t, a)
    <3>1. PICK x : /\ Use(t, a, x) /\ UNCHANGED taken
                   /\ x = BeginDrain(timer[a]) \/ x = EndDrain(timer[a])
      BY <2>2 DEF SetDraining
    <3>2. Expirations(x) = Expirations(timer[a])
      BY <1>1, <3>1, VmCounts
    <3> QED
      BY <1>1, <3>1, <3>2 DEF Use, Held
  <2>3. ASSUME timer[a].events # <<>>, Use(t, a, TakeEvent(timer[a])),
               taken' = [taken EXCEPT ![a] = @ + 1]
        PROVE  \A b \in Timers : Held(b)' = Held(b)
    <3>1. Expirations(TakeEvent(timer[a])) + 1 = Expirations(timer[a])
      BY <1>1, <2>3, VmCounts
    <3>2. Held(a)' = (taken[a] + 1) + Expirations(TakeEvent(timer[a]))
      BY <1>1, <2>3 DEF Use, Held
    <3>3. Use(t, a, TakeEvent(timer[a])) => Keeps(timer[a], TakeEvent(timer[a]))
      BY <1>1, <2>3, VmKeeps
    <3>4. Expirations(TakeEvent(timer[a])) \in Nat
      BY <2>3, <3>3, ExpirationsNat DEF Keeps
    <3>5. Held(a)' = Held(a)
      BY <1>1, <3>1, <3>2, <3>4 DEF Held
    <3> QED
      BY <1>1, <2>3, <3>5 DEF Use, Held
  <2>4. ASSUME timer[a].events = <<>>, Use(t, a, TakeQuality(timer[a])),
               taken' = [taken EXCEPT ![a] = @ + Expirations(timer[a])]
        PROVE  \A b \in Timers : Held(b)' = Held(b)
    <3>1. Expirations(TakeQuality(timer[a])) = 0
      BY <1>1, <2>4, VmCounts
    <3>2. Held(a)' = (taken[a] + Expirations(timer[a])) + 0
      BY <1>1, <2>4, <3>1 DEF Use, Held
    <3>3. Held(a)' = Held(a)
      BY <1>1, <3>2 DEF Held
    <3> QED
      BY <1>1, <2>4, <3>3 DEF Use, Held
  <2> QED
    BY <2>1, <2>2, <2>3, <2>4 DEF Drain
<1>3. UNCHANGED <<queue, expired, late, owner, pc, target, blocked>>
  BY <1>2 DEF Use, thread
<1>4. Masked'
  BY <1>3 DEF CInv, Masked
<1> QED
  BY <1>2, <1>3, <1>4, CountsKept

\* A timer is freed or acquired, or disarm begins: no tick comes or goes.
LEMMA TimerCounted ==
    ASSUME TInv, CInv, NEW t \in Threads, NEW a \in Timers,
           Delete(t, a) \/ Acquire(t, a) \/ Disarm(t, a)
    PROVE  CInv'
<1> USE DEF Delete, Acquire, Disarm, history, structs, thread, Goto
<1>1. UNCHANGED <<queue, expired, late, taken>>
  OBVIOUS
<1>2. \A b \in Timers : owner'[b] # NoTimer => owner'[b] = owner[b]
  BY DEF TInv, TypeOK
<1>3. \A b \in Timers : Held(b)' = Held(b)
  <2>1. CASE timer' = timer
    BY <1>1, <2>1 DEF Held
  <2>2. CASE Disarm(t, a)
    BY <1>1, <2>2, ActiveHolds
  <2> QED
    BY <2>1, <2>2
<1>4. /\ pc = [u \in Threads |-> pc[u]] /\ target \in [Threads -> Timers \cup {NoTimer}]
      /\ blocked \in [Threads -> BOOLEAN]
  BY DEF TInv, TypeOK
<1>5. \A u \in Threads : pc'[u] = "stop" => pc[u] = "stop" /\ target'[u] = target[u]
  BY <1>4
<1>6. Masked'
  BY <1>4 DEF CInv, Masked, Disarming
<1> QED
  BY <1>1, <1>2, <1>3, <1>5, <1>6, CountsKept

\* Nor does one at the other steps of arm, and where disarm ends.
LEMMA ArmCounted ==
    ASSUME TInv, CInv, NEW t \in Threads,
           \/ ArmBlock(t) \/ ArmCreate(t) \/ ArmStart(t) \/ ArmUndo(t) \/ Unblock(t)
           \/ DisarmRelease(t) \/ SetMask(t)
    PROVE  CInv'
<1> USE DEF ArmBlock, ArmCreate, ArmStart, ArmUndo, Unblock, DisarmRelease, SetMask,
            history, structs, thread, Goto
<1>1. UNCHANGED <<queue, expired, late, taken, owner>>
  OBVIOUS
<1>2. \A b \in Timers : Held(b)' = Held(b)
  <2>1. CASE timer' = timer
    BY <1>1, <2>1 DEF Held
  <2>2. ASSUME ArmStart(t), timer' # timer PROVE \A b \in Timers : Held(b)' = Held(b)
    <3>1. target[t] \in Timers
      BY <2>2 DEF TInv, TargetSound, Arming
    <3>2. timer' = [timer EXCEPT ![target[t]].active = TRUE]
      BY <2>2
    <3> QED
      BY <1>1, <3>1, <3>2, ActiveHolds
  <2> QED
    BY <2>1, <2>2
<1>3. /\ pc = [u \in Threads |-> pc[u]] /\ target \in [Threads -> Timers \cup {NoTimer}]
      /\ blocked \in [Threads -> BOOLEAN]
  BY DEF TInv, TypeOK
<1>4. \A u \in Threads : pc'[u] = "stop" => pc[u] = "stop" /\ target'[u] = target[u]
  BY <1>3
<1>5. Masked'
  BY <1>3 DEF CInv, Masked, Disarming
<1> QED
  BY <1>1, <1>2, <1>4, <1>5, CountsKept

\* A signal leaves the queue of a thread, and its timer counts it.
Counted(t, s) ==
    /\ queue' = [queue EXCEPT ![t] = @ \ {s}]
    /\ UNCHANGED <<owner, expired, late, taken>>
    /\ Expirations(timer'[s.timer]) = Expirations(timer[s.timer]) + (1 + s.overrun)
    /\ \A b \in Timers : b # s.timer => timer'[b] = timer[b]

LEMMA SignalCounted ==
    ASSUME TInv, CInv, NEW t \in Threads, NEW s \in queue[t], Counted(t, s)
    PROVE  /\ \A u \in Threads : OneQueued(queue'[u])
           /\ \A a \in Timers : owner'[a] # NoTimer => Accounted(a)'
           /\ \A a \in Timers : Held(a) <= Held(a)'
           /\ queue'[t] = queue[t] \ {s}
<1>1. /\ queue \in [Threads -> SUBSET Signal] /\ timer \in [Timers -> Timer]
      /\ s \in Signal /\ s.timer \in Timers /\ s.overrun \in Nat
      /\ owner[s.timer] = t /\ \A u \in Threads : OneQueued(queue[u])
  BY DEF TInv, TypeOK, Signal, TicksAreOwn, CInv
<1>2. /\ \A u \in Threads : queue'[u] \subseteq queue[u]
      /\ queue'[t] = queue[t] \ {s}
      /\ \A u \in Threads : u # t => queue'[u] = queue[u]
  BY <1>1 DEF Counted
<1>3. \A u \in Threads : OneQueued(queue'[u])
  BY <1>1, <1>2 DEF OneQueued
<1>4. Held(s.timer)' = Held(s.timer) + (1 + s.overrun) /\ Held(s.timer) \in Nat
  <2> DEFINE k == taken[s.timer]
             m == Expirations(timer[s.timer])
             w == 1 + s.overrun
             e == Expirations(timer'[s.timer])
             h == Held(s.timer)
             g == Held(s.timer)'
  <2>1. k \in Nat /\ m \in Nat /\ w \in Nat /\ h \in Nat /\ h = k + m
    BY <1>1, Numbers DEF Held
  <2>2. e = m + w
    BY DEF Counted
  <2>3. g = k + e
    BY DEF Held, Counted
  <2> HIDE DEF k, m, w, e, h, g
  <2>4. g = h + w /\ h \in Nat
    BY <2>1, <2>2, <2>3
  <2> QED
    BY <2>4 DEF w, h, g
<1>5. \A a \in Timers : a # s.timer => Held(a)' = Held(a) /\ Held(a) \in Nat
  BY Numbers DEF Held, Counted
<1>6. \A a \in Timers : Held(a) <= Held(a)'
  BY <1>1, <1>4, <1>5
<1>7. Accounted(s.timer)'
  <2>1. Accounted(s.timer)
    BY <1>1, TimersAssumption DEF CInv
  <2>2. Waiting(s.timer) = 1 + s.overrun
    BY <1>1, WaitingIs DEF Waiting
  <2>3. \A r \in queue'[t] : r.timer # s.timer
    BY <1>1, <1>2 DEF OneQueued
  <2>4. Total(Own(queue'[t], s.timer)) = 0
    <3>1. queue'[t] \in SUBSET Signal /\ OneQueued(queue'[t])
      BY <1>1, <1>2, <1>3
    <3> QED
      BY <2>3, <3>1, WaitingIs
  <2>5. Waiting(s.timer)' = 0
    BY <1>1, <2>4 DEF Waiting, Counted
  <2>6. UNCHANGED <<expired, late>> /\ expired[s.timer] \in Nat /\ late[s.timer] \in Nat
    BY <1>1, Numbers DEF Counted
  <2> QED
    BY <1>1, <1>4, <2>1, <2>2, <2>5, <2>6 DEF Accounted
<1>8. ASSUME NEW a \in Timers, owner'[a] # NoTimer, a # s.timer PROVE Accounted(a)'
  <2>1. Accounted(a) /\ owner' = owner /\ expired' = expired /\ late' = late
    BY <1>8 DEF CInv, Counted
  <2>2. owner[a] \in Threads
    BY <1>8, <2>1 DEF TInv, TypeOK
  <2>3. Own(queue'[owner[a]], a) = Own(queue[owner[a]], a)
    BY <1>2, <1>8, <2>2 DEF Own
  <2>4. Waiting(a)' = Waiting(a)
    BY <2>1, <2>3 DEF Waiting
  <2> QED
    BY <1>5, <1>8, <2>1, <2>4 DEF Accounted
<1> QED
  BY <1>2, <1>3, <1>6, <1>7, <1>8

\* More is held, and disarm stays where it is.
LEMMA StopKept ==
    ASSUME TInv, CInv, UNCHANGED <<expired, late, target>>,
           \A a \in Timers : Held(a) <= Held(a)' /\ Held(a)' \in Nat,
           NEW t \in Threads, pc[t] = "stop"
    PROVE  expired'[target'[t]] <= Held(target[t])' + late'[target'[t]]
<1>1. target[t] \in Timers
  BY DEF TInv, TargetSound, Disarming
<1>2. expired[target[t]] <= Held(target[t]) + late[target[t]]
  BY DEF CInv, StopSound
<1> QED
  BY <1>1, <1>2, Numbers

\* disarm counts what it takes off the queue.
LEMMA TakenCounted ==
    ASSUME TInv, NEW t \in Threads, pc[t] \in Disarming, NEW s \in queue[t],
           TakeSignal(t, s), UNCHANGED <<owner, expired, late, taken>>
    PROVE  Counted(t, s)
<1>1. /\ target[t] \in Timers /\ s.timer = target[t] /\ s.overrun \in Nat
      /\ timer \in [Timers -> Timer]
  BY QueuedForTarget DEF TInv, TypeOK, TargetSound, Signal
<1>2. Expirations(Discard(timer[target[t]], s.overrun))
            = Expirations(timer[target[t]]) + (1 + s.overrun)
  BY <1>1, DiscardCounts
<1> QED
  BY <1>1, <1>2 DEF Counted, TakeSignal

\* A held number stays one.
LEMMA HeldNat ==
    ASSUME TInv', NEW a \in Timers
    PROVE  Held(a)' \in Nat
<1>1. timer'[a] \in Timer /\ taken'[a] \in Nat
  BY DEF TInv, TypeOK
<1> QED
  BY <1>1, ExpirationsNat DEF Held

\* After disarm's look at the queue nothing is left in it.
LEMMA FetchCounted ==
    ASSUME TInv, CInv, TInv', NEW t \in Threads, FetchQueued(t)
    PROVE  CInv'
<1>1. /\ pc[t] = "fetch" /\ pc' = [pc EXCEPT ![t] = "stop"]
      /\ UNCHANGED <<owner, expired, late, taken, target, blocked>>
      /\ target[t] \in Timers /\ owner[target[t]] = t
  BY DEF FetchQueued, Goto, history, TInv, TargetSound, Disarming
<1>2. /\ \A u \in Threads : OneQueued(queue'[u])
      /\ \A a \in Timers : owner'[a] # NoTimer => Accounted(a)'
      /\ \A a \in Timers : Held(a) <= Held(a)'
      /\ queue'[t] = {}
  <2>1. CASE queue[t] = {} /\ UNCHANGED <<queue, timer>>
    <3>1. \A a \in Timers : Held(a)' = Held(a) /\ Held(a) \in Nat
      BY <1>1, <2>1, Numbers DEF Held
    <3>2. \A a \in Timers : owner'[a] # NoTimer => Accounted(a)'
      BY <1>1, <2>1, <3>1 DEF CInv, Accounted, Waiting
    <3> QED
      BY <2>1, <3>1, <3>2 DEF CInv
  <2>2. ASSUME NEW s \in queue[t], TakeSignal(t, s) PROVE <1>2
    <3>1. Counted(t, s)
      BY <1>1, <2>2, TakenCounted DEF Disarming
    <3>2. queue[t] \ {s} = {}
      BY <1>1, QueuedForTarget DEF CInv, OneQueued, Disarming
    <3> QED
      BY <3>1, <3>2, SignalCounted
  <2> QED
    BY <2>1, <2>2 DEF FetchQueued
<1>3. StopSound'
  <2> SUFFICES ASSUME NEW u \in Threads, pc'[u] = "stop"
               PROVE  expired'[target'[u]] <= Held(target[u])' + late'[target'[u]]
    BY DEF StopSound
  <2>1. CASE u # t
    <3>1. pc[u] = "stop"
      BY <1>1, <2>1
    <3>2. \A a \in Timers : Held(a)' \in Nat
      BY HeldNat
    <3> QED
      BY <1>1, <1>2, <3>1, <3>2, StopKept
  <2>2. CASE u = t
    <3> DEFINE a == target[t]
    <3>1. Accounted(a)' /\ Held(a)' \in Nat
      BY <1>1, <1>2, HeldNat, TimersAssumption
    <3>2. Waiting(a)' = 0
      <4>1. Own(queue'[t], a) = {}
        BY <1>2 DEF Own
      <4>2. Total({}) = 0
        BY TotalShort
      <4> QED
        BY <1>1, <4>1, <4>2 DEF Waiting
    <3>3. expired'[a] \in Nat /\ late'[a] \in Nat
      BY <1>1, Numbers
    <3> QED
      BY <1>1, <2>2, <3>1, <3>2, <3>3 DEF Accounted
  <2> QED
    BY <2>1, <2>2
<1>4. Masked'
  BY <1>1 DEF CInv, Masked, Disarming, TInv, TypeOK
<1> QED
  BY <1>2, <1>3, <1>4 DEF CInv

\* So it is with each signal of disarm's loop.
LEMMA CollectCounted ==
    ASSUME TInv, CInv, TInv', NEW t \in Threads, CollectQueued(t)
    PROVE  CInv'
<1>1. /\ pc[t] = "collect" /\ UNCHANGED <<owner, expired, late, taken, target, blocked>>
      /\ pc' = pc \/ pc' = [pc EXCEPT ![t] = "release"]
  BY DEF CollectQueued, Goto, history
<1>2. Masked' /\ \A u \in Threads : pc'[u] = "stop" => pc[u] = "stop"
  BY <1>1 DEF CInv, Masked, Disarming, TInv, TypeOK
<1>3. CASE UNCHANGED <<queue, timer>>
  <2>1. \A a \in Timers : Held(a)' = Held(a)
    BY <1>1, <1>3 DEF Held
  <2> QED
    BY <1>1, <1>2, <1>3, <2>1, CountsKept
<1>4. ASSUME NEW s \in queue[t], TakeSignal(t, s) PROVE CInv'
  <2>1. Counted(t, s)
    BY <1>1, <1>4, TakenCounted DEF Disarming
  <2>2. /\ \A u \in Threads : OneQueued(queue'[u])
        /\ \A a \in Timers : owner'[a] # NoTimer => Accounted(a)'
        /\ \A a \in Timers : Held(a) <= Held(a)' /\ Held(a)' \in Nat
    BY <2>1, SignalCounted, HeldNat
  <2>3. StopSound'
    BY <1>1, <1>2, <2>2, StopKept DEF StopSound
  <2> QED
    BY <1>2, <2>2, <2>3 DEF CInv
<1> QED
  BY <1>3, <1>4 DEF CollectQueued

\* What is delivered finds the handler and an active timer.
LEMMA DeliverCounted ==
    ASSUME TInv, CInv, TInv', NEW t \in Threads, Deliver(t)
    PROVE  CInv'
<1>1. PICK s \in queue[t] :
        /\ queue' = [queue EXCEPT ![t] = @ \ {s}]
        /\ timer' = IF /\ disposition = "luaprof"
                       /\ \E i \in Slots : activeTimers[i] = s.timer
                    THEN [timer EXCEPT ![s.timer] = Handle(@, s.overrun)]
                    ELSE timer
  BY DEF Deliver
<1>2. /\ UNCHANGED <<owner, expired, late, taken, target, blocked, pc>>
      /\ ~blocked[t] /\ pc[t] \notin Disarming
  BY DEF Deliver, history, thread, CInv, Masked
<1>3. /\ s.timer \in Timers /\ s.overrun \in Nat /\ Acquired(s.timer)
      /\ timer[s.timer] \in Timer /\ timer[s.timer].active
  BY <1>2, QueuedIsActive DEF TInv, TypeOK, TicksAreOwn, Signal
<1>4. slotOf[s.timer] \in Slots /\ activeTimers[slotOf[s.timer]] = s.timer
  BY <1>3 DEF TInv, TypeOK, SlotsMatch, Acquired
<1>5. disposition = "luaprof"
  <2>1. slotOf[s.timer] \in Slots \ FreeSlots
    BY <1>3, <1>4, TimersAssumption DEF FreeSlots
  <2>2. Cardinality(Slots \ FreeSlots) # 0
    BY <2>1, UsedFinite, FS_EmptySet, Zenon
  <2>3. signalUsers = Cardinality(Slots \ FreeSlots) /\ signalUsers \in Nat
    BY DEF TInv, TypeOK, TableExact
  <2> QED
    BY <2>2, <2>3 DEF TInv, TableExact
<1>6. timer' = [timer EXCEPT ![s.timer] = Handle(@, s.overrun)]
  BY <1>1, <1>4, <1>5
<1>7. Expirations(Handle(timer[s.timer], s.overrun))
        = Expirations(timer[s.timer]) + (1 + s.overrun)
  BY <1>3, HandleCounts
<1>8. Counted(t, s)
  BY <1>1, <1>2, <1>3, <1>6, <1>7 DEF Counted, TInv, TypeOK
<1>9. /\ \A u \in Threads : OneQueued(queue'[u])
      /\ \A a \in Timers : owner'[a] # NoTimer => Accounted(a)'
      /\ \A a \in Timers : Held(a) <= Held(a)' /\ Held(a)' \in Nat
  BY <1>8, SignalCounted, HeldNat
<1>10. StopSound'
  BY <1>2, <1>9, StopKept DEF StopSound
<1>11. Masked'
  BY <1>2 DEF CInv, Masked
<1> QED
  BY <1>9, <1>10, <1>11 DEF CInv

\* Stopping the timer may lose the overrun of the signal that is still queued, all of
\* which is late.
LEMMA StopCounted ==
    ASSUME TInv, CInv, TInv', NEW t \in Threads, StopTimer(t)
    PROVE  CInv'
<1>1. PICK a \in Timers :
        /\ a = target[t] /\ owner[a] = t /\ pc[t] = "stop"
        /\ pc' = [pc EXCEPT ![t] = "collect"]
  BY DEF TInv, TargetSound, StopTimer, Goto, Disarming
<1>2. UNCHANGED <<owner, expired, late, taken, timer, target, blocked>>
  BY DEF StopTimer, history
<1>3. Masked' /\ \A u \in Threads : pc'[u] = "stop" => pc[u] = "stop"
  BY <1>1, <1>2 DEF CInv, Masked, Disarming, TInv, TypeOK
<1>4. \A b \in Timers : Held(b)' = Held(b) /\ Held(b) \in Nat
  BY <1>2, Numbers DEF Held
<1>5. CASE UNCHANGED queue
  BY <1>2, <1>3, <1>4, <1>5, CountsKept
<1>6. ASSUME NEW s \in queue[t], s.timer = a,
             queue' = [queue EXCEPT ![t] = (@ \ {s}) \cup {[s EXCEPT !.overrun = 0]}]
      PROVE  CInv'
  <2> DEFINE z == [s EXCEPT !.overrun = 0]
  <2>1. /\ s \in Signal /\ s.overrun \in Nat /\ z \in Signal /\ z.timer = a /\ z.overrun = 0
        /\ queue \in [Threads -> SUBSET Signal]
    BY <1>6 DEF TInv, TypeOK, Signal
  <2>2. queue' = [queue EXCEPT ![t] = (@ \ {s}) \cup {z}]
    BY <1>6
  <2> HIDE DEF z
  <2>3. /\ queue'[t] = (queue[t] \ {s}) \cup {z}
        /\ \A u \in Threads : u # t => queue'[u] = queue[u]
        /\ \A u \in Threads : queue'[u] \in SUBSET Signal
    BY <2>1, <2>2
  <2>4. /\ \A u \in Threads : OneQueued(queue'[u])
        /\ \A u \in Threads : OneQueued(queue[u])
    BY <1>6, <2>1, <2>3 DEF CInv, OneQueued
  <2>5. Accounted(a)'
    <3>1. Total(Own(queue'[t], a)) = 1 + z.overrun
      <4>1. z \in queue'[t] /\ queue'[t] \in SUBSET Signal /\ OneQueued(queue'[t])
        BY <2>3, <2>4
      <4> QED
        BY <2>1, <4>1, WaitingIs
    <3>2. Waiting(a)' = 1
      BY <1>1, <1>2, <2>1, <3>1 DEF Waiting
    <3>3. Waiting(a) = 1 + s.overrun
      BY <1>1, <1>6, <2>1, <2>4, WaitingIs DEF Waiting
    <3>4. Accounted(a) /\ expired[a] <= Held(a) + late[a]
      BY <1>1, TimersAssumption DEF CInv, StopSound
    <3>5. expired[a] \in Nat /\ late[a] \in Nat
      BY Numbers
    <3> QED
      BY <1>2, <1>4, <2>1, <3>2, <3>3, <3>4, <3>5 DEF Accounted
  <2>6. ASSUME NEW b \in Timers, owner'[b] # NoTimer, b # a PROVE Accounted(b)'
    <3>1. Accounted(b) /\ owner[b] \in Threads
      BY <1>2, <2>6 DEF CInv, TInv, TypeOK
    <3>2. Own(queue'[owner[b]], b) = Own(queue[owner[b]], b)
      BY <1>6, <2>1, <2>3, <2>6, <3>1 DEF Own
    <3>3. Waiting(b)' = Waiting(b)
      BY <1>2, <3>2 DEF Waiting
    <3> QED
      BY <1>2, <1>4, <3>1, <3>3 DEF Accounted
  <2>7. StopSound'
    BY <1>2, <1>3, <1>4, StopKept DEF StopSound
  <2> QED
    BY <1>3, <2>4, <2>5, <2>6, <2>7 DEF CInv
<1> QED
  BY <1>1, <1>5, <1>6 DEF StopTimer

\* An expiration is queued, or adds to what is; while disarm is about to stop the timer
\* it is late.
LEMMA ExpireCounted ==
    ASSUME TInv, CInv, TInv', NEW a \in Timers, Expire(a)
    PROVE  CInv'
<1>1. PICK t \in Threads : t = owner[a]
  BY DEF Expire, TInv, TypeOK, OwnersSound
<1>2. /\ UNCHANGED <<owner, timer, taken, target, blocked, pc>>
      /\ expired' = [expired EXCEPT ![a] = @ + 1]
      /\ late' = IF pc[t] = "stop" THEN [late EXCEPT ![a] = @ + 1] ELSE late
  BY <1>1 DEF Expire, structs, thread
<1>3. /\ queue \in [Threads -> SUBSET Signal] /\ expired \in [Timers -> Nat]
      /\ late \in [Timers -> Nat] /\ serial[a] \in Nat
      /\ \A u \in Threads : OneQueued(queue[u]) /\ queue'[u] \in SUBSET Signal
  BY DEF TInv, TypeOK, CInv
<1>4. \A b \in Timers : Held(b)' = Held(b) /\ Held(b) \in Nat
  BY <1>2, Numbers DEF Held
<1> DEFINE Queued(z) ==
            /\ z.timer = a
            /\ queue'[t] = {s \in queue[t] : s.timer # a} \cup {z}
            /\ \A u \in Threads : u # t => queue'[u] = queue[u]
            /\ z.overrun = Total(Own(queue[t], a))
<1>5. PICK z \in Signal : Queued(z)
  <2> DEFINE queued == {s \in queue[t] : s.timer = a /\ s.serial = serial[a]}
             fresh == [timer |-> a, overrun |-> 0, serial |-> serial[a]]
             more == {[s EXCEPT !.overrun = @ + 1] : s \in queued}
  <2>1. queue' = [queue EXCEPT ![t] = IF queued = {} THEN queue[t] \cup {fresh}
                                      ELSE (queue[t] \ queued) \cup more]
    BY <1>1 DEF Expire
  <2>2. \A s \in queue[t] : s.timer = a => s.serial = serial[a]
    BY DEF TInv, TicksAreOwn
  <2>3. fresh \in Signal /\ fresh.timer = a /\ fresh.overrun = 0
    BY <1>3 DEF Signal
  <2>4. CASE \A s \in queue[t] : s.timer # a
    <3>1. queued = {}
      BY <2>4
    <3>2. Total(Own(queue[t], a)) = 0
      BY <1>3, <2>4, WaitingIs
    <3> HIDE DEF queued, fresh, more
    <3>3. queue' = [queue EXCEPT ![t] = queue[t] \cup {fresh}]
      BY <2>1, <3>1
    <3>4. queue'[t] = {s \in queue[t] : s.timer # a} \cup {fresh}
          /\ \A u \in Threads : u # t => queue'[u] = queue[u]
      BY <1>3, <2>4, <3>3
    <3> QED
      BY <2>3, <3>2, <3>4
  <2>5. ASSUME NEW s \in queue[t], s.timer = a PROVE \E r \in Signal : Queued(r)
    <3> DEFINE z == [s EXCEPT !.overrun = @ + 1]
    <3>1. queued = {s} /\ more = {z}
      BY <1>3, <2>2, <2>5 DEF OneQueued
    <3>2. z \in Signal /\ z.timer = a /\ z.overrun = s.overrun + 1 /\ s.overrun \in Nat
      BY <1>3, <2>5 DEF Signal
    <3>3. Total(Own(queue[t], a)) = 1 + s.overrun
      BY <1>3, <2>5, WaitingIs
    <3> HIDE DEF queued, fresh, more, z
    <3>4. queue' = [queue EXCEPT ![t] = (queue[t] \ {s}) \cup {z}]
      BY <2>1, <3>1
    <3>5. queue[t] \ {s} = {r \in queue[t] : r.timer # a}
      BY <1>3, <2>5 DEF OneQueued
    <3>6. queue'[t] = {r \in queue[t] : r.timer # a} \cup {z}
          /\ \A u \in Threads : u # t => queue'[u] = queue[u]
      BY <1>3, <3>4, <3>5
    <3>7. z.overrun = Total(Own(queue[t], a))
      BY <3>2, <3>3
    <3> QED
      BY <3>2, <3>6, <3>7
  <2> QED
    BY <2>4, <2>5
<1>6. \A u \in Threads : OneQueued(queue'[u])
  BY <1>3, <1>5 DEF OneQueued
<1>7. Accounted(a)'
  <2>1. Total(Own(queue'[t], a)) = 1 + z.overrun
    <3>1. z \in queue'[t] /\ queue'[t] \in SUBSET Signal /\ OneQueued(queue'[t])
      BY <1>3, <1>5, <1>6
    <3> QED
      BY <1>5, <3>1, WaitingIs
  <2>2. Waiting(a)' = 1 + Waiting(a)
    BY <1>1, <1>2, <1>5, <2>1 DEF Waiting
  <2>3. Accounted(a) /\ Waiting(a) \in Nat
    BY <1>1, TimersAssumption, Numbers DEF CInv
  <2>4. expired'[a] = expired[a] + 1 /\ late'[a] >= late[a] /\ late'[a] \in Nat
        /\ expired[a] \in Nat /\ late[a] \in Nat
    BY <1>2, <1>3
  <2> QED
    BY <1>4, <2>2, <2>3, <2>4 DEF Accounted
<1>8. ASSUME NEW b \in Timers, owner'[b] # NoTimer, b # a PROVE Accounted(b)'
  <2>1. Accounted(b) /\ owner[b] \in Threads
    BY <1>2, <1>8 DEF CInv, TInv, TypeOK
  <2>2. Own(queue'[owner[b]], b) = Own(queue[owner[b]], b)
    BY <1>5, <1>8, <2>1 DEF Own
  <2>3. Waiting(b)' = Waiting(b)
    BY <1>2, <2>2 DEF Waiting
  <2>4. expired'[b] = expired[b] /\ late'[b] = late[b]
    BY <1>2, <1>3, <1>8
  <2> QED
    BY <1>4, <2>1, <2>3, <2>4 DEF Accounted
<1>9. StopSound'
  <2> SUFFICES ASSUME NEW u \in Threads, pc[u] = "stop"
               PROVE  expired'[target[u]] <= Held(target[u])' + late'[target[u]]
    BY <1>2 DEF StopSound
  <2>1. PICK b \in Timers : b = target[u] /\ owner[b] = u
    BY DEF TInv, TargetSound, Disarming
  <2>2. expired[b] <= Held(b) + late[b]
    BY <2>1 DEF CInv, StopSound
  <2>3. /\ Held(b)' = Held(b) /\ Held(b) \in Nat /\ expired[b] \in Nat /\ late[b] \in Nat
        /\ Held(target[u])' = Held(b)'
    BY <1>2, <1>3, <1>4, <2>1 DEF Held
  <2>4. \/ expired'[b] = expired[b] + 1 /\ late'[b] = late[b] + 1
        \/ expired'[b] = expired[b] /\ late'[b] = late[b]
    BY <1>1, <1>2, <1>3, <2>1
  <2>5. expired'[b] <= Held(b)' + late'[b]
    BY <2>2, <2>3, <2>4
  <2> QED
    BY <2>1, <2>3, <2>5
<1>10. Masked'
  BY <1>2 DEF CInv, Masked
<1> QED
  BY <1>6, <1>7, <1>8, <1>9, <1>10 DEF CInv

LEMMA InitCInv == Init => CInv
<1> SUFFICES ASSUME Init PROVE CInv
  OBVIOUS
<1>1. /\ \A t \in Threads : OneQueued(queue[t])
      /\ \A a \in Timers : owner[a] = NoTimer
  BY DEF Init, OneQueued
<1>2. StopSound /\ Masked
  BY DEF Init, StopSound, Masked, Disarming
<1> QED
  BY <1>1, <1>2 DEF CInv

LEMMA StutterCounted == TInv /\ CInv /\ (SetForeign \/ UNCHANGED vars) => CInv'
<1> SUFFICES ASSUME TInv, CInv, SetForeign \/ UNCHANGED vars PROVE CInv'
  OBVIOUS
<1>1. UNCHANGED <<queue, expired, late, owner, timer, taken, pc, target, blocked>>
  BY DEF SetForeign, vars, structs, thread, history
<1>2. Masked' /\ \A a \in Timers : Held(a)' = Held(a)
  BY <1>1 DEF CInv, Masked, Held
<1> QED
  BY <1>1, <1>2, CountsKept

\* Every expiration of a timer waits in a queue, is in the timer's fields, or was taken,
\* and once only: the ticks of a recording, in all that the handler, disarm's own look
\* at the queue and the kernel do to them.  Only what came after that look may be lost.
THEOREM NoneLost == Spec => []ExpirationsKept
<1>1. TInv /\ TInv' /\ CInv /\ [Next]_vars => CInv'
  <2> SUFFICES ASSUME TInv, TInv', CInv, [Next]_vars PROVE CInv'
    OBVIOUS
  <2>1. ASSUME NEW t \in Threads, NEW a \in Timers,
               \/ New(t, a) \/ Delete(t, a) \/ Acquire(t, a) \/ Disarm(t, a)
               \/ Publish(t, a) \/ SetDraining(t, a) \/ Drain(t, a)
        PROVE  CInv'
    BY <2>1, NewCounted, VmCounted, TimerCounted
  <2>2. ASSUME NEW t \in Threads,
               \/ ArmBlock(t) \/ ArmCreate(t) \/ ArmStart(t) \/ ArmUndo(t)
               \/ Unblock(t) \/ DisarmRelease(t) \/ SetMask(t)
        PROVE  CInv'
    BY <2>2, ArmCounted
  <2>3. ASSUME NEW t \in Threads,
               FetchQueued(t) \/ StopTimer(t) \/ CollectQueued(t) \/ Deliver(t)
        PROVE  CInv'
    BY <2>3, FetchCounted, StopCounted, CollectCounted, DeliverCounted
  <2>4. CASE SetForeign
    BY <2>4, StutterCounted
  <2>5. CASE \E a \in Timers : Expire(a)
    BY <2>5, ExpireCounted
  <2>6. CASE UNCHANGED vars
    BY <2>6, StutterCounted
  <2> QED
    BY <2>1, <2>2, <2>3, <2>4, <2>5, <2>6 DEF Next
<1>2. TInv /\ CInv => ExpirationsKept
  <2> SUFFICES ASSUME TInv, CInv PROVE ExpirationsKept
    OBVIOUS
  <2>1. \A a \in Timers : owner[a] # NoTimer => Accounted(a)
    BY DEF CInv
  <2> QED
    BY <2>1, Zenon DEF ExpirationsKept, Accounted, Held, Waiting, Total, Own
<1> QED
  BY <1>1, <1>2, InitCInv, TimerInvariant, PTL DEF Spec
==============================================================================
