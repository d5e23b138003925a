------------------------------ MODULE TickTimer ------------------------------
(***************************************************************************)
(* struct lp_thread_timer (src/thread_timer.c) as a value, and the parts   *)
(* of the file that only touch that struct: what the signal handler does   *)
(* with a delivery, how the VM publishes the state it is in, and how the   *)
(* bridge takes ticks and counters back out.  ThreadTimer keeps one such   *)
(* value per timer of the process, VmProfile one for the VM it follows.    *)
(*                                                                         *)
(* A timer's signal is sent to the thread that armed it (SIGEV_THREAD_ID), *)
(* so the handler never runs in parallel with the functions below: it runs *)
(* between two of their steps.  The seqlock's version is kept as its       *)
(* parity, "publishing"; the ring is the sequence of events between the    *)
(* read and the write sequence numbers.                                    *)
(***************************************************************************)
EXTENDS Naturals, Sequences

CONSTANTS
    States,         \* lua_State addresses
    NoState,        \* a NULL lua_State pointer
    Functions,      \* lua_CFunction addresses
    NoFunction,     \* a NULL lua_CFunction
    RingCapacity    \* LP_TICK_RING_CAPACITY

ASSUME RingAssumption == RingCapacity \in Nat \ {0}
ASSUME NullAssumption == NoState \notin States /\ NoFunction \notin Functions

VmStates == {"host", "lua", "c", "gc"}

Slot == [state: States \cup {NoState}, vm: VmStates,
         cfunction: Functions \cup {NoFunction}]

Timer == [slot: Slot, publishing: BOOLEAN, events: Seq(Slot),
          dropped: Nat, unstable: Nat, overhead: Nat,
          overrunEvents: Nat, overrunTicks: Nat,
          active: BOOLEAN, draining: BOOLEAN]

\* lp_thread_timer_new: calloc, then the two fields whose start is not zero.
NewTimer ==
    [slot |-> [state |-> NoState, vm |-> "host", cfunction |-> NoFunction],
     publishing |-> FALSE, events |-> <<>>,
     dropped |-> 0, unstable |-> 0, overhead |-> 0,
     overrunEvents |-> 0, overrunTicks |-> 0,
     active |-> FALSE, draining |-> TRUE]

------------------------------------------------------------------------------
(* The signal handler. *)

RecordOverrun(timer, overrun) ==
    IF overrun = 0 THEN timer
    ELSE [timer EXCEPT !.overrunEvents = @ + 1, !.overrunTicks = @ + overrun]

\* What the handler requires of the slot it read.
Usable(slot) ==
    /\ slot.state # NoState
    /\ slot.vm = "c" => slot.cfunction # NoFunction

\* The delivery reaches the ring code: neither the profiler's own work nor a
\* half-written slot turned it away.
Attributable(timer) ==
    /\ timer.active /\ ~timer.draining
    /\ ~timer.publishing /\ Usable(timer.slot)

RingFull(timer) == Len(timer.events) >= RingCapacity

\* timer_signal_handler, past the search for the timer in active_timers.
Handle(timer, overrun) ==
    LET counted == RecordOverrun(timer, overrun)
    IN  CASE ~timer.active -> timer
          [] timer.active /\ timer.draining ->
                [counted EXCEPT !.overhead = @ + 1]
          [] timer.active /\ ~timer.draining /\ ~Attributable(timer) ->
                [counted EXCEPT !.unstable = @ + 1]
          [] Attributable(timer) /\ RingFull(timer) ->
                [counted EXCEPT !.dropped = @ + 1]
          [] Attributable(timer) /\ ~RingFull(timer) ->
                [counted EXCEPT !.events = Append(@, timer.slot)]

\* A tick that lp_thread_timer_disarm takes off the signal queue.
Discard(timer, overrun) ==
    [RecordOverrun(timer, overrun) EXCEPT !.dropped = @ + 1]

------------------------------------------------------------------------------
(* The VM's side. *)

\* lp_thread_timer_publish_state: the version goes odd, the slot is written,
\* the version goes even.
OpenSlot(timer) == [timer EXCEPT !.publishing = TRUE]
CloseSlot(timer, slot) == [timer EXCEPT !.slot = slot, !.publishing = FALSE]

BeginDrain(timer) == [timer EXCEPT !.draining = TRUE]
EndDrain(timer) == [timer EXCEPT !.draining = FALSE]

\* lp_thread_timer_next, when the ring is not empty.
TakeEvent(timer) == [timer EXCEPT !.events = Tail(@)]

\* lp_thread_timer_take_quality.
TakeQuality(timer) ==
    [timer EXCEPT !.dropped = 0, !.unstable = 0, !.overhead = 0,
                  !.overrunEvents = 0, !.overrunTicks = 0]

\* Deliveries, and timer expirations, that the timer's own fields still hold.
Deliveries(timer) ==
    Len(timer.events) + timer.dropped + timer.unstable + timer.overhead
Expirations(timer) == Deliveries(timer) + timer.overrunTicks
==============================================================================
