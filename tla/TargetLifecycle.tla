--------------------------- MODULE TargetLifecycle ---------------------------
(***************************************************************************)
(* The lifecycle word of a profiling target (src/src/skynet_host.c).       *)
(*                                                                         *)
(* Every slot of the process-wide target table has one 64-bit word that    *)
(* holds the slot's state in its low two bits and the number of readers    *)
(* that pinned it in the others, so that one compare-and-swap both checks  *)
(* the state and takes the pin.  A slot is reused: a session is a token    *)
(* given to the slot when it is activated and erased when it is reclaimed. *)
(*                                                                         *)
(* This module is the protocol on its own, for any number of holders that  *)
(* pin at any time: what the lifecycle word promises the rest of the host. *)
(* SkynetHost is shown to implement it.                                    *)
(***************************************************************************)
EXTENDS Naturals, FiniteSets

CONSTANTS
    Targets,    \* the slots of the table targets[]
    Holders,    \* the places in the program that can hold one pin each
    NoTarget,   \* the NULL target
    MaxToken    \* bound on the sessions of one behaviour

ASSUME HoldersAssumption == IsFiniteSet(Holders)
ASSUME NoTargetAssumption == NoTarget \notin Targets
ASSUME MaxTokenAssumption == MaxToken \in Nat

VARIABLES
    life,        \* life[t]: the lifecycle word, as a state and a reader count
    token,       \* token[t]: the session of slot t, 0 when it has none
    pin,         \* pin[x]: the slot that holder x has pinned, or NoTarget
    next_token   \* the last token given to a session

vars == <<life, token, pin, next_token>>

States == {"FREE", "ACTIVE", "STOPPING", "RECLAIMING"}

TypeOK ==
    /\ life \in [Targets -> [state : States, readers : Nat]]
    /\ token \in [Targets -> Nat]
    /\ pin \in [Holders -> Targets \cup {NoTarget}]
    /\ next_token \in Nat

Init ==
    /\ life = [t \in Targets |-> [state |-> "FREE", readers |-> 0]]
    /\ token = [t \in Targets |-> 0]
    /\ pin = [x \in Holders |-> NoTarget]
    /\ next_token = 0

-----------------------------------------------------------------------------
(* Readers.                                                                *)

\* The states in which target_pin's callers ever ask for a pin.
Pinnable == {"ACTIVE", "STOPPING"}

\* Mutant: the state is checked but the pin is not counted in the same step.
mutant_uncounted(x, t, allowed) ==
    /\ pin[x] = NoTarget
    /\ life[t].state \in allowed
    /\ pin' = [pin EXCEPT ![x] = t]
    /\ UNCHANGED <<life, token, next_token>>

Pin(x, t, allowed) ==
    /\ pin[x] = NoTarget
    /\ life[t].state \in allowed
    /\ life' = [life EXCEPT ![t].readers = @ + 1]
    /\ pin' = [pin EXCEPT ![x] = t]
    /\ UNCHANGED <<token, next_token>>

Unpin(x) ==
    /\ pin[x] # NoTarget
    /\ life' = [life EXCEPT ![pin[x]].readers = @ - 1]
    /\ pin' = [pin EXCEPT ![x] = NoTarget]
    /\ UNCHANGED <<token, next_token>>

-----------------------------------------------------------------------------
(* Owners, which change the state under host_lock.                         *)

Transition(t, from, to) ==
    /\ life[t].state = from
    /\ life' = [life EXCEPT ![t].state = to]

\* Mutant: the token counter does not advance.
mutant_same_token(t) ==
    /\ next_token < MaxToken
    /\ life[t].readers = 0
    /\ Transition(t, "FREE", "ACTIVE")
    /\ token' = [token EXCEPT ![t] = next_token + 1]
    /\ UNCHANGED <<pin, next_token>>

\* target_start takes a slot only when the whole word is zero: no reader is left.
Activate(t) ==
    /\ next_token < MaxToken
    /\ life[t].readers = 0
    /\ Transition(t, "FREE", "ACTIVE")
    /\ token' = [token EXCEPT ![t] = next_token + 1]
    /\ next_token' = next_token + 1
    /\ UNCHANGED pin

Quiesce(t) ==
    /\ Transition(t, "ACTIVE", "STOPPING")
    /\ UNCHANGED <<token, pin, next_token>>

\* A stopped session is reclaimed by target_release, one whose start failed by
\* the roll-back.
Reclaim(t) ==
    /\ \E from \in Pinnable : Transition(t, from, "RECLAIMING")
    /\ UNCHANGED <<token, pin, next_token>>

\* Mutant: the slot is freed under its readers.
mutant_no_wait(t) ==
    /\ Transition(t, "RECLAIMING", "FREE")
    /\ token' = [token EXCEPT ![t] = 0]
    /\ UNCHANGED <<pin, next_token>>

\* After target_wait_unpinned: the ring is freed, the session erased.
Free(t) ==
    /\ life[t].readers = 0
    /\ Transition(t, "RECLAIMING", "FREE")
    /\ token' = [token EXCEPT ![t] = 0]
    /\ UNCHANGED <<pin, next_token>>

Next ==
    \/ \E x \in Holders, t \in Targets, allowed \in {{"ACTIVE"}, Pinnable} :
          Pin(x, t, allowed)
    \/ \E x \in Holders : Unpin(x)
    \/ \E t \in Targets : Activate(t)
    \/ \E t \in Targets : Quiesce(t)
    \/ \E t \in Targets : Reclaim(t)
    \/ \E t \in Targets : Free(t)

Spec == Init /\ [][Next]_vars

-----------------------------------------------------------------------------
(* Properties.                                                             *)

HoldersOf(t) == {x \in Holders : pin[x] = t}

\* The reader count of the word is the number of pins taken and not given back.
ReadersExact == \A t \in Targets : life[t].readers = Cardinality(HoldersOf(t))

\* "State and reader count share one CAS word so reclaim cannot miss a late
\* pin": a pinned slot has a session and is not free, so its event ring is
\* still allocated.
PinnedIsLive ==
    \A x \in Holders :
        pin[x] # NoTarget => /\ life[pin[x]].state # "FREE"
                             /\ token[pin[x]] # 0

\* Two live sessions never have the same token, and no session has a token that
\* was not issued: a stale token matches no slot.
TokensDistinct ==
    /\ \A t \in Targets : token[t] <= next_token
    /\ \A s, t \in Targets : s # t /\ token[s] # 0 => token[s] # token[t]

\* While a holder keeps its pin, the slot keeps its session: what was checked
\* after the pin (the token, the handle) cannot change under the reader.
PinnedSessionStable ==
    [][\A x \in Holders :
         pin[x] # NoTarget /\ pin'[x] = pin[x]
            => token'[pin[x]] = token[pin[x]]]_vars
=============================================================================
