------------------------ MODULE TargetLifecycle_proofs ------------------------
(***************************************************************************)
(* Proofs about the lifecycle-word protocol, for any number of slots and   *)
(* holders and any bound on the sessions.                                  *)
(***************************************************************************)
EXTENDS TargetLifecycle, FiniteSetTheorems, TLAPS

\* The inductive invariant.  A word's reader count is the number of holders
\* that pinned it (so it is never negative, and is zero only when nobody holds
\* the slot); a free slot has no holder, since it was freed at zero and cannot be
\* pinned; a slot has a token exactly while it is not free; tokens are issued in
\* increasing order, so that no two slots have the same.
FreeIsUnpinned == \A x \in Holders : pin[x] # NoTarget => life[pin[x]].state # "FREE"
TokenWhileLive == \A t \in Targets : life[t].state # "FREE" <=> token[t] # 0
IInv == TypeOK /\ ReadersExact /\ FreeIsUnpinned /\ TokenWhileLive /\ TokensDistinct

-----------------------------------------------------------------------------

\* The number of holders of a slot is a natural number.
LEMMA HoldersFinite ==
    ASSUME NEW t
    PROVE  IsFiniteSet(HoldersOf(t)) /\ Cardinality(HoldersOf(t)) \in Nat
<1>1. IsFiniteSet(HoldersOf(t))
  BY HoldersAssumption, FS_Subset DEF HoldersOf
<1> QED
  BY <1>1, FS_CardinalityType

\* Taking a pin adds one holder to the slot and none to the others.
LEMMA PinAddsHolder ==
    ASSUME TypeOK, NEW x \in Holders, NEW t \in Targets,
           pin[x] = NoTarget, pin' = [pin EXCEPT ![x] = t]
    PROVE  /\ Cardinality(HoldersOf(t)') = Cardinality(HoldersOf(t)) + 1
           /\ \A s \in Targets \ {t} : HoldersOf(s)' = HoldersOf(s)
<1>1. HoldersOf(t)' = HoldersOf(t) \cup {x}
  BY NoTargetAssumption DEF HoldersOf, TypeOK
<1>2. x \notin HoldersOf(t)
  BY NoTargetAssumption DEF HoldersOf
<1>3. Cardinality(HoldersOf(t) \cup {x}) = Cardinality(HoldersOf(t)) + 1
  BY <1>2, HoldersFinite, FS_AddElement
<1>4. \A s \in Targets \ {t} : HoldersOf(s)' = HoldersOf(s)
  BY NoTargetAssumption DEF HoldersOf, TypeOK
<1> QED
  BY <1>1, <1>3, <1>4

\* Giving a pin back takes the holder from its slot and from no other.
LEMMA UnpinRemovesHolder ==
    ASSUME TypeOK, NEW x \in Holders,
           pin[x] # NoTarget, pin' = [pin EXCEPT ![x] = NoTarget]
    PROVE  /\ Cardinality(HoldersOf(pin[x])) # 0
           /\ Cardinality({y \in Holders : pin'[y] = pin[x]})
                = Cardinality(HoldersOf(pin[x])) - 1
           /\ \A s \in Targets \ {pin[x]} : HoldersOf(s)' = HoldersOf(s)
<1>1. {y \in Holders : pin'[y] = pin[x]} = HoldersOf(pin[x]) \ {x}
  BY NoTargetAssumption DEF HoldersOf, TypeOK
<1>2. x \in HoldersOf(pin[x])
  BY DEF HoldersOf
<1>3. Cardinality(HoldersOf(pin[x]) \ {x}) = Cardinality(HoldersOf(pin[x])) - 1
  BY <1>2, HoldersFinite, FS_RemoveElement
<1>4. Cardinality(HoldersOf(pin[x])) # 0
  BY <1>2, HoldersFinite, FS_EmptySet
<1>5. \A s \in Targets \ {pin[x]} : HoldersOf(s)' = HoldersOf(s)
  BY NoTargetAssumption DEF HoldersOf, TypeOK
<1> QED
  BY <1>1, <1>3, <1>4, <1>5

-----------------------------------------------------------------------------

\* The invariant holds initially: no slot is pinned.
LEMMA InitIInv == Init => IInv
<1> SUFFICES ASSUME Init PROVE IInv
  OBVIOUS
<1>1. TypeOK
  BY DEF Init, TypeOK, States
<1>2. ASSUME NEW t \in Targets PROVE HoldersOf(t) = {}
  BY NoTargetAssumption DEF Init, HoldersOf
<1>3. ReadersExact
  BY <1>2, FS_EmptySet DEF Init, ReadersExact
<1>4. FreeIsUnpinned /\ TokenWhileLive /\ TokensDistinct
  BY DEF Init, FreeIsUnpinned, TokenWhileLive, TokensDistinct
<1> QED
  BY <1>1, <1>3, <1>4 DEF IInv

\* Taking a pin preserves the invariant.
LEMMA PinIInv ==
    ASSUME IInv, NEW x \in Holders, NEW t \in Targets,
           NEW allowed \in {{"ACTIVE"}, Pinnable}, Pin(x, t, allowed)
    PROVE  IInv'
<1> USE DEF IInv
<1>1. life' = [life EXCEPT ![t].readers = @ + 1] /\ pin' = [pin EXCEPT ![x] = t]
      /\ pin[x] = NoTarget /\ UNCHANGED <<token, next_token>>
  BY DEF Pin
<1>2. TypeOK'
  BY <1>1 DEF TypeOK
<1>3. life[t].state # "FREE"
  BY DEF Pin, Pinnable
<1>4. \A s \in Targets : life'[s].state = life[s].state
  BY <1>1 DEF TypeOK
<1>5. ReadersExact'
  <2>1. life'[t].readers = life[t].readers + 1
        /\ \A s \in Targets \ {t} : life'[s] = life[s]
    BY <1>1 DEF TypeOK
  <2> QED
    BY <1>1, <2>1, PinAddsHolder DEF ReadersExact
<1>6. FreeIsUnpinned'
  <2> SUFFICES ASSUME NEW y \in Holders, pin'[y] # NoTarget
               PROVE  life'[pin'[y]].state # "FREE"
    BY DEF FreeIsUnpinned
  <2>1. CASE y = x
    BY <2>1, <1>1, <1>3, <1>4 DEF TypeOK
  <2>2. CASE y # x
    BY <2>2, <1>1, <1>4 DEF TypeOK, FreeIsUnpinned
  <2> QED
    BY <2>1, <2>2
<1>7. TokenWhileLive' /\ TokensDistinct'
  BY <1>1, <1>4 DEF TokenWhileLive, TokensDistinct
<1> QED
  BY <1>2, <1>5, <1>6, <1>7

\* Giving a pin back preserves the invariant.
LEMMA UnpinIInv ==
    ASSUME IInv, NEW x \in Holders, Unpin(x)
    PROVE  IInv'
<1> USE DEF IInv
<1>1. life' = [life EXCEPT ![pin[x]].readers = @ - 1]
      /\ pin' = [pin EXCEPT ![x] = NoTarget]
      /\ pin[x] # NoTarget /\ UNCHANGED <<token, next_token>>
  BY DEF Unpin
<1> DEFINE t == pin[x]
<1>2. t \in Targets
  BY <1>1 DEF TypeOK
<1>3. life'[t].readers = life[t].readers - 1 /\ life'[t].state = life[t].state
      /\ \A s \in Targets \ {t} : life'[s] = life[s]
  BY <1>1, <1>2 DEF TypeOK
<1>4. life[t].readers = Cardinality(HoldersOf(t)) /\ life[t].readers \in Nat
  BY <1>2 DEF ReadersExact, TypeOK
<1>5. life[t].readers - 1 \in Nat
  <2>1. Cardinality(HoldersOf(t)) # 0
    BY <1>1, UnpinRemovesHolder
  <2> QED
    BY <2>1, <1>4
<1>6. TypeOK'
  <2>1. life' \in [Targets -> [state : States, readers : Nat]]
    BY <1>1, <1>2, <1>5 DEF TypeOK
  <2> QED
    BY <1>1, <2>1 DEF TypeOK
<1>7. ReadersExact'
  <2> SUFFICES ASSUME NEW s \in Targets
               PROVE  life'[s].readers = Cardinality(HoldersOf(s)')
    BY DEF ReadersExact
  <2>1. CASE s = t
    <3>1. HoldersOf(s)' = {y \in Holders : pin'[y] = pin[x]}
      BY <2>1 DEF HoldersOf
    <3> QED
      BY <2>1, <3>1, <1>1, <1>3, <1>4, UnpinRemovesHolder
  <2>2. CASE s # t
    BY <2>2, <1>1, <1>3, UnpinRemovesHolder DEF ReadersExact
  <2> QED
    BY <2>1, <2>2
<1>8. \A s \in Targets : life'[s].state = life[s].state
  BY <1>3
<1>9. FreeIsUnpinned'
  BY <1>1, <1>8 DEF FreeIsUnpinned, TypeOK
<1>10. TokenWhileLive' /\ TokensDistinct'
  BY <1>1, <1>8 DEF TokenWhileLive, TokensDistinct
<1> QED
  BY <1>6, <1>7, <1>9, <1>10

\* A change of state keeps the pins and the readers of every slot.
LEMMA TransitionFacts ==
    ASSUME TypeOK, NEW t \in Targets, NEW from \in States, NEW to \in States,
           Transition(t, from, to)
    PROVE  /\ life' \in [Targets -> [state : States, readers : Nat]]
           /\ life'[t].state = to
           /\ \A s \in Targets \ {t} : life'[s] = life[s]
           /\ \A s \in Targets : life'[s].readers = life[s].readers
  BY DEF TypeOK, Transition

\* Readers are not affected by a step that changes no pin and no reader count.
LEMMA ReadersKept ==
    ASSUME ReadersExact, UNCHANGED pin,
           \A s \in Targets : life'[s].readers = life[s].readers
    PROVE  ReadersExact'
  BY DEF ReadersExact, HoldersOf

\* Activating a slot preserves the invariant: the new token is the largest.
LEMMA ActivateIInv ==
    ASSUME IInv, NEW t \in Targets, Activate(t)
    PROVE  IInv'
<1> USE DEF IInv
<1>1. Transition(t, "FREE", "ACTIVE") /\ UNCHANGED pin
      /\ token' = [token EXCEPT ![t] = next_token + 1] /\ next_token' = next_token + 1
  BY DEF Activate
<1>2. /\ life' \in [Targets -> [state : States, readers : Nat]]
      /\ life'[t].state = "ACTIVE"
      /\ \A s \in Targets \ {t} : life'[s] = life[s]
      /\ \A s \in Targets : life'[s].readers = life[s].readers
  BY <1>1, TransitionFacts DEF States
<1>3. TypeOK'
  <2>1. next_token + 1 \in Nat
    BY DEF TypeOK
  <2>2. token' \in [Targets -> Nat]
    BY <1>1, <2>1 DEF TypeOK
  <2> QED
    BY <1>1, <1>2, <2>1, <2>2 DEF TypeOK
<1>4. ReadersExact'
  BY <1>1, <1>2, ReadersKept
<1>5. FreeIsUnpinned'
  BY <1>1, <1>2 DEF FreeIsUnpinned, TypeOK
<1>6. TokenWhileLive'
  BY <1>1, <1>2 DEF TokenWhileLive, TypeOK
<1>7. TokensDistinct'
  BY <1>1 DEF TokensDistinct, TypeOK
<1> QED
  BY <1>3, <1>4, <1>5, <1>6, <1>7

\* Stopping and reclaiming keep the slot live and the tokens.
LEMMA StopIInv ==
    ASSUME IInv, NEW t \in Targets, Quiesce(t) \/ Reclaim(t)
    PROVE  IInv'
<1> USE DEF IInv
<1>1. PICK from \in Pinnable, to \in {"STOPPING", "RECLAIMING"} :
        Transition(t, from, to) /\ UNCHANGED <<token, pin, next_token>>
  BY DEF Quiesce, Reclaim, Pinnable
<1>2. /\ life' \in [Targets -> [state : States, readers : Nat]]
      /\ life'[t].state = to
      /\ \A s \in Targets \ {t} : life'[s] = life[s]
      /\ \A s \in Targets : life'[s].readers = life[s].readers
  BY <1>1, TransitionFacts DEF States, Pinnable
<1>3. life[t].state # "FREE" /\ life'[t].state # "FREE"
  BY <1>1, <1>2 DEF Transition, Pinnable
<1>4. TypeOK'
  BY <1>1, <1>2 DEF TypeOK
<1>5. ReadersExact'
  BY <1>1, <1>2, ReadersKept
<1>6. FreeIsUnpinned'
  BY <1>1, <1>2, <1>3 DEF FreeIsUnpinned, TypeOK
<1>7. TokenWhileLive' /\ TokensDistinct'
  BY <1>1, <1>2, <1>3 DEF TokenWhileLive, TokensDistinct
<1> QED
  BY <1>4, <1>5, <1>6, <1>7

\* Freeing a slot preserves the invariant, because the count it waited for to be
\* zero is exact.
LEMMA FreeIInv ==
    ASSUME IInv, NEW t \in Targets, Free(t)
    PROVE  IInv'
<1> USE DEF IInv
<1>1. Transition(t, "RECLAIMING", "FREE") /\ life[t].readers = 0
      /\ token' = [token EXCEPT ![t] = 0] /\ UNCHANGED <<pin, next_token>>
  BY DEF Free
<1>2. /\ life' \in [Targets -> [state : States, readers : Nat]]
      /\ life'[t].state = "FREE"
      /\ \A s \in Targets \ {t} : life'[s] = life[s]
      /\ \A s \in Targets : life'[s].readers = life[s].readers
  BY <1>1, TransitionFacts DEF States
<1>3. HoldersOf(t) = {}
  <2>1. Cardinality(HoldersOf(t)) = 0
    BY <1>1 DEF ReadersExact
  <2> QED
    BY <2>1, HoldersFinite, FS_EmptySet
<1>4. TypeOK'
  BY <1>1, <1>2 DEF TypeOK
<1>5. ReadersExact'
  BY <1>1, <1>2, ReadersKept
<1>6. FreeIsUnpinned'
  BY <1>1, <1>2, <1>3 DEF FreeIsUnpinned, HoldersOf, TypeOK
<1>7. TokenWhileLive'
  BY <1>1, <1>2 DEF TokenWhileLive, TypeOK
<1>8. TokensDistinct'
  BY <1>1 DEF TokensDistinct, TypeOK
<1> QED
  BY <1>4, <1>5, <1>6, <1>7, <1>8

\* Every step preserves the invariant.
LEMMA NextIInv == IInv /\ [Next]_vars => IInv'
<1> SUFFICES ASSUME IInv, [Next]_vars PROVE IInv'
  OBVIOUS
<1>1. CASE \E x \in Holders, t \in Targets, allowed \in {{"ACTIVE"}, Pinnable} :
             Pin(x, t, allowed)
  BY <1>1, PinIInv
<1>2. CASE \E x \in Holders : Unpin(x)
  BY <1>2, UnpinIInv
<1>3. CASE \E t \in Targets : Activate(t)
  BY <1>3, ActivateIInv
<1>4. CASE \E t \in Targets : Quiesce(t) \/ Reclaim(t)
  BY <1>4, StopIInv
<1>5. CASE \E t \in Targets : Free(t)
  BY <1>5, FreeIInv
<1>6. CASE UNCHANGED vars
  BY <1>6 DEF vars, IInv, TypeOK, ReadersExact, HoldersOf, FreeIsUnpinned,
              TokenWhileLive, TokensDistinct
<1> QED
  BY <1>1, <1>2, <1>3, <1>4, <1>5, <1>6 DEF Next

\* The invariant holds in every behaviour of the protocol.
THEOREM Invariance == Spec => []IInv
  BY InitIInv, NextIInv, PTL DEF Spec

-----------------------------------------------------------------------------

\* Type correctness.
THEOREM TypeCorrect == Spec => []TypeOK
  BY Invariance, PTL DEF IInv

\* The reader count of every word is exact.
THEOREM CountCorrect == Spec => []ReadersExact
  BY Invariance, PTL DEF IInv

\* A pinned slot is never free: reclaim cannot miss a late pin.
THEOREM PinSafety == Spec => []PinnedIsLive
<1>1. IInv => PinnedIsLive
  BY DEF IInv, TypeOK, FreeIsUnpinned, TokenWhileLive, PinnedIsLive
<1> QED
  BY <1>1, Invariance, PTL

\* No two sessions share a token.
THEOREM TokenSafety == Spec => []TokensDistinct
  BY Invariance, PTL DEF IInv

\* A slot does not change its session under a pin.
THEOREM PinStability == Spec => PinnedSessionStable
<1> DEFINE Stable == \A x \in Holders :
                       pin[x] # NoTarget /\ pin'[x] = pin[x]
                         => token'[pin[x]] = token[pin[x]]
<1>1. ASSUME IInv, [Next]_vars PROVE Stable
  <2> SUFFICES ASSUME NEW x \in Holders, pin[x] # NoTarget
               PROVE  token'[pin[x]] = token[pin[x]]
    OBVIOUS
  <2> USE <1>1 DEF IInv
  <2>1. pin[x] \in Targets /\ life[pin[x]].state # "FREE"
    BY DEF TypeOK, FreeIsUnpinned
  <2>2. life[pin[x]].readers # 0
    <3>1. x \in HoldersOf(pin[x])
      BY DEF HoldersOf
    <3> QED
      BY <2>1, <3>1, HoldersFinite, FS_EmptySet DEF ReadersExact
  <2>3. CASE \E t \in Targets : Activate(t)
    BY <2>3, <2>1 DEF Activate, Transition, TypeOK
  <2>4. CASE \E t \in Targets : Free(t)
    BY <2>4, <2>2 DEF Free, TypeOK
  <2>5. CASE UNCHANGED token
    BY <2>5
  <2> QED
    BY <2>3, <2>4, <2>5 DEF Next, Pin, Unpin, Quiesce, Reclaim, vars
<1>2. IInv /\ [Next]_vars => [Stable]_vars
  BY <1>1
<1> QED
  BY <1>2, Invariance, PTL DEF Spec, PinnedSessionStable
=============================================================================
