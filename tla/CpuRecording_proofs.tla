------------------------- MODULE CpuRecording_proofs -------------------------
(***************************************************************************)
(* Proofs about ProfileOwnership, and about CpuRecording, which extends    *)
(* it: for any number of recordings, every profile has exactly one owner,  *)
(* recorder, slot and bridge agree on what runs, every tick is accounted   *)
(* for, and what is exported is the stack that was sampled.                *)
(***************************************************************************)
EXTENDS CpuRecording, Integers, FiniteSetTheorems, WellFoundedInduction, TLAPS

------------------------------------------------------------------------------
(* The inductive invariant of the ownership. *)

\* A slot is empty, or holds the profile named by its generation.
SlotShape ==
    \A k \in Kinds :
        \/ slot[k] = EmptySlot /\ collecting[k] = NoGeneration
        \/ /\ slot[k].active /\ slot[k].generation # NoGeneration
           /\ slot[k].profile = slot[k].generation

\* The next generation is the name of no profile yet.
Fresh == \A p \in profiles : p <= next_generation

\* Two active recorders are of different kinds.
OneRecorder ==
    \A i, j \in Recordings : recorder[i].active /\ recorder[j].active
                                /\ recorder[i].kind = recorder[j].kind => i = j

\* A result has nothing before stop fills it, and was not finalized if stop may.
ResultShape ==
    \A i \in Recordings :
        /\ recorder[i].active => result[i].profile = NoProfile
        /\ life["result"][i] = "none" => result[i].profile = NoProfile
        /\ life["recorder"][i] = "none" <=> i > made
        /\ life["result"][i] = "none" <=> i > made

\* What can be reached is not finalized.
LiveIsReached ==
    /\ \A t \in Things : \A i \in held[t] : life[t][i] = "live"
    /\ \A i \in held["recorder"] : recorder[i].result =>
            life["result"][i] = "live"

\* While the VM closes nothing is reached, and when it is closed nothing is left.
Closing ==
    /\ vm # "open" => \A t \in Things : /\ held[t] = {}
                                       /\ \A i \in Recordings : life[t][i] # "live"
    /\ vm = "closed" => \A t \in Things, i \in Recordings : life[t][i] # "doomed"

OwnerInv ==
    /\ OwnerTypeOK /\ SlotShape /\ Fresh /\ OneRecorder /\ ResultShape
    /\ LiveIsReached /\ Closing /\ OneOwner /\ ActiveIsCollected

LEMMA InitOwner == OwnerInit => OwnerInv
<1> SUFFICES ASSUME OwnerInit PROVE OwnerInv
  OBVIOUS
<1> USE RecordingsAssumption DEF OwnerInit, EmptySlot, NewRecorder, NewResult, NoProfile,
        NoGeneration, Kinds, Recordings, Things
<1>1. OwnerTypeOK
  BY DEF OwnerTypeOK
<1>2. SlotShape /\ Fresh /\ OneRecorder /\ ResultShape /\ LiveIsReached /\ Closing
  BY DEF SlotShape, Fresh, OneRecorder, ResultShape, LiveIsReached, Closing
<1>3. OneOwner /\ ActiveIsCollected
  BY DEF OneOwner, ActiveIsCollected
<1> QED BY <1>1, <1>2, <1>3 DEF OwnerInv

------------------------------------------------------------------------------
(* start. *)

\* The two objects that a call of start makes are new; the others live on as they were.
LEMMA CreateEffect ==
    ASSUME NEW k \in Kinds, OwnerInv, Create(k)
    PROVE  /\ made' \in Recordings /\ made' = made + 1 /\ made \in Nat
           /\ made' \in 0 .. MaxRecordings
           /\ vm = "open" /\ vm' = vm /\ result' = result
           /\ life' \in [Things -> [Recordings -> {"none", "live", "doomed", "final"}]]
           /\ \A t \in Things : life'[t][made'] = "live" /\ life[t][made'] = "none"
           /\ \A t \in Things : \A i \in Recordings :
                i # made' => life'[t][i] = life[t][i]
           /\ \A t \in Things : made' \notin held[t]
           /\ result[made'].profile = NoProfile /\ ~recorder[made'].active
<1> USE RecordingsAssumption
<1>1. /\ made' \in Recordings /\ made' = made + 1 /\ made \in Nat
      /\ made' \in 0 .. MaxRecordings
      /\ vm = "open" /\ vm' = vm /\ result' = result
      /\ life' = [t \in Things |-> [life[t] EXCEPT ![made'] = "live"]]
  BY DEF Create, OwnerInv, OwnerTypeOK, Recordings
<1>2. life \in [Things -> [Recordings -> {"none", "live", "doomed", "final"}]]
  BY DEF OwnerInv, OwnerTypeOK
<1>3. /\ life' \in [Things -> [Recordings -> {"none", "live", "doomed", "final"}]]
      /\ \A t \in Things : life'[t][made'] = "live"
      /\ \A t \in Things : \A i \in Recordings : i # made' => life'[t][i] = life[t][i]
  BY <1>1, <1>2
<1>4. life["recorder"][made'] = "none" /\ life["result"][made'] = "none"
      /\ result[made'].profile = NoProfile
  BY <1>1 DEF OwnerInv, ResultShape
<1>5. \A t \in Things : life[t][made'] = "none"
  BY <1>4 DEF Things
<1>6. \A t \in Things : made' \notin held[t]
  BY <1>5 DEF OwnerInv, LiveIsReached
<1>7. ~recorder[made'].active
  BY <1>1, <1>4 DEF OwnerInv, ActiveIsCollected
<1> QED BY <1>1, <1>3, <1>4, <1>5, <1>6, <1>7

\* A start that is refused or fails leaves the runtime alone but for the generation.
LEMMA RefusedKeeps ==
    ASSUME NEW k \in Kinds, OwnerInv, Create(k),
           recorder' = [recorder EXCEPT ![made'] = NewRecorder(k)],
           UNCHANGED <<slot, collecting, profiles, held>>,
           next_generation' \in {next_generation, next_generation + 1}
    PROVE  OwnerInv'
<1> DEFINE n == made'
<1>1. /\ n \in Recordings /\ n = made + 1 /\ made \in Nat /\ n \in 0 .. MaxRecordings
      /\ vm = "open" /\ vm' = vm /\ result' = result
      /\ life' \in [Things -> [Recordings -> {"none", "live", "doomed", "final"}]]
      /\ \A t \in Things : life'[t][n] = "live" /\ life[t][n] = "none" /\ n \notin held[t]
      /\ \A t \in Things : \A i \in Recordings : i # n => life'[t][i] = life[t][i]
      /\ result[n].profile = NoProfile /\ ~recorder[n].active
  BY CreateEffect
<1>2. /\ recorder' \in [Recordings -> [kind: Kinds, generation: Nat, active: BOOLEAN,
                                        result: BOOLEAN]]
      /\ ~recorder'[n].active
      /\ \A i \in Recordings : i # n => recorder'[i] = recorder[i]
  BY <1>1 DEF OwnerInv, OwnerTypeOK, NewRecorder, NoGeneration
<1>3. /\ life'["recorder"][n] = "live" /\ life'["result"][n] = "live"
      /\ \A i \in Recordings : i # n => /\ life'["recorder"][i] = life["recorder"][i]
                                        /\ life'["result"][i] = life["result"][i]
      /\ n \notin held["recorder"] /\ n \notin held["result"]
  BY <1>1 DEF Things
<1>4. slot' = slot /\ collecting' = collecting /\ profiles' = profiles /\ held' = held
  OBVIOUS
<1>5. next_generation' \in Nat /\ next_generation' >= next_generation /\ next_generation \in Nat
      /\ profiles \in SUBSET Nat
  BY DEF OwnerInv, OwnerTypeOK
<1>6. held["recorder"] \subseteq Recordings /\ held["result"] \subseteq Recordings
  BY DEF OwnerInv, OwnerTypeOK, Things
<1>n. made' = n
  OBVIOUS
<1> HIDE DEF n
<1>7. OwnerTypeOK'
  BY <1>1, <1>2, <1>4, <1>5, <1>n DEF OwnerInv, OwnerTypeOK
<1>8. SlotShape'
  BY <1>4 DEF OwnerInv, SlotShape
<1>9. Fresh'
  BY <1>4, <1>5 DEF OwnerInv, Fresh
<1>10. OneRecorder'
  BY <1>2 DEF OwnerInv, OneRecorder
<1>11. ResultShape'
  <2> SUFFICES ASSUME NEW i \in Recordings
               PROVE  /\ recorder'[i].active => result'[i].profile = NoProfile
                      /\ life'["result"][i] = "none" => result'[i].profile = NoProfile
                      /\ life'["recorder"][i] = "none" <=> i > made'
                      /\ life'["result"][i] = "none" <=> i > made'
    BY DEF ResultShape
  <2>1. CASE i = n
    BY <2>1, <1>1, <1>2, <1>3, <1>n
  <2>2. CASE i # n
    BY <2>2, <1>1, <1>2, <1>3, <1>n DEF OwnerInv, ResultShape, Recordings
  <2> QED BY <2>1, <2>2
<1>12. LiveIsReached'
  BY <1>2, <1>3, <1>4, <1>6 DEF OwnerInv, LiveIsReached, Things
<1>13. Closing'
  BY <1>1 DEF Closing
<1>14. OneOwner'
  BY <1>1, <1>3, <1>4 DEF OwnerInv, OneOwner
<1>15. ActiveIsCollected'
  <2>1. \A i \in Recordings : recorder'[i].active =>
            /\ Stoppable(i)' /\ recorder'[i].result
            /\ collecting'[recorder'[i].kind] = recorder'[i].generation
            /\ life'["recorder"][i] \in {"live", "doomed"}
    BY <1>2, <1>3, <1>4 DEF OwnerInv, ActiveIsCollected, Stoppable
  <2>2. \A j \in Kinds : slot'[j].active \/ collecting'[j] # NoGeneration =>
            \E i \in Recordings : recorder'[i].active /\ recorder'[i].kind = j
    <3> SUFFICES ASSUME NEW j \in Kinds, slot'[j].active \/ collecting'[j] # NoGeneration
                 PROVE  \E i \in Recordings : recorder'[i].active /\ recorder'[i].kind = j
      OBVIOUS
    <3>1. PICK i \in Recordings : recorder[i].active /\ recorder[i].kind = j
      BY <1>4 DEF OwnerInv, ActiveIsCollected
    <3> QED BY <1>1, <1>2, <3>1
  <2> QED BY <2>1, <2>2 DEF ActiveIsCollected
<1> QED BY <1>7, <1>8, <1>9, <1>10, <1>11, <1>12, <1>13, <1>14, <1>15 DEF OwnerInv

LEMMA StartKeeps ==
    ASSUME NEW k \in Kinds, OwnerInv, Start(k)
    PROVE  OwnerInv'
<1> DEFINE n == made'
           g == next_generation'
<1>1. /\ n \in Recordings /\ n = made + 1 /\ made \in Nat /\ n \in 0 .. MaxRecordings
      /\ vm = "open" /\ vm' = vm /\ result' = result
      /\ life' \in [Things -> [Recordings -> {"none", "live", "doomed", "final"}]]
      /\ \A t \in Things : life'[t][n] = "live" /\ life[t][n] = "none" /\ n \notin held[t]
      /\ \A t \in Things : \A i \in Recordings : i # n => life'[t][i] = life[t][i]
      /\ result[n].profile = NoProfile /\ ~recorder[n].active
  BY CreateEffect DEF Start
<1>2. /\ g = next_generation + 1 /\ next_generation \in Nat /\ g \in Nat /\ g # 0
      /\ \A p \in profiles : p # g
      /\ profiles' = profiles \cup {g} /\ profiles \in SUBSET (Nat \ {0})
  BY DEF Start, OwnerInv, OwnerTypeOK, Fresh, NoProfile
<1>3. /\ slot' \in [Kinds -> [active: BOOLEAN, generation: Nat, profile: Nat]]
      /\ slot'[k].active /\ slot'[k].generation = g /\ slot'[k].profile = g
      /\ \A j \in Kinds : j # k => slot'[j] = slot[j]
  BY <1>2 DEF Start, OwnerInv, OwnerTypeOK
<1>4. /\ collecting' \in [Kinds -> Nat] /\ collecting'[k] = g
      /\ \A j \in Kinds : j # k => collecting'[j] = collecting[j]
  BY <1>2 DEF Start, OwnerInv, OwnerTypeOK
<1>5. /\ recorder' \in [Recordings -> [kind: Kinds, generation: Nat, active: BOOLEAN,
                                        result: BOOLEAN]]
      /\ recorder'[n].active /\ recorder'[n].kind = k /\ recorder'[n].generation = g
      /\ recorder'[n].result
      /\ \A i \in Recordings : i # n => recorder'[i] = recorder[i]
  BY <1>1, <1>2 DEF Start, OwnerInv, OwnerTypeOK, NewRecorder
<1>6. ~slot[k].active /\ slot[k].profile = NoProfile
  BY DEF Start, OwnerInv, SlotShape, EmptySlot, NoProfile
<1>7. \A i \in Recordings : recorder[i].active => recorder[i].kind # k
  BY <1>6 DEF OwnerInv, ActiveIsCollected, Stoppable
<1>8. /\ held' \in [Things -> SUBSET Recordings]
      /\ held'["recorder"] = held["recorder"] \cup {n} /\ held'["result"] = held["result"]
      /\ held["recorder"] \subseteq Recordings /\ held["result"] \subseteq Recordings
  BY <1>1 DEF Start, OwnerInv, OwnerTypeOK, Things
<1>9. /\ life'["recorder"][n] = "live" /\ life'["result"][n] = "live"
      /\ \A i \in Recordings : i # n => /\ life'["recorder"][i] = life["recorder"][i]
                                        /\ life'["result"][i] = life["result"][i]
      /\ n \notin held["recorder"] /\ n \notin held["result"]
  BY <1>1 DEF Things
<1>n. made' = n /\ next_generation' = g
  OBVIOUS
<1> HIDE DEF n, g
<1>11. OwnerTypeOK'
  <2>1. profiles' \in SUBSET (Nat \ {NoProfile})
    BY <1>2 DEF NoProfile
  <2> QED BY <1>1, <1>2, <1>3, <1>4, <1>5, <1>8, <1>n, <2>1 DEF OwnerInv, OwnerTypeOK
<1>12. SlotShape'
  BY <1>2, <1>3, <1>4 DEF OwnerInv, SlotShape, NoGeneration
<1>13. Fresh'
  BY <1>2, <1>n DEF OwnerInv, Fresh
<1>14. OneRecorder'
  BY <1>5, <1>7 DEF OwnerInv, OneRecorder
<1>15. ResultShape'
  <2> SUFFICES ASSUME NEW i \in Recordings
               PROVE  /\ recorder'[i].active => result'[i].profile = NoProfile
                      /\ life'["result"][i] = "none" => result'[i].profile = NoProfile
                      /\ life'["recorder"][i] = "none" <=> i > made'
                      /\ life'["result"][i] = "none" <=> i > made'
    BY DEF ResultShape
  <2>1. CASE i = n
    BY <2>1, <1>1, <1>9, <1>n
  <2>2. CASE i # n
    BY <2>2, <1>1, <1>5, <1>9, <1>n DEF OwnerInv, ResultShape, Recordings
  <2> QED BY <2>1, <2>2
<1>16. LiveIsReached'
  BY <1>5, <1>8, <1>9 DEF OwnerInv, LiveIsReached, Things
<1>17. Closing'
  BY <1>1 DEF Closing
<1>18. OneOwner'
  <2>1. profiles' = ({slot'[j].profile : j \in Kinds}
                        \cup {result'[i].profile : i \in Recordings}) \ {NoProfile}
    <3> SUFFICES ASSUME NEW p
                 PROVE  p \in profiles' <=>
                        /\ p # NoProfile
                        /\ \/ \E j \in Kinds : p = slot'[j].profile
                           \/ \E i \in Recordings : p = result'[i].profile
      OBVIOUS
    <3>1. p \in profiles <=> /\ p # NoProfile
                            /\ \/ \E j \in Kinds : p = slot[j].profile
                               \/ \E i \in Recordings : p = result[i].profile
      BY DEF OwnerInv, OneOwner
    <3> QED BY <1>1, <1>2, <1>3, <1>6, <3>1 DEF NoProfile
  <2>2. /\ \A j \in Kinds : slot[j].profile = NoProfile \/ slot[j].profile \in profiles
        /\ \A i \in Recordings : result[i].profile = NoProfile \/ result[i].profile \in profiles
    BY DEF OwnerInv, OneOwner
  <2>3. \A i, j \in Kinds : slot'[i].profile = slot'[j].profile =>
            i = j \/ slot'[i].profile = NoProfile
    BY <1>2, <1>3, <2>2 DEF OwnerInv, OneOwner, NoProfile
  <2>4. \A j \in Kinds, i \in Recordings : slot'[j].profile = result'[i].profile =>
            slot'[j].profile = NoProfile
    BY <1>1, <1>2, <1>3, <2>2 DEF OwnerInv, OneOwner, NoProfile
  <2>5. \A i \in Recordings :
            /\ life'["result"][i] = "final" => result'[i].profile = NoProfile
            /\ i \in held'["result"] => result'[i].profile # NoProfile
    BY <1>1, <1>8, <1>9 DEF OwnerInv, OneOwner
  <2> QED BY <1>1, <2>1, <2>3, <2>4, <2>5 DEF OwnerInv, OneOwner
<1>19. ActiveIsCollected'
  <2>1. \A i \in Recordings : recorder'[i].active =>
            /\ Stoppable(i)' /\ recorder'[i].result
            /\ collecting'[recorder'[i].kind] = recorder'[i].generation
            /\ life'["recorder"][i] \in {"live", "doomed"}
    <3> TAKE i \in Recordings
    <3>1. CASE i = n
      BY <3>1, <1>3, <1>4, <1>5, <1>9 DEF Stoppable
    <3>2. CASE i # n
      <4>1. recorder[i].kind \in Kinds
        BY DEF OwnerInv, OwnerTypeOK
      <4> QED BY <3>2, <4>1, <1>3, <1>4, <1>5, <1>7, <1>9
                 DEF OwnerInv, ActiveIsCollected, Stoppable
    <3> QED BY <3>1, <3>2
  <2>2. \A j \in Kinds : slot'[j].active \/ collecting'[j] # NoGeneration =>
            \E i \in Recordings : recorder'[i].active /\ recorder'[i].kind = j
    <3> SUFFICES ASSUME NEW j \in Kinds, slot'[j].active \/ collecting'[j] # NoGeneration
                 PROVE  \E i \in Recordings : recorder'[i].active /\ recorder'[i].kind = j
      OBVIOUS
    <3>1. CASE j = k
      BY <1>1, <1>5, <3>1
    <3>2. CASE j # k
      <4>1. PICK i \in Recordings : recorder[i].active /\ recorder[i].kind = j
        BY <1>3, <1>4, <3>2 DEF OwnerInv, ActiveIsCollected
      <4> QED BY <1>1, <1>5, <4>1
    <3> QED BY <3>1, <3>2
  <2> QED BY <2>1, <2>2 DEF ActiveIsCollected
<1> QED BY <1>11, <1>12, <1>13, <1>14, <1>15, <1>16, <1>17, <1>18, <1>19 DEF OwnerInv

------------------------------------------------------------------------------
(* stop, __close and the finalizers. *)

\* What EndCollector does to the slot of an active recorder, which it empties.
LEMMA EndCollectorEffect ==
    ASSUME NEW i \in Recordings, NEW k \in Kinds, NEW g \in Nat, OwnerInv,
           recorder[i].active, EndCollector(i),
           k = recorder[i].kind, g = recorder[i].generation
    PROVE  /\ slot[k].profile = g /\ g # NoProfile /\ Stoppable(i) /\ recorder[i].result
           /\ slot' \in [Kinds -> [active: BOOLEAN, generation: Nat, profile: Nat]]
           /\ slot'[k] = EmptySlot /\ slot'[k].profile = NoProfile /\ ~slot'[k].active
           /\ \A j \in Kinds : j # k => slot'[j] = slot[j]
           /\ collecting' \in [Kinds -> Nat] /\ collecting'[k] = NoGeneration
           /\ \A j \in Kinds : j # k => collecting'[j] = collecting[j]
           /\ \A j \in Recordings : j # i /\ recorder[j].active => recorder[j].kind # k
           /\ result[i].profile = NoProfile
           /\ life["recorder"][i] \in {"live", "doomed"}
           /\ g \in profiles /\ \A j \in Recordings : result[j].profile # g
           /\ \A j \in Kinds : j # k => slot[j].profile # g
<1>1. /\ Stoppable(i) /\ collecting[k] = g /\ recorder[i].result
      /\ life["recorder"][i] \in {"live", "doomed"}
  BY DEF OwnerInv, ActiveIsCollected
<1>2. slot[k].active /\ slot[k].generation = g
  BY <1>1 DEF Stoppable
<1>3. slot[k].profile = g /\ g # NoProfile
  BY <1>2 DEF OwnerInv, SlotShape, EmptySlot, NoGeneration, NoProfile
<1>4. /\ slot' = [slot EXCEPT ![k] = EmptySlot]
      /\ collecting' = [collecting EXCEPT ![k] = NoGeneration]
  BY <1>1 DEF EndCollector
<1>5. EmptySlot \in [active: BOOLEAN, generation: Nat, profile: Nat]
      /\ EmptySlot.profile = NoProfile /\ ~EmptySlot.active /\ NoGeneration \in Nat
  BY DEF EmptySlot, NoGeneration, NoProfile
<1>6. /\ slot \in [Kinds -> [active: BOOLEAN, generation: Nat, profile: Nat]]
      /\ collecting \in [Kinds -> Nat]
  BY DEF OwnerInv, OwnerTypeOK
<1>7. \A j \in Recordings : j # i /\ recorder[j].active => recorder[j].kind # k
  BY DEF OwnerInv, OneRecorder
<1>8. result[i].profile = NoProfile
  BY DEF OwnerInv, ResultShape
<1>9. g \in profiles /\ \A j \in Recordings : result[j].profile # g
  BY <1>3 DEF OwnerInv, OneOwner
<1>10. \A j \in Kinds : j # k => slot[j].profile # g
  BY <1>3 DEF OwnerInv, OneOwner
<1> QED BY <1>1, <1>3, <1>4, <1>5, <1>6, <1>7, <1>8, <1>9, <1>10

\* stop hands the profile of the slot over to the result.
LEMMA StopKeeps ==
    ASSUME NEW i \in Recordings, OwnerInv, Stop(i)
    PROVE  OwnerInv'
<1>1. PICK k \in Kinds, g \in Nat : k = recorder[i].kind /\ g = recorder[i].generation
  BY DEF OwnerInv, OwnerTypeOK
<1>2. recorder[i].active /\ EndCollector(i)
  BY DEF Stop, Stoppable
<1>3. /\ slot[k].profile = g /\ g # NoProfile /\ recorder[i].result
      /\ slot' \in [Kinds -> [active: BOOLEAN, generation: Nat, profile: Nat]]
      /\ slot'[k] = EmptySlot /\ slot'[k].profile = NoProfile /\ ~slot'[k].active
      /\ \A j \in Kinds : j # k => slot'[j] = slot[j]
      /\ collecting' \in [Kinds -> Nat] /\ collecting'[k] = NoGeneration
      /\ \A j \in Kinds : j # k => collecting'[j] = collecting[j]
      /\ \A j \in Recordings : j # i /\ recorder[j].active => recorder[j].kind # k
      /\ result[i].profile = NoProfile
      /\ life["recorder"][i] \in {"live", "doomed"}
      /\ g \in profiles /\ \A j \in Recordings : result[j].profile # g
      /\ \A j \in Kinds : j # k => slot[j].profile # g
  BY <1>1, <1>2, EndCollectorEffect
<1>4. /\ result' \in [Recordings -> [generation: Nat, profile: Nat]]
      /\ result'[i].profile = g
      /\ \A j \in Recordings : j # i => result'[j] = result[j]
  BY <1>1, <1>3 DEF Stop, OwnerInv, OwnerTypeOK
<1>5. /\ recorder' \in [Recordings -> [kind: Kinds, generation: Nat, active: BOOLEAN,
                                        result: BOOLEAN]]
      /\ ~recorder'[i].active /\ ~recorder'[i].result
      /\ \A j \in Recordings : j # i => recorder'[j] = recorder[j]
  BY DEF Stop, OwnerInv, OwnerTypeOK
<1>6. /\ vm' = vm /\ next_generation' = next_generation /\ profiles' = profiles
      /\ made' = made /\ life' = life
  BY DEF Stop
<1>7. \/ /\ i \in held["recorder"] /\ held' = [held EXCEPT !["result"] = @ \cup {i}]
      \/ /\ held' = held /\ life["result"][i] = "doomed"
  BY DEF Stop, Reachable
<1>8. /\ life["result"][i] \in {"live", "doomed"}
      /\ i \in held'["result"] => life["result"][i] = "live" 
  BY <1>3, <1>7 DEF OwnerInv, LiveIsReached, OwnerTypeOK, Things
<1>9. /\ held' \in [Things -> SUBSET Recordings] /\ held'["recorder"] = held["recorder"]
      /\ held'["result"] \subseteq held["result"] \cup {i}
      /\ held["recorder"] \subseteq Recordings /\ held["result"] \subseteq Recordings
      /\ vm # "open" => held' = held
  BY <1>7 DEF OwnerInv, OwnerTypeOK, Things, Closing
<1>11. OwnerTypeOK'
  BY <1>3, <1>4, <1>5, <1>6, <1>9 DEF OwnerInv, OwnerTypeOK
<1>12. SlotShape'
  BY <1>3 DEF OwnerInv, SlotShape
<1>13. Fresh'
  BY <1>6 DEF OwnerInv, Fresh
<1>14. OneRecorder'
  BY <1>5 DEF OwnerInv, OneRecorder
<1>15. ResultShape'
  BY <1>4, <1>5, <1>6, <1>8 DEF OwnerInv, ResultShape
<1>16. LiveIsReached'
  BY <1>5, <1>6, <1>8, <1>9 DEF OwnerInv, LiveIsReached, Things
<1>17. Closing'
  BY <1>6, <1>9 DEF OwnerInv, Closing
<1>18. OneOwner'
  <2>1. profiles' = ({slot'[j].profile : j \in Kinds}
                        \cup {result'[j].profile : j \in Recordings}) \ {NoProfile}
    <3> SUFFICES ASSUME NEW p
                 PROVE  p \in profiles' <=>
                        /\ p # NoProfile
                        /\ \/ \E j \in Kinds : p = slot'[j].profile
                           \/ \E j \in Recordings : p = result'[j].profile
      OBVIOUS
    <3>1. p \in profiles <=> /\ p # NoProfile
                             /\ \/ \E j \in Kinds : p = slot[j].profile
                                \/ \E j \in Recordings : p = result[j].profile
      BY DEF OwnerInv, OneOwner
    <3> QED BY <1>3, <1>4, <1>6, <3>1
  <2>2. \A j, m \in Kinds : slot'[j].profile = slot'[m].profile =>
            j = m \/ slot'[j].profile = NoProfile
    BY <1>3 DEF OwnerInv, OneOwner
  <2>3. \A j, m \in Recordings : result'[j].profile = result'[m].profile =>
            j = m \/ result'[j].profile = NoProfile
    BY <1>3, <1>4 DEF OwnerInv, OneOwner
  <2>4. \A j \in Kinds, m \in Recordings : slot'[j].profile = result'[m].profile =>
            slot'[j].profile = NoProfile
    BY <1>3, <1>4 DEF OwnerInv, OneOwner
  <2>5. \A j \in Recordings :
            /\ life'["result"][j] = "final" => result'[j].profile = NoProfile
            /\ j \in held'["result"] => result'[j].profile # NoProfile
    BY <1>3, <1>4, <1>6, <1>8, <1>9 DEF OwnerInv, OneOwner
  <2> QED BY <1>6, <2>1, <2>2, <2>3, <2>4, <2>5 DEF OwnerInv, OneOwner
<1>19. ActiveIsCollected'
  <2>1. \A j \in Recordings : recorder'[j].active =>
            /\ Stoppable(j)' /\ recorder'[j].result
            /\ collecting'[recorder'[j].kind] = recorder'[j].generation
            /\ life'["recorder"][j] \in {"live", "doomed"}
    <3> SUFFICES ASSUME NEW j \in Recordings, recorder'[j].active
                 PROVE  /\ Stoppable(j)' /\ recorder'[j].result
                        /\ collecting'[recorder'[j].kind] = recorder'[j].generation
                        /\ life'["recorder"][j] \in {"live", "doomed"}
      OBVIOUS
    <3>1. j # i /\ recorder'[j] = recorder[j] /\ recorder[j].kind \in Kinds \ {k}
      BY <1>3, <1>5 DEF OwnerInv, OwnerTypeOK
    <3> QED BY <1>3, <1>6, <3>1 DEF OwnerInv, ActiveIsCollected, Stoppable
  <2>2. \A m \in Kinds : slot'[m].active \/ collecting'[m] # NoGeneration =>
            \E j \in Recordings : recorder'[j].active /\ recorder'[j].kind = m
    <3> SUFFICES ASSUME NEW m \in Kinds, slot'[m].active \/ collecting'[m] # NoGeneration
                 PROVE  \E j \in Recordings : recorder'[j].active /\ recorder'[j].kind = m
      OBVIOUS
    <3>1. PICK j \in Recordings : recorder[j].active /\ recorder[j].kind = m
      BY <1>3 DEF OwnerInv, ActiveIsCollected
    <3>2. m # k /\ j # i
      BY <1>1, <1>3, <3>1
    <3> QED BY <1>5, <3>1, <3>2
  <2> QED BY <2>1, <2>2 DEF ActiveIsCollected
<1> QED BY <1>11, <1>12, <1>13, <1>14, <1>15, <1>16, <1>17, <1>18, <1>19 DEF OwnerInv

\* Closing or finalizing an active recorder deletes the profile of its slot.
LEMMA DiscardKeeps ==
    ASSUME NEW i \in Recordings, OwnerInv, Close(i) \/ FinalizeRecorder(i),
           recorder[i].active
    PROVE  OwnerInv'
<1>1. PICK k \in Kinds, g \in Nat : k = recorder[i].kind /\ g = recorder[i].generation
  BY DEF OwnerInv, OwnerTypeOK
<1>2. Stoppable(i)
  BY DEF OwnerInv, ActiveIsCollected
<1>3. Discard(i) /\ EndCollector(i)
  BY <1>2 DEF Close, FinalizeRecorder, Discard
<1>4. /\ slot[k].profile = g /\ g # NoProfile
      /\ slot' \in [Kinds -> [active: BOOLEAN, generation: Nat, profile: Nat]]
      /\ slot'[k] = EmptySlot /\ slot'[k].profile = NoProfile /\ ~slot'[k].active
      /\ \A j \in Kinds : j # k => slot'[j] = slot[j]
      /\ collecting' \in [Kinds -> Nat] /\ collecting'[k] = NoGeneration
      /\ \A j \in Kinds : j # k => collecting'[j] = collecting[j]
      /\ \A j \in Recordings : j # i /\ recorder[j].active => recorder[j].kind # k
      /\ \A j \in Recordings : result[j].profile # g
      /\ \A j \in Kinds : j # k => slot[j].profile # g
  BY <1>1, <1>3, EndCollectorEffect
<1>5. /\ recorder' \in [Recordings -> [kind: Kinds, generation: Nat, active: BOOLEAN,
                                        result: BOOLEAN]]
      /\ ~recorder'[i].active /\ recorder'[i].result = recorder[i].result
      /\ \A j \in Recordings : j # i => recorder'[j] = recorder[j]
  BY <1>3 DEF Discard, OwnerInv, OwnerTypeOK
<1>6. /\ vm' = vm /\ next_generation' = next_generation /\ made' = made
      /\ result' = result /\ held' = held
  BY DEF Close, FinalizeRecorder
<1>7. profiles' = profiles \ {g}
  BY <1>1, <1>2, <1>3, <1>4 DEF Discard
<1>8. /\ life' \in [Things -> [Recordings -> {"none", "live", "doomed", "final"}]]
      /\ life'["result"] = life["result"]
      /\ \A j \in Recordings : j # i => life'["recorder"][j] = life["recorder"][j]
      /\ \/ life'["recorder"][i] = life["recorder"][i]
         \/ life["recorder"][i] = "doomed" /\ life'["recorder"][i] = "final"
  BY DEF Close, FinalizeRecorder, OwnerInv, OwnerTypeOK, Things
<1>9. \A t \in Things : \A j \in Recordings :
          /\ life[t][j] = "live" => life'[t][j] = "live"
          /\ life'[t][j] \in {"live", "doomed"} => life'[t][j] = life[t][j]
  BY <1>8 DEF Things
<1>10. \A t \in Things : held[t] \subseteq Recordings
  BY DEF OwnerInv, OwnerTypeOK
<1>11. OwnerTypeOK'
  BY <1>4, <1>5, <1>6, <1>7, <1>8 DEF OwnerInv, OwnerTypeOK
<1>12. SlotShape'
  BY <1>4 DEF OwnerInv, SlotShape
<1>13. Fresh'
  BY <1>6, <1>7 DEF OwnerInv, Fresh
<1>14. OneRecorder'
  BY <1>5 DEF OwnerInv, OneRecorder
<1>15. ResultShape'
  <2> SUFFICES ASSUME NEW j \in Recordings
               PROVE  /\ recorder'[j].active => result'[j].profile = NoProfile
                      /\ life'["result"][j] = "none" => result'[j].profile = NoProfile
                      /\ life'["recorder"][j] = "none" <=> j > made'
                      /\ life'["result"][j] = "none" <=> j > made'
    BY DEF ResultShape
  <2> QED BY <1>5, <1>6, <1>8 DEF OwnerInv, ResultShape
<1>16. LiveIsReached'
  <2>1. \A t \in Things : \A j \in held'[t] : life'[t][j] = "live"
    BY <1>6, <1>9, <1>10 DEF OwnerInv, LiveIsReached
  <2>2. \A j \in held'["recorder"] : recorder'[j].result => life'["result"][j] = "live"
    BY <1>5, <1>6, <1>8, <1>10 DEF OwnerInv, LiveIsReached, Things
  <2> QED BY <2>1, <2>2 DEF LiveIsReached
<1>17. Closing'
  BY <1>6, <1>9 DEF OwnerInv, Closing
<1>18. OneOwner'
  <2>1. profiles' = ({slot'[j].profile : j \in Kinds}
                        \cup {result'[j].profile : j \in Recordings}) \ {NoProfile}
    <3> SUFFICES ASSUME NEW p
                 PROVE  p \in profiles' <=>
                        /\ p # NoProfile
                        /\ \/ \E j \in Kinds : p = slot'[j].profile
                           \/ \E j \in Recordings : p = result'[j].profile
      OBVIOUS
    <3>1. p \in profiles <=> /\ p # NoProfile
                             /\ \/ \E j \in Kinds : p = slot[j].profile
                                \/ \E j \in Recordings : p = result[j].profile
      BY DEF OwnerInv, OneOwner
    <3> QED BY <1>4, <1>6, <1>7, <3>1
  <2>2. \A j, m \in Kinds : slot'[j].profile = slot'[m].profile =>
            j = m \/ slot'[j].profile = NoProfile
    BY <1>4 DEF OwnerInv, OneOwner
  <2>3. \A j \in Kinds, m \in Recordings : slot'[j].profile = result'[m].profile =>
            slot'[j].profile = NoProfile
    BY <1>4, <1>6 DEF OwnerInv, OneOwner
  <2> QED BY <1>6, <1>7, <1>8, <2>1, <2>2, <2>3 DEF OwnerInv, OneOwner
<1>19. ActiveIsCollected'
  <2>1. \A j \in Recordings : recorder'[j].active =>
            /\ Stoppable(j)' /\ recorder'[j].result
            /\ collecting'[recorder'[j].kind] = recorder'[j].generation
            /\ life'["recorder"][j] \in {"live", "doomed"}
    <3> SUFFICES ASSUME NEW j \in Recordings, recorder'[j].active
                 PROVE  /\ Stoppable(j)' /\ recorder'[j].result
                        /\ collecting'[recorder'[j].kind] = recorder'[j].generation
                        /\ life'["recorder"][j] \in {"live", "doomed"}
      OBVIOUS
    <3>1. j # i /\ recorder'[j] = recorder[j] /\ recorder[j].kind \in Kinds \ {k}
      BY <1>4, <1>5 DEF OwnerInv, OwnerTypeOK
    <3> QED BY <1>4, <1>8, <3>1 DEF OwnerInv, ActiveIsCollected, Stoppable
  <2>2. \A m \in Kinds : slot'[m].active \/ collecting'[m] # NoGeneration =>
            \E j \in Recordings : recorder'[j].active /\ recorder'[j].kind = m
    <3> SUFFICES ASSUME NEW m \in Kinds, slot'[m].active \/ collecting'[m] # NoGeneration
                 PROVE  \E j \in Recordings : recorder'[j].active /\ recorder'[j].kind = m
      OBVIOUS
    <3>1. PICK j \in Recordings : recorder[j].active /\ recorder[j].kind = m
      BY <1>4 DEF OwnerInv, ActiveIsCollected
    <3>2. m # k /\ j # i
      BY <1>1, <1>4, <3>1
    <3> QED BY <1>5, <3>1, <3>2
  <2> QED BY <2>1, <2>2 DEF ActiveIsCollected
<1> QED BY <1>11, <1>12, <1>13, <1>14, <1>15, <1>16, <1>17, <1>18, <1>19 DEF OwnerInv

\* A change of life only: of objects that are not live, or that nothing reaches.
LEMMA LifeKeeps ==
    ASSUME OwnerInv, UNCHANGED <<vm, runtime, made, recorder, result, held>>,
           life' \in [Things -> [Recordings -> {"none", "live", "doomed", "final"}]],
           \A t \in Things : \A i \in Recordings :
              \/ life'[t][i] = life[t][i]
              \/ life[t][i] = "live" /\ life'[t][i] = "doomed" /\ ~Reachable(t, i)
              \/ /\ t = "recorder" /\ ~recorder[i].active
                 /\ life[t][i] = "doomed" /\ life'[t][i] = "final"
    PROVE  OwnerInv'
<1>1. /\ vm' = vm /\ next_generation' = next_generation /\ slot' = slot
      /\ collecting' = collecting /\ profiles' = profiles /\ made' = made
      /\ recorder' = recorder /\ result' = result /\ held' = held
  BY DEF runtime
<1>2. \A i \in Recordings :
        /\ \/ life'["recorder"][i] = life["recorder"][i]
           \/ /\ life["recorder"][i] = "live" /\ life'["recorder"][i] = "doomed"
              /\ i \notin held["recorder"]
           \/ /\ life["recorder"][i] = "doomed" /\ life'["recorder"][i] = "final"
              /\ ~recorder[i].active
        /\ \/ life'["result"][i] = life["result"][i]
           \/ /\ life["result"][i] = "live" /\ life'["result"][i] = "doomed"
              /\ i \notin held["result"]
              /\ ~(recorder[i].result /\ i \in held["recorder"])
  BY DEF Things, Reachable
<1>3. held["recorder"] \subseteq Recordings /\ held["result"] \subseteq Recordings
  BY DEF OwnerInv, OwnerTypeOK, Things
<1>4. OwnerTypeOK'
  BY <1>1 DEF OwnerInv, OwnerTypeOK
<1>5. SlotShape' /\ Fresh' /\ OneRecorder'
  BY <1>1 DEF OwnerInv, SlotShape, Fresh, OneRecorder
<1>6. ResultShape'
  BY <1>1, <1>2 DEF OwnerInv, ResultShape
<1>7. LiveIsReached'
  BY <1>1, <1>2, <1>3 DEF OwnerInv, LiveIsReached, Things
<1>8. Closing'
  BY <1>1, <1>2 DEF OwnerInv, Closing, Things
<1>9. OneOwner'
  BY <1>1, <1>2 DEF OwnerInv, OneOwner
<1>10. ActiveIsCollected'
  BY <1>1, <1>2 DEF OwnerInv, ActiveIsCollected, Stoppable
<1> QED BY <1>4, <1>5, <1>6, <1>7, <1>8, <1>9, <1>10 DEF OwnerInv

\* Nothing is left of a recorder that is closed or finalized after it was stopped.
LEMMA DiscardInactiveKeeps ==
    ASSUME NEW i \in Recordings, OwnerInv, Close(i) \/ FinalizeRecorder(i),
           ~recorder[i].active
    PROVE  OwnerInv'
<1>1. recorder' = recorder /\ slot' = slot /\ collecting' = collecting /\ profiles' = profiles
  <2>1. Discard(i) /\ ~Stoppable(i)
    BY DEF Close, FinalizeRecorder, Stoppable
  <2>2. recorder \in [Recordings -> [kind: Kinds, generation: Nat, active: BOOLEAN,
                                     result: BOOLEAN]]
    BY DEF OwnerInv, OwnerTypeOK
  <2>3. recorder' = [recorder EXCEPT ![i].active = FALSE]
    BY <2>1 DEF Discard
  <2>4. recorder[i].active = FALSE
    BY <2>2
  <2>5. [recorder[i] EXCEPT !.active = FALSE] = recorder[i]
    BY <2>2, <2>4
  <2> QED BY <2>1, <2>2, <2>3, <2>5 DEF Discard
<1>2. UNCHANGED <<vm, runtime, made, recorder, result, held>>
  BY <1>1 DEF Close, FinalizeRecorder, runtime
<1>3. \/ life' = life
      \/ /\ life["recorder"][i] = "doomed"
         /\ life' = [life EXCEPT !["recorder"][i] = "final"]
  BY DEF Close, FinalizeRecorder
<1>4. life \in [Things -> [Recordings -> {"none", "live", "doomed", "final"}]]
  BY DEF OwnerInv, OwnerTypeOK
<1>5. life' \in [Things -> [Recordings -> {"none", "live", "doomed", "final"}]]
  BY <1>3, <1>4 DEF Things
<1>6. \A t \in Things : \A j \in Recordings :
          \/ life'[t][j] = life[t][j]
          \/ /\ t = "recorder" /\ ~recorder[j].active
             /\ life[t][j] = "doomed" /\ life'[t][j] = "final"
  BY <1>3, <1>4 DEF Things
<1> QED BY <1>2, <1>5, <1>6, LifeKeeps

\* A result's profile is deleted with the result.
LEMMA FinalizeResultKeeps ==
    ASSUME NEW i \in Recordings, OwnerInv, FinalizeResult(i)
    PROVE  OwnerInv'
<1>1. /\ vm' = vm /\ next_generation' = next_generation /\ slot' = slot
      /\ collecting' = collecting /\ made' = made /\ recorder' = recorder /\ held' = held
      /\ profiles' = profiles \ {result[i].profile} /\ life["result"][i] = "doomed"
  BY DEF FinalizeResult
<1>2. /\ result' \in [Recordings -> [generation: Nat, profile: Nat]]
      /\ result'[i].profile = NoProfile
      /\ \A j \in Recordings : j # i => result'[j] = result[j]
  BY DEF FinalizeResult, OwnerInv, OwnerTypeOK, NoProfile
<1>3. /\ life' \in [Things -> [Recordings -> {"none", "live", "doomed", "final"}]]
      /\ life'["recorder"] = life["recorder"] /\ life'["result"][i] = "final"
      /\ \A j \in Recordings : j # i => life'["result"][j] = life["result"][j]
  BY DEF FinalizeResult, OwnerInv, OwnerTypeOK, Things
<1>4. held["recorder"] \subseteq Recordings /\ held["result"] \subseteq Recordings
  BY DEF OwnerInv, OwnerTypeOK, Things
<1>5. i \notin held["result"] /\ ~(i \in held["recorder"] /\ recorder[i].result)
  BY <1>1 DEF OwnerInv, LiveIsReached, Things
<1>6. OwnerTypeOK'
  BY <1>1, <1>2, <1>3 DEF OwnerInv, OwnerTypeOK
<1>7. SlotShape' /\ Fresh' /\ OneRecorder'
  BY <1>1 DEF OwnerInv, SlotShape, Fresh, OneRecorder
<1>8. ResultShape'
  BY <1>1, <1>2, <1>3 DEF OwnerInv, ResultShape
<1>9. LiveIsReached'
  BY <1>1, <1>3, <1>4, <1>5 DEF OwnerInv, LiveIsReached, Things
<1>10. Closing'
  BY <1>1, <1>3 DEF OwnerInv, Closing, Things
<1>11. OneOwner'
  <2>1. profiles' = ({slot'[j].profile : j \in Kinds}
                        \cup {result'[j].profile : j \in Recordings}) \ {NoProfile}
    <3> SUFFICES ASSUME NEW p
                 PROVE  p \in profiles' <=>
                        /\ p # NoProfile
                        /\ \/ \E j \in Kinds : p = slot'[j].profile
                           \/ \E j \in Recordings : p = result'[j].profile
      OBVIOUS
    <3>1. p \in profiles <=> /\ p # NoProfile
                             /\ \/ \E j \in Kinds : p = slot[j].profile
                                \/ \E j \in Recordings : p = result[j].profile
      BY DEF OwnerInv, OneOwner
    <3>2. p # NoProfile /\ p = result[i].profile =>
            /\ \A j \in Kinds : p # slot[j].profile
            /\ \A j \in Recordings : j # i => p # result[j].profile
      BY DEF OwnerInv, OneOwner
    <3> QED BY <1>1, <1>2, <3>1, <3>2
  <2>2. \A j, m \in Recordings : result'[j].profile = result'[m].profile =>
            j = m \/ result'[j].profile = NoProfile
    BY <1>2 DEF OwnerInv, OneOwner
  <2>3. \A j \in Kinds, m \in Recordings : slot'[j].profile = result'[m].profile =>
            slot'[j].profile = NoProfile
    BY <1>1, <1>2 DEF OwnerInv, OneOwner
  <2>4. \A j \in Recordings :
            /\ life'["result"][j] = "final" => result'[j].profile = NoProfile
            /\ j \in held'["result"] => result'[j].profile # NoProfile
    BY <1>1, <1>2, <1>3, <1>5 DEF OwnerInv, OneOwner
  <2> QED BY <1>1, <2>1, <2>2, <2>3, <2>4 DEF OwnerInv, OneOwner
<1>12. ActiveIsCollected'
  BY <1>1, <1>3 DEF OwnerInv, ActiveIsCollected, Stoppable
<1> QED BY <1>6, <1>7, <1>8, <1>9, <1>10, <1>11, <1>12 DEF OwnerInv

------------------------------------------------------------------------------
(* The VM. *)

LEMMA ForgetKeeps ==
    ASSUME NEW t \in Things, NEW i \in Recordings, OwnerInv, Forget(t, i)
    PROVE  OwnerInv'
<1>1. /\ vm' = vm /\ next_generation' = next_generation /\ slot' = slot
      /\ collecting' = collecting /\ profiles' = profiles /\ made' = made
      /\ recorder' = recorder /\ result' = result /\ life' = life
  BY DEF Forget, runtime
<1>2. /\ held' \in [Things -> SUBSET Recordings]
      /\ \A u \in Things : held'[u] \subseteq held[u]
  BY DEF Forget, OwnerInv, OwnerTypeOK
<1>3. held'["recorder"] \subseteq held["recorder"] /\ held'["result"] \subseteq held["result"]
  BY <1>2 DEF Things
<1>4. OwnerTypeOK'
  BY <1>1, <1>2 DEF OwnerInv, OwnerTypeOK
<1>5. SlotShape' /\ Fresh' /\ OneRecorder' /\ ResultShape'
  BY <1>1 DEF OwnerInv, SlotShape, Fresh, OneRecorder, ResultShape
<1>6. LiveIsReached'
  BY <1>1, <1>2, <1>3 DEF OwnerInv, LiveIsReached
<1>7. Closing'
  <2>1. \A u \in Things : held[u] = {} => held'[u] = {}
    BY <1>2
  <2> QED BY <1>1, <2>1 DEF OwnerInv, Closing
<1>8. OneOwner'
  BY <1>1, <1>3 DEF OwnerInv, OneOwner
<1>9. ActiveIsCollected'
  BY <1>1 DEF OwnerInv, ActiveIsCollected, Stoppable
<1> QED BY <1>4, <1>5, <1>6, <1>7, <1>8, <1>9 DEF OwnerInv

LEMMA CollectKeeps ==
    ASSUME OwnerInv, Collect
    PROVE  OwnerInv'
<1>1. /\ UNCHANGED <<vm, runtime, made, recorder, result, held>>
      /\ life' = [t \in Things |-> [i \in Recordings |->
            IF life[t][i] = "live" /\ ~Reachable(t, i) THEN "doomed" ELSE life[t][i]]]
  BY DEF Collect
<1>2. life' \in [Things -> [Recordings -> {"none", "live", "doomed", "final"}]]
  BY <1>1 DEF OwnerInv, OwnerTypeOK
<1>3. \A t \in Things : \A i \in Recordings :
          \/ life'[t][i] = life[t][i]
          \/ life[t][i] = "live" /\ life'[t][i] = "doomed" /\ ~Reachable(t, i)
  BY <1>1
<1> QED BY <1>1, <1>2, <1>3, LifeKeeps

LEMMA LuaCloseKeeps ==
    ASSUME OwnerInv, LuaClose
    PROVE  OwnerInv'
<1>1. /\ next_generation' = next_generation /\ slot' = slot /\ vm' = "closing"
      /\ collecting' = collecting /\ profiles' = profiles /\ made' = made
      /\ recorder' = recorder /\ result' = result
      /\ held' = [t \in Things |-> {}]
      /\ life' = [t \in Things |-> [i \in Recordings |->
            IF life[t][i] = "live" THEN "doomed" ELSE life[t][i]]]
  BY DEF LuaClose, runtime
<1>2. /\ life' \in [Things -> [Recordings -> {"none", "live", "doomed", "final"}]]
      /\ held' \in [Things -> SUBSET Recordings]
      /\ \A t \in Things : held'[t] = {} /\ \A i \in Recordings : life'[t][i] # "live"
  BY <1>1 DEF OwnerInv, OwnerTypeOK
<1>3. /\ held'["recorder"] = {} /\ held'["result"] = {}
      /\ \A i \in Recordings :
            /\ life'["recorder"][i] = IF life["recorder"][i] = "live" THEN "doomed"
                                       ELSE life["recorder"][i]
            /\ life'["result"][i] = IF life["result"][i] = "live" THEN "doomed"
                                     ELSE life["result"][i]
  <2>1. "recorder" \in Things /\ "result" \in Things
    BY DEF Things
  <2>2. \A t \in Things : \A i \in Recordings :
            life'[t][i] = IF life[t][i] = "live" THEN "doomed" ELSE life[t][i]
    BY <1>1
  <2>3. held'["recorder"] = {} /\ held'["result"] = {}
    BY <1>2, <2>1
  <2> QED BY <2>1, <2>2, <2>3
<1>4. OwnerTypeOK'
  BY <1>1, <1>2 DEF OwnerInv, OwnerTypeOK
<1>5. SlotShape' /\ Fresh' /\ OneRecorder'
  BY <1>1 DEF OwnerInv, SlotShape, Fresh, OneRecorder
<1>6. ResultShape'
  BY <1>1, <1>3 DEF OwnerInv, ResultShape
<1>7. LiveIsReached' /\ Closing'
  BY <1>1, <1>2, <1>3 DEF LiveIsReached, Closing
<1>8. OneOwner'
  <2>1. \A i \in Recordings :
            /\ life'["result"][i] = "final" => result'[i].profile = NoProfile
            /\ i \in held'["result"] => result'[i].profile # NoProfile
    <3>1. result' = result
      BY <1>1
    <3>2. \A i \in Recordings :
              life'["result"][i] = "final" => life["result"][i] = "final"
      BY <1>3
    <3> QED BY <1>3, <3>1, <3>2 DEF OwnerInv, OneOwner
  <2> QED BY <1>1, <2>1 DEF OwnerInv, OneOwner
<1>9. ActiveIsCollected'
  BY <1>1, <1>3 DEF OwnerInv, ActiveIsCollected, Stoppable
<1> QED BY <1>4, <1>5, <1>6, <1>7, <1>8, <1>9 DEF OwnerInv

\* When the runtime is deleted every recorder has been finalized: the slots are empty.
LEMMA DeleteRuntimeKeeps ==
    ASSUME OwnerInv, DeleteRuntime
    PROVE  OwnerInv'
<1>1. \A t \in Things : \A i \in Recordings : life[t][i] \notin {"live", "doomed"}
  BY DEF DeleteRuntime, OwnerInv, Closing
<1>2. \A i \in Recordings : ~recorder[i].active
  BY <1>1 DEF OwnerInv, ActiveIsCollected, Things
<1>3. \A k \in Kinds : slot[k] = EmptySlot /\ ~slot[k].active /\ collecting[k] = NoGeneration
  BY <1>2 DEF OwnerInv, ActiveIsCollected, SlotShape, EmptySlot
<1>4. profiles' = profiles /\ slot' = slot /\ collecting' = collecting
  <2>1. {j \in Kinds : slot[j].active} = {}
    BY <1>3
  <2>2. profiles' = profiles
    BY <2>1 DEF DeleteRuntime
  <2>3. slot' = slot
    BY <1>3 DEF DeleteRuntime, OwnerInv, OwnerTypeOK
  <2>4. collecting' = collecting
    BY <1>3 DEF DeleteRuntime, OwnerInv, OwnerTypeOK
  <2> QED BY <2>2, <2>3, <2>4
<1>5. /\ vm' = "closed" /\ vm = "closing" /\ next_generation' = next_generation
      /\ made' = made /\ recorder' = recorder /\ result' = result /\ life' = life
      /\ held' = held
  BY DEF DeleteRuntime, objects
<1>6. \A i \in Recordings : result[i].profile = NoProfile
  <2> TAKE i \in Recordings
  <2>1. life["result"][i] \in {"none", "final"}
    BY <1>1 DEF OwnerInv, OwnerTypeOK, Things
  <2> QED BY <2>1 DEF OwnerInv, ResultShape, OneOwner
<1>7. \A k \in Kinds : slot[k].profile = NoProfile
  BY <1>3 DEF EmptySlot
<1>8. profiles = {}
  BY <1>6, <1>7 DEF OwnerInv, OneOwner
<1>9. OwnerTypeOK'
  BY <1>4, <1>5 DEF OwnerInv, OwnerTypeOK
<1>10. SlotShape' /\ Fresh' /\ OneRecorder' /\ ResultShape' /\ LiveIsReached'
  BY <1>4, <1>5 DEF OwnerInv, SlotShape, Fresh, OneRecorder, ResultShape, LiveIsReached
<1>11. Closing'
  BY <1>1, <1>5 DEF OwnerInv, Closing
<1>12. OneOwner'
  BY <1>4, <1>5, <1>8 DEF OwnerInv, OneOwner
<1>13. ActiveIsCollected'
  BY <1>4, <1>5 DEF OwnerInv, ActiveIsCollected, Stoppable
<1> QED BY <1>9, <1>10, <1>11, <1>12, <1>13 DEF OwnerInv

------------------------------------------------------------------------------
(* Theorems about the ownership. *)

LEMMA OwnerStep == OwnerInv /\ [OwnerNext]_ownerVars => OwnerInv'
<1> SUFFICES ASSUME OwnerInv, [OwnerNext]_ownerVars PROVE OwnerInv'
  OBVIOUS
<1>1. ASSUME NEW k \in Kinds, Start(k) PROVE OwnerInv'
  BY <1>1, StartKeeps
<1>2. ASSUME NEW k \in Kinds, StartBusy(k) PROVE OwnerInv'
  BY <1>2, RefusedKeeps DEF StartBusy, runtime
<1>3. ASSUME NEW k \in Kinds, StartFails(k) PROVE OwnerInv'
  <2>1. slot[k] = EmptySlot
    BY <1>3 DEF StartFails, OwnerInv, SlotShape
  <2>2. slot' = slot
    BY <1>3, <2>1 DEF StartFails, OwnerInv, OwnerTypeOK
  <2> QED BY <1>3, <2>2, RefusedKeeps DEF StartFails
<1>4. ASSUME NEW i \in Recordings, Stop(i) PROVE OwnerInv'
  BY <1>4, StopKeeps
<1>5. ASSUME NEW i \in Recordings, Close(i) \/ FinalizeRecorder(i) PROVE OwnerInv'
  BY <1>5, DiscardKeeps, DiscardInactiveKeeps
<1>6. ASSUME NEW i \in Recordings, FinalizeResult(i) PROVE OwnerInv'
  BY <1>6, FinalizeResultKeeps
<1>7. ASSUME NEW t \in Things, NEW i \in Recordings, Forget(t, i) PROVE OwnerInv'
  BY <1>7, ForgetKeeps
<1>8. CASE Collect \/ LuaClose \/ DeleteRuntime
  BY <1>8, CollectKeeps, LuaCloseKeeps, DeleteRuntimeKeeps
<1>9. CASE UNCHANGED ownerVars
  <2>1. /\ vm' = vm /\ next_generation' = next_generation /\ slot' = slot
        /\ collecting' = collecting /\ profiles' = profiles /\ made' = made
        /\ recorder' = recorder /\ result' = result /\ life' = life /\ held' = held
    BY <1>9 DEF ownerVars, runtime, objects
  <2>2. OwnerTypeOK' /\ SlotShape' /\ Fresh' /\ OneRecorder'
    BY <2>1 DEF OwnerInv, OwnerTypeOK, SlotShape, Fresh, OneRecorder
  <2>3. ResultShape' /\ LiveIsReached' /\ Closing'
    BY <2>1 DEF OwnerInv, ResultShape, LiveIsReached, Closing
  <2>4. OneOwner'
    BY <2>1 DEF OwnerInv, OneOwner
  <2>5. ActiveIsCollected'
    BY <2>1 DEF OwnerInv, ActiveIsCollected, Stoppable
  <2> QED BY <2>2, <2>3, <2>4, <2>5 DEF OwnerInv
<1> QED BY <1>1, <1>2, <1>3, <1>4, <1>5, <1>6, <1>7, <1>8, <1>9 DEF OwnerNext

\* The slots, recorders, results and the bridge always agree as the invariant states,
\* whatever the application and the collector do.
THEOREM OwnerInvariant == OwnerSpec => []OwnerInv
  BY InitOwner, OwnerStep, PTL DEF OwnerSpec

LEMMA CpuStepOwns == [CpuNext]_cpuVars => [OwnerNext]_ownerVars
<1> SUFFICES ASSUME [CpuNext]_cpuVars PROVE [OwnerNext]_ownerVars
  OBVIOUS
<1>1. CASE Tick \/ Fetch
  BY <1>1 DEF Tick, Fetch
<1>2. CASE \E f \in LuaFunctions \cup (CFunctions \ {Api}) : CallFunction(f)
  BY <1>2 DEF CallFunction
<1>3. ASSUME NEW n \in 1 .. MaxDepth, Leave(n) PROVE UNCHANGED ownerVars
  BY <1>3 DEF Leave
<1>4. CASE \E k \in Kinds : ApiStart(k)
  BY <1>4 DEF ApiStart, OwnerNext
<1>5. ASSUME NEW i \in Recordings, ApiStop(i) \/ ApiDiscard(i) \/ ApiFinalizeResult(i)
      PROVE  OwnerNext
  BY <1>5 DEF ApiStop, ApiDiscard, ApiFinalizeResult, OwnerNext
<1>6. CASE \E t \in Things, i \in Recordings : Reference(t, i)
  BY <1>6 DEF Reference, OwnerNext
<1>7. CASE Garbage \/ HostClose
  BY <1>7 DEF Garbage, HostClose, OwnerNext
<1>8. CASE UNCHANGED cpuVars
  BY <1>8 DEF cpuVars
<1> QED BY <1>1, <1>2, <1>3, <1>4, <1>5, <1>6, <1>7, <1>8 DEF CpuNext

\* Every action of CpuRecording is an action of ProfileOwnership, or one that neither
\* starts, stops nor finalizes anything.
THEOREM CpuRecordingOwns == CpuSpec => OwnerSpec
<1>1. CpuInit => OwnerInit
  BY DEF CpuInit
<1> QED BY <1>1, CpuStepOwns, PTL DEF CpuSpec, OwnerSpec

\* Every profile has exactly one owner, for any number of recordings, whatever is
\* stopped, closed, forgotten and collected (lp_runtime_stop, recorder_gc, result_gc).
THEOREM ProfilesOwned == CpuSpec => []OneOwner
<1>1. OwnerInv => OneOwner
  BY DEF OwnerInv
<1> QED BY <1>1, OwnerInvariant, CpuRecordingOwns, PTL

\* What a recorder calls active runs, and what runs has an active recorder, for any
\* number of recordings.
THEOREM ActiveOnesCollected == CpuSpec => []ActiveIsCollected
<1>1. OwnerInv => ActiveIsCollected
  BY DEF OwnerInv
<1> QED BY <1>1, OwnerInvariant, CpuRecordingOwns, PTL

------------------------------------------------------------------------------
(* Induction, as the existence of minimal elements. *)

LEMMA Minimal ==
    ASSUME NEW F, F # {}, \A S \in F : IsFiniteSet(S)
    PROVE  \E m \in F : \A k \in F : ~(k \subseteq m /\ k # m)
<1> DEFINE U == UNION F
<1>1. F \subseteq FiniteSubsetsOf(U)
  BY DEF FiniteSubsetsOf
<1>2. \E x \in F : \A y \in F : ~ (<<y, x>> \in StrictSubsetOrdering(U))
  <2> HIDE DEF U
  <2> QED
    BY <1>1, FS_StrictSubsetOrderingWellFounded, WFMin
<1> QED
  BY <1>2 DEF StrictSubsetOrdering

LEMMA NatMin == ASSUME NEW T \in SUBSET Nat, T # {} PROVE \E m \in T : \A k \in T : m <= k
<1> DEFINE F == {1 .. n : n \in T}
<1>1. \A n \in T : IsFiniteSet(1 .. n)
  BY FS_Interval
<1>2. \E S \in F : \A k \in F : ~(k \subseteq S /\ k # S)
  <2> HIDE DEF F
  <2>1. F # {} /\ \A S \in F : IsFiniteSet(S)
    BY <1>1 DEF F
  <2> QED
    BY <2>1, Minimal
<1>3. PICK m \in T : \A k \in F : ~(k \subseteq 1 .. m /\ k # 1 .. m)
  BY <1>2
<1>4. ASSUME NEW k \in T, ~(m <= k) PROVE FALSE
  <2>1. 1 .. k \in F
    OBVIOUS
  <2>2. 1 .. k \subseteq 1 .. m /\ m \in 1 .. m /\ m \notin 1 .. k
    BY <1>4
  <2> QED
    BY <2>1, <2>2, <1>3
<1> QED
  BY <1>4

\* Zero is good and some number is not: a good number has a successor that is not.
LEMMA FirstBad ==
    ASSUME NEW Good, NEW n \in Nat, n \notin Good, 0 \in Good
    PROVE  \E m \in Nat : m + 1 \notin Good /\ m \in Good /\ m + 1 <= n
<1> DEFINE T == {k \in Nat : k \notin Good}
<1>1. n \in T
  OBVIOUS
<1>2. \E m \in T : \A k \in T : m <= k
  <2> HIDE DEF T
  <2>1. T \in SUBSET Nat
    BY DEF T
  <2> QED
    BY <1>1, <2>1, NatMin
<1>3. PICK m \in T : \A k \in T : m <= k
  BY <1>2
<1>4. m \in Nat /\ m # 0 /\ m - 1 \in Nat /\ m - 1 \notin T /\ m <= n
  BY <1>1, <1>3
<1>5. m - 1 \in Good /\ (m - 1) + 1 = m /\ m \notin Good
  BY <1>4, <1>3
<1> QED
  BY <1>4, <1>5

------------------------------------------------------------------------------
(* Sums over finite sets. *)

Chosen(s) == CHOOSE x \in s : TRUE
SumBody(w, g, s) == IF s = {} THEN 0 ELSE w[Chosen(s)] + g[s \ {Chosen(s)}]
SumIter(w, S) == CHOOSE iter : iter = [s \in SUBSET S |-> SumBody(w, iter, s)]
Sums(w, g, S) == \A s \in SUBSET S : g[s] = SumBody(w, g, s)

LEMMA SumDef == ASSUME NEW w, NEW S PROVE SumFunctionOnSet(w, S) = SumIter(w, S)[S]
BY DEF SumFunctionOnSet, FoldFunctionOnSet, MapThenFoldSet, SumIter, SumBody, Chosen

LEMMA ChosenSmaller ==
    ASSUME NEW s, s # {}, IsFiniteSet(s)
    PROVE  /\ Chosen(s) \in s /\ s \ {Chosen(s)} \in SUBSET s
           /\ Cardinality(s) \in Nat /\ Cardinality(s) > 0
           /\ Cardinality(s \ {Chosen(s)}) = Cardinality(s) - 1
<1>1. Chosen(s) \in s
  BY DEF Chosen
<1>2. Cardinality(s) \in Nat /\ Cardinality(s) # 0
  BY FS_CardinalityType, FS_EmptySet
<1> QED
  BY <1>1, <1>2, FS_RemoveElement

LEMMA SumsExist ==
    ASSUME NEW w, NEW S, IsFiniteSet(S)
    PROVE  \E g : g = [s \in SUBSET S |-> SumBody(w, g, s)]
<1> DEFINE UpTo(n) == \E g : \A s \in SUBSET S : Cardinality(s) <= n => g[s] = SumBody(w, g, s)
           Good == {n \in Nat : UpTo(n)}
<1>1. \A s \in SUBSET S : IsFiniteSet(s) /\ Cardinality(s) \in Nat
  BY FS_Subset, FS_CardinalityType
<1>2. UpTo(0)
  <2> DEFINE g == [s \in SUBSET S |-> 0]
  <2>1. \A s \in SUBSET S : Cardinality(s) <= 0 => g[s] = SumBody(w, g, s)
    <3> SUFFICES ASSUME NEW s \in SUBSET S, Cardinality(s) <= 0 PROVE g[s] = SumBody(w, g, s)
      OBVIOUS
    <3>1. s = {}
      BY <1>1, FS_EmptySet
    <3> QED
      BY <3>1 DEF SumBody
  <2> QED
    BY <2>1
<1>3. ASSUME NEW n \in Nat, UpTo(n) PROVE UpTo(n + 1)
  <2>1. PICK g : \A s \in SUBSET S : Cardinality(s) <= n => g[s] = SumBody(w, g, s)
    BY <1>3
  <2> DEFINE h == [s \in SUBSET S |-> IF Cardinality(s) <= n THEN g[s] ELSE SumBody(w, g, s)]
  <2>2. ASSUME NEW s \in SUBSET S, Cardinality(s) <= n + 1 PROVE h[s] = SumBody(w, h, s)
    <3>1. h[s] = SumBody(w, g, s)
      BY <2>1
    <3>2. CASE s = {}
      BY <3>1, <3>2 DEF SumBody
    <3>3. CASE s # {}
      <4>1. /\ s \ {Chosen(s)} \in SUBSET S
            /\ Cardinality(s \ {Chosen(s)}) <= n
        BY <1>1, <2>2, <3>3, ChosenSmaller
      <4>2. h[s \ {Chosen(s)}] = g[s \ {Chosen(s)}]
        BY <4>1
      <4> HIDE DEF h
      <4> QED
        BY <3>1, <4>2 DEF SumBody
    <3> QED
      BY <3>2, <3>3
  <2> QED
    BY <2>2
<1>4. UpTo(Cardinality(S))
  <2>1. 0 \in Good /\ Cardinality(S) \in Nat
    BY <1>1, <1>2
  <2>2. ASSUME NEW n \in Nat, n \in Good PROVE n + 1 \in Good
    BY <1>3, <2>2
  <2> HIDE DEF Good
  <2>3. Cardinality(S) \in Good
    BY <2>1, <2>2, FirstBad
  <2> QED
    BY <2>3 DEF Good
<1>5. PICK g : \A s \in SUBSET S : Cardinality(s) <= Cardinality(S) => g[s] = SumBody(w, g, s)
  BY <1>4
<1>6. \A s \in SUBSET S : g[s] = SumBody(w, g, s)
  BY <1>5, FS_Subset
<1> DEFINE h == [s \in SUBSET S |-> g[s]]
<1>7. \A s \in SUBSET S : h[s] = SumBody(w, h, s)
  <2> SUFFICES ASSUME NEW s \in SUBSET S PROVE h[s] = SumBody(w, h, s)
    OBVIOUS
  <2>1. h[s] = SumBody(w, g, s)
    BY <1>6
  <2>2. s # {} => s \ {Chosen(s)} \in SUBSET S
    OBVIOUS
  <2> QED
    BY <2>1, <2>2 DEF SumBody
<1>8. h = [s \in SUBSET S |-> SumBody(w, h, s)]
  <2>1. h = [s \in SUBSET S |-> h[s]]
    OBVIOUS
  <2> HIDE DEF h
  <2> QED
    BY <1>7, <2>1
<1> HIDE DEF h
<1> QED
  BY <1>8

LEMMA SumIs ==
    ASSUME NEW w, NEW S, IsFiniteSet(S)
    PROVE  Sums(w, SumIter(w, S), S)
<1> DEFINE g == SumIter(w, S)
<1>1. g = [s \in SUBSET S |-> SumBody(w, g, s)]
  BY SumsExist DEF SumIter
<1> HIDE DEF g
<1>2. \A s \in SUBSET S : g[s] = SumBody(w, g, s)
  BY <1>1
<1> QED
  BY <1>2 DEF Sums, g

LEMMA SumsUnique ==
    ASSUME NEW w, NEW S, IsFiniteSet(S), NEW g, NEW h, Sums(w, g, S), Sums(w, h, S)
    PROVE  g[S] = h[S]
<1> DEFINE F == {s \in SUBSET S : g[s] # h[s]}
<1>1. SUFFICES ASSUME S \in F PROVE FALSE
  OBVIOUS
<1>2. F # {} /\ \A s \in F : IsFiniteSet(s)
  BY <1>1, FS_Subset
<1>3. \E m \in F : \A k \in F : ~(k \subseteq m /\ k # m)
  <2> HIDE DEF F
  <2> QED
    BY <1>2, Minimal
<1>4. PICK m \in F : \A k \in F : ~(k \subseteq m /\ k # m)
  BY <1>3
<1>5. g[m] = SumBody(w, g, m) /\ h[m] = SumBody(w, h, m)
  BY DEF Sums
<1>6. m # {}
  BY <1>5 DEF SumBody
<1>7. m \ {Chosen(m)} \in SUBSET m /\ m \ {Chosen(m)} # m
  BY <1>2, <1>6, ChosenSmaller
<1>8. g[m \ {Chosen(m)}] = h[m \ {Chosen(m)}]
  BY <1>4, <1>7
<1>9. g[m] = h[m]
  BY <1>5, <1>8 DEF SumBody
<1> QED
  BY <1>9

\* A sum over a part is the value there of the function that sums over the whole.
LEMMA SumPart ==
    ASSUME NEW w, NEW S, IsFiniteSet(S), NEW T \in SUBSET S
    PROVE  SumFunctionOnSet(w, T) = SumIter(w, S)[T]
<1>1. Sums(w, SumIter(w, S), T) /\ Sums(w, SumIter(w, T), T)
  BY SumIs, FS_Subset DEF Sums
<1> QED
  BY <1>1, SumsUnique, SumDef, FS_Subset

LEMMA SumStep ==
    ASSUME NEW w, NEW S, IsFiniteSet(S)
    PROVE  SumFunctionOnSet(w, S) = IF S = {} THEN 0
                ELSE w[Chosen(S)] + SumFunctionOnSet(w, S \ {Chosen(S)})
<1>1. SumIter(w, S)[S] = SumBody(w, SumIter(w, S), S)
  BY SumIs DEF Sums
<1>2. SumFunctionOnSet(w, S \ {Chosen(S)}) = SumIter(w, S)[S \ {Chosen(S)}]
  BY SumPart
<1>3. SumFunctionOnSet(w, S) = SumIter(w, S)[S]
  BY SumDef
<1> QED
  BY <1>1, <1>2, <1>3 DEF SumBody

LEMMA SumType ==
    ASSUME NEW w, NEW S, IsFiniteSet(S), \A x \in S : w[x] \in Nat
    PROVE  SumFunctionOnSet(w, S) \in Nat
<1> DEFINE F == {s \in SUBSET S : SumFunctionOnSet(w, s) \notin Nat}
<1>1. SUFFICES ASSUME S \in F PROVE FALSE
  OBVIOUS
<1>2. F # {} /\ \A s \in F : IsFiniteSet(s)
  BY <1>1, FS_Subset
<1>3. \E m \in F : \A k \in F : ~(k \subseteq m /\ k # m)
  <2> HIDE DEF F
  <2> QED
    BY <1>2, Minimal
<1>4. PICK m \in F : \A k \in F : ~(k \subseteq m /\ k # m)
  BY <1>3
<1>5. m # {}
  <2>1. SumFunctionOnSet(w, {}) = 0
    BY SumStep, FS_EmptySet
  <2> QED
    BY <2>1
<1>6. /\ m \ {Chosen(m)} \in SUBSET m /\ m \ {Chosen(m)} # m /\ Chosen(m) \in m
      /\ SumFunctionOnSet(w, m) = w[Chosen(m)] + SumFunctionOnSet(w, m \ {Chosen(m)})
  <2>1. IsFiniteSet(m)
    BY <1>2
  <2> QED
    BY <2>1, <1>5, ChosenSmaller, SumStep
<1>7. SumFunctionOnSet(w, m \ {Chosen(m)}) \in Nat
  BY <1>4, <1>6
<1>8. w[Chosen(m)] \in Nat
  BY <1>6
<1>9. SumFunctionOnSet(w, m) \in Nat
  BY <1>6, <1>7, <1>8
<1> QED
  BY <1>9

\* Whichever element is taken out first.
LEMMA SumRemove ==
    ASSUME NEW w, NEW S, IsFiniteSet(S), \A x \in S : w[x] \in Nat, NEW y \in S
    PROVE  SumFunctionOnSet(w, S) = w[y] + SumFunctionOnSet(w, S \ {y})
<1> DEFINE Sum(s) == SumFunctionOnSet(w, s)
           Bad(s) == \E z \in s : Sum(s) # w[z] + Sum(s \ {z})
           F == {s \in SUBSET S : Bad(s)}
<1>1. SUFFICES ASSUME Bad(S) PROVE FALSE
  OBVIOUS
<1>2. F # {} /\ \A s \in F : IsFiniteSet(s)
  BY <1>1, FS_Subset
<1>3. \E m \in F : \A k \in F : ~(k \subseteq m /\ k # m)
  <2> HIDE DEF F
  <2> QED
    BY <1>2, Minimal
<1>4. PICK m \in F : \A k \in F : ~(k \subseteq m /\ k # m)
  BY <1>3
<1>5. PICK z \in m : Sum(m) # w[z] + Sum(m \ {z})
  OBVIOUS
<1> DEFINE x == Chosen(m)
           rest == m \ {x, z}
<1>6. x \in m /\ Sum(m) = w[x] + Sum(m \ {x})
  BY <1>2, ChosenSmaller, SumStep
<1>7. x # z
  BY <1>5, <1>6
<1>8. m \in SUBSET S /\ IsFiniteSet(m)
  BY <1>2
<1> HIDE DEF x, F
<1>9. Sum(m \ {x}) = w[z] + Sum(rest)
  <2>1. m \ {x} \subseteq m /\ m \ {x} # m
    BY <1>6
  <2>2. m \ {x} \notin F
    BY <1>4, <2>1
  <2>3. z \in m \ {x} /\ (m \ {x}) \ {z} = rest /\ m \ {x} \in SUBSET S
    BY <1>7, <1>8
  <2> QED
    BY <2>2, <2>3 DEF F
<1>10. Sum(m \ {z}) = w[x] + Sum(rest)
  <2>1. m \ {z} \subseteq m /\ m \ {z} # m
    OBVIOUS
  <2>2. m \ {z} \notin F
    BY <1>4, <2>1
  <2>3. x \in m \ {z} /\ (m \ {z}) \ {x} = rest /\ m \ {z} \in SUBSET S
    BY <1>6, <1>7, <1>8
  <2> QED
    BY <2>2, <2>3 DEF F
<1>11. w[x] \in Nat /\ w[z] \in Nat /\ Sum(rest) \in Nat
  <2>1. rest \in SUBSET S
    BY <1>8
  <2> QED
    BY <1>6, <1>8, <2>1, SumType, FS_Subset
<1> HIDE DEF rest, Sum
<1>12. Sum(m) = w[z] + Sum(m \ {z})
  BY <1>6, <1>9, <1>10, <1>11
<1> QED
  BY <1>5, <1>12

LEMMA SumAdd ==
    ASSUME NEW w, NEW S, IsFiniteSet(S), NEW y, y \notin S,
           \A x \in S \cup {y} : w[x] \in Nat
    PROVE  SumFunctionOnSet(w, S \cup {y}) = w[y] + SumFunctionOnSet(w, S)
<1>1. IsFiniteSet(S \cup {y}) /\ (S \cup {y}) \ {y} = S /\ y \in S \cup {y}
  BY FS_AddElement
<1> QED
  BY <1>1, SumRemove

LEMMA SumEmpty == ASSUME NEW w PROVE SumFunctionOnSet(w, {}) = 0
BY SumStep, FS_EmptySet

\* A sum depends on the summands only.
LEMMA SumSame ==
    ASSUME NEW S, IsFiniteSet(S), NEW v, NEW w, \A x \in S : v[x] = w[x]
    PROVE  SumFunctionOnSet(v, S) = SumFunctionOnSet(w, S)
<1> DEFINE F == {s \in SUBSET S : SumFunctionOnSet(v, s) # SumFunctionOnSet(w, s)}
<1>1. SUFFICES ASSUME S \in F PROVE FALSE
  OBVIOUS
<1>2. F # {} /\ \A s \in F : IsFiniteSet(s)
  BY <1>1, FS_Subset
<1>3. \E m \in F : \A k \in F : ~(k \subseteq m /\ k # m)
  <2> HIDE DEF F
  <2> QED
    BY <1>2, Minimal
<1>4. PICK m \in F : \A k \in F : ~(k \subseteq m /\ k # m)
  BY <1>3
<1>5. m # {}
  BY SumEmpty
<1>6. /\ m \ {Chosen(m)} \in SUBSET m /\ m \ {Chosen(m)} # m /\ Chosen(m) \in m
      /\ SumFunctionOnSet(w, m) = w[Chosen(m)] + SumFunctionOnSet(w, m \ {Chosen(m)})
      /\ SumFunctionOnSet(v, m) = v[Chosen(m)] + SumFunctionOnSet(v, m \ {Chosen(m)})
  <2>1. IsFiniteSet(m)
    BY <1>2
  <2> QED
    BY <2>1, <1>5, ChosenSmaller, SumStep
<1>7. SumFunctionOnSet(w, m \ {Chosen(m)}) = SumFunctionOnSet(v, m \ {Chosen(m)})
  BY <1>4, <1>6
<1>8. SumFunctionOnSet(v, m) = SumFunctionOnSet(w, m)
  BY <1>6, <1>7
<1> QED
  BY <1>8

------------------------------------------------------------------------------
(* Counts: functions that are incremented, one element at a time.             *)

FiniteCount(v) == IsFiniteSet(DOMAIN v) /\ v \in [DOMAIN v -> Nat]
CountOf(v, x) == IF x \in DOMAIN v THEN v[x] ELSE 0
Bump(v, a) == [x \in DOMAIN v \cup {a} |-> IF x = a THEN CountOf(v, a) + 1 ELSE v[x]]

LEMMA BumpCount ==
    ASSUME NEW v, NEW a, FiniteCount(v)
    PROVE  FiniteCount(Bump(v, a)) /\ DOMAIN Bump(v, a) = DOMAIN v \cup {a}
<1>1. DOMAIN Bump(v, a) = DOMAIN v \cup {a}
  BY DEF Bump
<1>2. IsFiniteSet(DOMAIN v \cup {a})
  BY FS_AddElement DEF FiniteCount
<1>3. Bump(v, a) \in [DOMAIN v \cup {a} -> Nat]
  BY DEF Bump, CountOf, FiniteCount
<1> QED
  BY <1>1, <1>2, <1>3 DEF FiniteCount

LEMMA CountSum ==
    ASSUME NEW v, FiniteCount(v), NEW S \in SUBSET DOMAIN v
    PROVE  SumFunctionOnSet(v, S) \in Nat /\ IsFiniteSet(S) /\ \A x \in S : v[x] \in Nat
<1>1. IsFiniteSet(S) /\ \A x \in S : v[x] \in Nat
  BY FS_Subset DEF FiniteCount
<1> QED
  BY <1>1, SumType

\* A sum grows by one if the element that was incremented is among the summands.
LEMMA BumpSum ==
    ASSUME NEW v, NEW a, FiniteCount(v), NEW T \in SUBSET (DOMAIN v \cup {a}),
           NEW S, S = T \cap DOMAIN v
    PROVE  /\ SumFunctionOnSet(Bump(v, a), T)
                = SumFunctionOnSet(v, S) + (IF a \in T THEN 1 ELSE 0)
           /\ SumFunctionOnSet(v, S) \in Nat
<1> DEFINE w == Bump(v, a)
<1>1. /\ FiniteCount(w) /\ T \in SUBSET DOMAIN w /\ w[a] = CountOf(v, a) + 1
      /\ \A x \in S : x # a => w[x] = v[x]
  <2>1. FiniteCount(w) /\ DOMAIN w = DOMAIN v \cup {a}
    BY BumpCount
  <2>2. w[a] = CountOf(v, a) + 1 /\ \A x \in DOMAIN v : x # a => w[x] = v[x]
    BY DEF Bump
  <2> QED
    BY <2>1, <2>2
<1>2. S \in SUBSET DOMAIN v /\ SumFunctionOnSet(v, S) \in Nat /\ IsFiniteSet(S)
      /\ \A x \in S : v[x] \in Nat
  BY CountSum
<1>3. IsFiniteSet(T) /\ \A x \in T : w[x] \in Nat
  <2> HIDE DEF w
  <2> QED
    BY <1>1, CountSum
<1> HIDE DEF w
<1>4. CASE a \notin T
  <2>1. T = S /\ \A x \in S : w[x] = v[x]
    BY <1>1, <1>4
  <2>2. SumFunctionOnSet(w, S) = SumFunctionOnSet(v, S)
    BY <1>2, <2>1, SumSame
  <2> QED
    BY <1>2, <1>4, <2>1, <2>2 DEF w
<1>5. CASE a \in T
  <2> DEFINE R == S \ {a}
  <2>1. T \ {a} = R /\ R \in SUBSET DOMAIN v /\ \A x \in R : w[x] = v[x]
    BY <1>1
  <2>2. SumFunctionOnSet(w, T) = w[a] + SumFunctionOnSet(w, T \ {a})
    BY <1>3, <1>5, SumRemove
  <2>3. SumFunctionOnSet(w, R) = SumFunctionOnSet(v, R) /\ SumFunctionOnSet(v, R) \in Nat
    <3> HIDE DEF R
    <3> QED
      BY <2>1, CountSum, SumSame
  <2>4. SumFunctionOnSet(v, S) = CountOf(v, a) + SumFunctionOnSet(v, R)
        /\ CountOf(v, a) \in Nat
    <3>1. CASE a \in S
      <4>1. SumFunctionOnSet(v, S) = v[a] + SumFunctionOnSet(v, R)
        BY <1>2, <3>1, SumRemove
      <4> QED
        BY <1>2, <3>1, <4>1 DEF CountOf
    <3>2. CASE a \notin S
      <4>1. R = S /\ a \notin DOMAIN v
        BY <1>5, <3>2
      <4> QED
        BY <1>2, <4>1 DEF CountOf
    <3> QED
      BY <3>1, <3>2
  <2> HIDE DEF R
  <2>5. SumFunctionOnSet(w, T) = SumFunctionOnSet(v, S) + 1
    BY <1>1, <2>1, <2>2, <2>3, <2>4
  <2> QED
    BY <1>2, <1>5, <2>5 DEF w
<1> QED
  BY <1>4, <1>5

\* The sum of all counts grows by one.
LEMMA BumpAll ==
    ASSUME NEW v, NEW a, FiniteCount(v)
    PROVE  /\ SumFunction(Bump(v, a)) = SumFunction(v) + 1
           /\ SumFunction(v) \in Nat
<1> DEFINE T == DOMAIN v \cup {a}
           S == DOMAIN v
<1>1. T \in SUBSET (DOMAIN v \cup {a}) /\ S = T \cap DOMAIN v /\ a \in T
      /\ DOMAIN Bump(v, a) = T
  BY BumpCount
<1> HIDE DEF T, S
<1>2. SumFunctionOnSet(Bump(v, a), T) = SumFunctionOnSet(v, S) + 1
      /\ SumFunctionOnSet(v, S) \in Nat
  BY <1>1, BumpSum
<1> QED
  BY <1>1, <1>2 DEF SumFunction, S

------------------------------------------------------------------------------
(* A profile and its frames.                                                  *)

AllFunctions == LuaFunctions \cup CFunctions
Symbols == AllFunctions \cup {NoSymbol}
Aggregates == [state: VmStates, cfunction: CFunctions \cup {NoFunction}, frames: Seq(Symbols)]
Weights == UNION {[D -> Nat] : D \in SUBSET Aggregates}

\* What lp_cpu_profile holds.
CpuProfiles ==
    [symbols: SUBSET Symbols, weight: Weights, counted: [VmStates -> Nat],
     truncations: Nat, aggregate_overflows: Nat, symbol_overflows: Nat]

LEMMA WeightsAre ==
    \A w : w \in Weights <=> DOMAIN w \in SUBSET Aggregates /\ w \in [DOMAIN w -> Nat]
<1>1. ASSUME NEW w, w \in Weights
      PROVE  DOMAIN w \in SUBSET Aggregates /\ w \in [DOMAIN w -> Nat]
  <2>1. PICK D \in SUBSET Aggregates : w \in [D -> Nat]
    BY <1>1 DEF Weights
  <2> QED
    BY <2>1
<1>2. ASSUME NEW w, DOMAIN w \in SUBSET Aggregates, w \in [DOMAIN w -> Nat]
      PROVE  w \in Weights
  BY <1>2 DEF Weights
<1> QED
  BY <1>1, <1>2

\* q has the samples of p, and may have more symbols or more of their overflows.
OnlySymbols(p, q) ==
    /\ q \in CpuProfiles
    /\ q.weight = p.weight /\ q.counted = p.counted
    /\ q.aggregate_overflows = p.aggregate_overflows
    /\ q.symbol_overflows >= p.symbol_overflows

\* A frame keeps its name unless the table of symbols overflows.
LEMMA SymbolIs ==
    ASSUME NEW p \in CpuProfiles, NEW frame \in AllFunctions
    PROVE  LET step == intern_symbol(p, frame)
           IN  /\ OnlySymbols(p, step.profile)
               /\ step.symbol \in Symbols
               /\ step.profile.symbol_overflows = 0 => step.symbol = frame
<1> DEFINE step == intern_symbol(p, frame)
<1>1. CASE frame \in p.symbols
  BY <1>1 DEF intern_symbol, OnlySymbols, CpuProfiles, Symbols
<1>2. CASE frame \notin p.symbols /\ Cardinality(p.symbols) < SymbolCapacity
  <2> DEFINE T == p.symbols \cup {frame}
             r == [p EXCEPT !.symbols = T]
  <2>1. step = [profile |-> r, symbol |-> frame]
    BY <1>2 DEF intern_symbol
  <2>2. T \in SUBSET Symbols
    BY DEF CpuProfiles, Symbols
  <2> HIDE DEF T
  <2>3. OnlySymbols(p, r)
    BY <2>2 DEF CpuProfiles, OnlySymbols
  <2> HIDE DEF r
  <2> QED
    BY <2>1, <2>3 DEF Symbols
<1>3. CASE frame \notin p.symbols /\ ~(Cardinality(p.symbols) < SymbolCapacity)
  <2> DEFINE n == p.symbol_overflows + 1
             r == [p EXCEPT !.symbol_overflows = n]
  <2>1. step = [profile |-> r, symbol |-> NoSymbol]
    BY <1>3 DEF intern_symbol
  <2>2. n \in Nat /\ p.symbol_overflows \in Nat /\ n >= p.symbol_overflows /\ n # 0
    BY DEF CpuProfiles
  <2> HIDE DEF n
  <2>3. OnlySymbols(p, r) /\ r.symbol_overflows = n
    BY <2>2 DEF CpuProfiles, OnlySymbols
  <2> HIDE DEF r
  <2> QED
    BY <2>1, <2>2, <2>3 DEF Symbols
<1> QED
  BY <1>1, <1>2, <1>3

InternBody(p, frames, g, n) ==
    IF n = 0 THEN [profile |-> p, frames |-> <<>>]
    ELSE [profile |-> intern_symbol(g[n - 1].profile, frames[n]).profile,
          frames |-> Append(g[n - 1].frames,
                            intern_symbol(g[n - 1].profile, frames[n]).symbol)]
InternSteps(p, frames) ==
    CHOOSE g : g = [n \in 0 .. Len(frames) |-> InternBody(p, frames, g, n)]

LEMMA InternDef ==
    ASSUME NEW p, NEW frames
    PROVE  InternStack(p, frames) = InternSteps(p, frames)[Len(frames)]
BY DEF InternStack, InternSteps, InternBody

LEMMA InternStepsExist ==
    ASSUME NEW p, NEW frames, Len(frames) \in Nat
    PROVE  \E g : g = [n \in 0 .. Len(frames) |-> InternBody(p, frames, g, n)]
<1> DEFINE L == Len(frames)
           Body(g, n) == InternBody(p, frames, g, n)
           UpTo(m) == \E g : \A n \in 0 .. m : g[n] = Body(g, n)
           Good == {m \in Nat : UpTo(m)}
<1>1. UpTo(0)
  <2> DEFINE g == [n \in 0 .. 0 |-> [profile |-> p, frames |-> <<>>]]
  <2>1. \A n \in 0 .. 0 : n = 0
    OBVIOUS
  <2>2. \A n \in 0 .. 0 : g[n] = Body(g, n)
    BY <2>1 DEF InternBody
  <2> HIDE DEF Body
  <2> QED
    BY <2>2
<1>s. ASSUME NEW g, NEW h, NEW n, n = 0 \/ g[n - 1] = h[n - 1] PROVE Body(g, n) = Body(h, n)
  BY <1>s DEF InternBody
<1>2. ASSUME NEW m \in Nat, UpTo(m) PROVE UpTo(m + 1)
  <2>1. PICK g : \A n \in 0 .. m : g[n] = Body(g, n)
    BY <1>2
  <2> HIDE DEF Body
  <2> DEFINE h == [n \in 0 .. m + 1 |-> IF n <= m THEN g[n] ELSE Body(g, n)]
  <2>2. ASSUME NEW n \in 0 .. m + 1 PROVE h[n] = Body(h, n)
    <3>1. h[n] = Body(g, n)
      BY <2>1
    <3>2. n # 0 => h[n - 1] = g[n - 1]
      OBVIOUS
    <3> HIDE DEF h
    <3> QED
      BY <1>s, <3>1, <3>2
  <2> HIDE DEF h
  <2> QED
    BY <2>2
<1>3. UpTo(L)
  <2>1. 0 \in Good /\ \A m \in Nat : m \in Good => m + 1 \in Good
    <3> HIDE DEF UpTo
    <3> QED
      BY <1>1, <1>2
  <2> HIDE DEF Good, UpTo
  <2>2. L \in Good
    BY <2>1, FirstBad
  <2> QED
    BY <2>2 DEF Good
<1> HIDE DEF Body
<1>4. PICK g : \A n \in 0 .. L : g[n] = Body(g, n)
  BY <1>3
<1> DEFINE h == [n \in 0 .. L |-> g[n]]
<1>5. \A n \in 0 .. L : h[n] = Body(h, n)
  <2> TAKE n \in 0 .. L
  <2>1. h[n] = Body(g, n)
    BY <1>4
  <2>2. n # 0 => h[n - 1] = g[n - 1]
    OBVIOUS
  <2> HIDE DEF h
  <2> QED
    BY <1>s, <2>1, <2>2
<1>6. h = [n \in 0 .. L |-> h[n]]
  OBVIOUS
<1> HIDE DEF h
<1>7. h = [n \in 0 .. L |-> Body(h, n)]
  BY <1>5, <1>6
<1> QED
  BY <1>7 DEF Body

\* Interning a stack keeps the samples, and its frames unless the symbols overflow.
LEMMA InternStackIs ==
    ASSUME NEW p \in CpuProfiles, NEW stk \in Seq(AllFunctions)
    PROVE  LET done == InternStack(p, stk)
           IN  /\ OnlySymbols(p, done.profile)
               /\ done.frames \in Seq(Symbols)
               /\ done.profile.symbol_overflows = 0 => done.frames = stk
<1> DEFINE g == InternSteps(p, stk)
           L == Len(stk)
           Step(n) == intern_symbol(g[n - 1].profile, stk[n])
<1>1. L \in Nat /\ \A n \in 1 .. L : stk[n] \in AllFunctions
  OBVIOUS
<1>2. g = [n \in 0 .. L |-> InternBody(p, stk, g, n)]
  BY <1>1, InternStepsExist DEF InternSteps
<1>3. InternStack(p, stk) = g[L]
  BY InternDef
<1> HIDE DEF g
<1>4. /\ g[0] = [profile |-> p, frames |-> <<>>]
      /\ \A n \in 1 .. L : g[n] = [profile |-> Step(n).profile,
                                   frames |-> Append(g[n - 1].frames, Step(n).symbol)]
  <2>1. \A n \in 0 .. L : g[n] = InternBody(p, stk, g, n)
    BY <1>2
  <2>2. 0 \in 0 .. L /\ \A n \in 1 .. L : n \in 0 .. L /\ n # 0
    BY <1>1
  <2> QED
    BY <2>1, <2>2 DEF InternBody
<1> DEFINE Done(n) == /\ OnlySymbols(p, g[n].profile)
                      /\ g[n].frames \in Seq(Symbols) /\ Len(g[n].frames) = n
                      /\ g[n].profile.symbol_overflows = 0 =>
                            \A k \in 1 .. n : g[n].frames[k] = stk[k]
           Good == {n \in Nat : n <= L => Done(n)}
<1>5. 0 \in Good
  <2>1. OnlySymbols(p, p)
    BY DEF OnlySymbols, CpuProfiles
  <2>2. Len(<<>>) = 0 /\ <<>> \in Seq(Symbols)
    OBVIOUS
  <2>3. g[0].profile = p /\ g[0].frames = <<>>
    BY <1>4
  <2>4. Done(0)
    BY <2>1, <2>2, <2>3
  <2> HIDE DEF Done
  <2> QED
    BY <2>4
<1>6. ASSUME NEW n \in Nat, n \in Good PROVE n + 1 \in Good
  <2> SUFFICES ASSUME n + 1 <= L PROVE Done(n + 1)
    OBVIOUS
  <2> DEFINE q == g[n].profile
             f == g[n].frames
             step == intern_symbol(q, stk[n + 1])
             r == step.profile
             s == step.symbol
  <2>1. n + 1 \in 1 .. L /\ (n + 1) - 1 = n /\ n <= L
    BY <1>1
  <2>2. Done(n)
    BY <1>6, <2>1
  <2>3. g[n + 1] = [profile |-> r, frames |-> Append(f, s)]
    BY <1>4, <2>1
  <2>4. q \in CpuProfiles /\ stk[n + 1] \in AllFunctions
    BY <1>1, <2>1, <2>2 DEF OnlySymbols
  <2>5. OnlySymbols(q, r) /\ s \in Symbols /\ (r.symbol_overflows = 0 => s = stk[n + 1])
    BY <2>4, SymbolIs
  <2> HIDE DEF r, s
  <2>6. OnlySymbols(p, q) /\ f \in Seq(Symbols) /\ Len(f) = n
        /\ (q.symbol_overflows = 0 => \A k \in 1 .. n : f[k] = stk[k])
    BY <2>2
  <2>7. g[n + 1].profile = r /\ g[n + 1].frames = Append(f, s)
    BY <2>3
  <2> HIDE DEF q, f
  <2>8. OnlySymbols(p, r) /\ (r.symbol_overflows = 0 => q.symbol_overflows = 0)
    <3>1. r \in CpuProfiles /\ q \in CpuProfiles /\ p \in CpuProfiles
      BY <2>5, <2>6 DEF OnlySymbols
    <3>2. r.symbol_overflows \in Nat /\ q.symbol_overflows \in Nat /\ p.symbol_overflows \in Nat
      BY <3>1 DEF CpuProfiles
    <3> QED
      BY <2>5, <2>6, <3>2 DEF OnlySymbols
  <2>9. Append(f, s) \in Seq(Symbols) /\ Len(Append(f, s)) = n + 1
    BY <2>5, <2>6
  <2>10. ASSUME r.symbol_overflows = 0, NEW k \in 1 .. n + 1
         PROVE  Append(f, s)[k] = stk[k]
    <3>1. CASE k = n + 1
      BY <2>5, <2>6, <2>10, <3>1
    <3>2. CASE k # n + 1
      <4>1. k \in 1 .. n /\ f[k] = stk[k]
        BY <2>6, <2>8, <2>10, <3>2
      <4>2. Append(f, s)[k] = f[k]
        BY <2>5, <2>6, <4>1
      <4> QED
        BY <4>1, <4>2
    <3> QED
      BY <3>1, <3>2
  <2> QED
    BY <2>7, <2>8, <2>9, <2>10
<1>7. Done(L)
  <2>1. L \in Good
    <3> HIDE DEF Good
    <3> QED
      BY <1>1, <1>5, <1>6, FirstBad
  <2> HIDE DEF Done
  <2> QED
    BY <1>1, <2>1
<1>8. ASSUME g[L].profile.symbol_overflows = 0 PROVE g[L].frames = stk
  <2>1. /\ g[L].frames \in Seq(Symbols) /\ Len(g[L].frames) = L
        /\ \A k \in 1 .. L : g[L].frames[k] = stk[k]
    BY <1>7, <1>8
  <2> DEFINE h == g[L].frames
  <2>2. h \in Seq(Symbols) /\ Len(h) = Len(stk) /\ \A k \in 1 .. Len(stk) : h[k] = stk[k]
    BY <2>1
  <2> HIDE DEF h
  <2>3. h = stk
    BY <2>2
  <2> QED
    BY <2>3 DEF h
<1> QED
  BY <1>3, <1>7, <1>8

\* One more sample of an aggregate.
LEMMA MergeIs ==
    ASSUME NEW p \in CpuProfiles, NEW a \in Aggregates, NEW truncated
    PROVE  /\ Merge(p, a, truncated) \in CpuProfiles
           /\ Merge(p, a, truncated).weight = Bump(p.weight, a)
           /\ Merge(p, a, truncated).counted = Bump(p.counted, a.state)
           /\ Merge(p, a, truncated).aggregate_overflows = p.aggregate_overflows
           /\ Merge(p, a, truncated).symbol_overflows = p.symbol_overflows
<1> DEFINE old == IF a \in DOMAIN p.weight THEN p.weight[a] ELSE 0
           w == [b \in DOMAIN p.weight \cup {a} |-> IF b = a THEN old + 1 ELSE p.weight[b]]
           c == [p.counted EXCEPT ![a.state] = @ + 1]
           t == IF truncated THEN p.truncations + 1 ELSE p.truncations
           r == [p EXCEPT !.weight = w, !.counted = c, !.truncations = t]
<1>1. Merge(p, a, truncated) = r
  <2>1. r = [p EXCEPT !.weight = w, !.counted[a.state] = @ + 1, !.truncations = t]
    BY DEF CpuProfiles
  <2> QED
    BY <2>1 DEF Merge
<1>2. p.weight \in Weights /\ p.counted \in [VmStates -> Nat] /\ p.truncations \in Nat
      /\ a.state \in VmStates
  BY DEF CpuProfiles, Aggregates
<1>3. w = Bump(p.weight, a)
  BY <1>2 DEF Bump, CountOf
<1>4. w \in Weights
  <2>1. DOMAIN p.weight \in SUBSET Aggregates /\ p.weight \in [DOMAIN p.weight -> Nat]
    BY <1>2, WeightsAre
  <2>2. Bump(p.weight, a) \in [DOMAIN p.weight \cup {a} -> Nat]
    BY <2>1 DEF Bump, CountOf
  <2> QED
    BY <1>3, <2>1, <2>2 DEF Weights
<1>5. c = Bump(p.counted, a.state) /\ c \in [VmStates -> Nat]
  BY <1>2 DEF Bump, CountOf
<1>6. t \in Nat
  BY <1>2
<1> HIDE DEF w, c, t
<1>7. /\ r \in CpuProfiles /\ r.weight = w /\ r.counted = c
      /\ r.aggregate_overflows = p.aggregate_overflows
      /\ r.symbol_overflows = p.symbol_overflows
  BY <1>4, <1>5, <1>6 DEF CpuProfiles
<1> QED
  BY <1>1, <1>3, <1>5, <1>7

------------------------------------------------------------------------------
(* One event.                                                                 *)

Events == [state: VmStates, cfunction: CFunctions \cup {NoFunction},
           stack: Seq(AllFunctions), left: Nat]

\* What capture_stack takes of a stack for an event.
Captured(event, captured) ==
    IF event.state = "host" THEN <<>>
    ELSE SubSeq(captured, 1, Min({StackDepth, Len(captured)}))

LEMMA MinTwo ==
    ASSUME NEW a \in Nat, NEW b \in Nat
    PROVE  Min({a, b}) = IF a <= b THEN a ELSE b
BY DEF Min

LEMMA CapturedIs ==
    ASSUME NEW event, NEW captured \in Seq(AllFunctions)
    PROVE  /\ Captured(event, captured) \in Seq(AllFunctions)
           /\ event.state # "host" /\ Len(captured) <= StackDepth =>
                Captured(event, captured) = captured
<1> DEFINE m == Min({StackDepth, Len(captured)})
           s == SubSeq(captured, 1, m)
<1>1. Len(captured) \in Nat /\ StackDepth \in Nat
  BY CapacityAssumption
<1>2. m = IF StackDepth <= Len(captured) THEN StackDepth ELSE Len(captured)
  BY <1>1, MinTwo
<1> HIDE DEF m
<1>3. m \in Nat /\ m <= Len(captured) /\ (Len(captured) <= StackDepth => m = Len(captured))
  BY <1>1, <1>2
<1>4. s \in Seq(AllFunctions)
  BY <1>1, <1>3
<1>5. Len(captured) <= StackDepth => s = captured
  BY <1>1, <1>3
<1>6. <<>> \in Seq(AllFunctions)
  OBVIOUS
<1> QED
  BY <1>4, <1>5, <1>6 DEF Captured, m

\* p becomes q by an event that is counted as a, or finds no room for it.
Recorded(p, q, mid, a) ==
    /\ q \in CpuProfiles
    /\ q.symbol_overflows = mid.symbol_overflows
    /\ \/ /\ q.weight = Bump(p.weight, a)
          /\ q.counted = Bump(p.counted, a.state)
          /\ q.aggregate_overflows = p.aggregate_overflows
       \/ /\ q.weight = p.weight
          /\ q.counted = p.counted
          /\ q.aggregate_overflows = p.aggregate_overflows + 1

LEMMA RecordIs ==
    ASSUME NEW p \in CpuProfiles, NEW event \in Events, NEW captured \in Seq(AllFunctions)
    PROVE  \E mid \in CpuProfiles, a \in Aggregates :
                /\ OnlySymbols(p, mid)
                /\ a.state = event.state /\ a.cfunction = event.cfunction
                /\ mid.symbol_overflows = 0 => a.frames = Captured(event, captured)
                /\ Recorded(p, record_cpu_event(p, event, captured), mid, a)
<1> DEFINE stk == Captured(event, captured)
           truncated == IF event.state = "host" THEN FALSE ELSE Len(captured) > StackDepth
           done == InternStack(p, stk)
           mid == done.profile
           a == Aggregate(event.state, event.cfunction, done.frames)
           q == record_cpu_event(p, event, captured)
<1>1. stk \in Seq(AllFunctions)
  BY CapturedIs
<1>3. q = IF HasRoom(p, a) THEN Merge(mid, a, truncated)
          ELSE [mid EXCEPT !.aggregate_overflows = @ + 1]
  BY DEF record_cpu_event, lp_cpu_profile_record, Captured
<1> HIDE DEF stk, truncated
<1>4. /\ OnlySymbols(p, mid) /\ done.frames \in Seq(Symbols)
      /\ mid.symbol_overflows = 0 => done.frames = stk
  BY <1>1, InternStackIs
<1>5. a \in Aggregates /\ a.state = event.state /\ a.cfunction = event.cfunction
      /\ a.frames = done.frames
  BY <1>4 DEF Aggregate, Aggregates, Events
<1> HIDE DEF done, a, q
<1>6. mid \in CpuProfiles /\ mid.weight = p.weight /\ mid.counted = p.counted
      /\ mid.aggregate_overflows = p.aggregate_overflows
  BY <1>4 DEF OnlySymbols
<1> HIDE DEF mid
<1>7. CASE HasRoom(p, a)
  <2>1. q = Merge(mid, a, truncated)
    BY <1>3, <1>7
  <2>2. Recorded(p, q, mid, a)
    BY <1>5, <1>6, <2>1, MergeIs DEF Recorded
  <2> QED
    BY <1>4, <1>5, <1>6, <2>2 DEF stk, q
<1>8. CASE ~HasRoom(p, a)
  <2> DEFINE n == mid.aggregate_overflows + 1
             r == [mid EXCEPT !.aggregate_overflows = n]
  <2>1. q = r
    BY <1>3, <1>8
  <2>2. n \in Nat
    BY <1>6 DEF CpuProfiles
  <2>3. n = p.aggregate_overflows + 1
    BY <1>6
  <2> HIDE DEF n
  <2>4. /\ r \in CpuProfiles /\ r.weight = mid.weight /\ r.counted = mid.counted
        /\ r.symbol_overflows = mid.symbol_overflows /\ r.aggregate_overflows = n
    BY <1>6, <2>2 DEF CpuProfiles
  <2> HIDE DEF r
  <2>5. Recorded(p, q, mid, a)
    BY <1>6, <2>1, <2>3, <2>4 DEF Recorded
  <2> QED
    BY <1>4, <1>5, <1>6, <2>5 DEF stk, q
<1> QED
  BY <1>7, <1>8

\* The bottom of the stack is still that of the stack that was sampled.
Suffix(event, stk) ==
    event.state = "c" =>
        /\ event.stack # <<>> /\ event.cfunction = event.stack[1]
        /\ event.left <= Len(event.stack) /\ event.left <= Len(stk)
        /\ \A m \in Nat : m < event.left =>
                event.stack[Len(event.stack) - m] = stk[Len(stk) - m]

\* A sampled frame that can be found is exported with the stack it had.
LEMMA FoundIsExported ==
    ASSUME NEW event \in Events, NEW captured \in Seq(AllFunctions),
           Found(event, captured), Suffix(event, captured),
           NEW a \in Aggregates, a.state = "c", a.cfunction = event.cfunction,
           a.frames = Captured(event, captured)
    PROVE  ExportStack(a) = event.stack /\ event.stack # <<>>
<1> DEFINE s == event.stack
           d == Len(s)
           L == Len(captured)
           j == L - d + 1
<1>1. s \in Seq(AllFunctions) /\ s # <<>> /\ event.cfunction = s[1] /\ event.left = d
      /\ event.state = "c"
  BY DEF Events, Found, Suffix
<1>2. d \in Nat /\ d >= 1 /\ L \in Nat
  BY <1>1
<1>3. d <= L /\ L <= StackDepth /\ \A k \in 1 .. L - d : captured[k] # s[1]
  BY <1>1, <1>2, CapacityAssumption DEF Found
<1>4. \A m \in Nat : m < d => s[d - m] = captured[L - m]
  BY <1>1 DEF Suffix
<1>5. a.frames = captured
  BY <1>1, <1>3, CapturedIs
<1> HIDE DEF s, d, L
<1>6. j \in 1 .. L
  BY <1>2, <1>3
<1>7. captured[j] = s[1]
  <2>1. d - 1 \in Nat /\ d - 1 < d /\ d - (d - 1) = 1 /\ L - (d - 1) = j
    BY <1>2
  <2> QED
    BY <1>4, <2>1
<1> HIDE DEF j
<1>8. Matches(a) = {k \in 1 .. L : captured[k] = s[1]}
  BY <1>1, <1>5 DEF Matches, L
<1>9. j \in Matches(a) /\ \A k \in Matches(a) : j <= k
  <2> SUFFICES ASSUME NEW k \in Matches(a), ~(j <= k) PROVE FALSE
    BY <1>6, <1>7, <1>8
  <2>1. k \in 1 .. L - d /\ captured[k] = s[1]
    BY <1>2, <1>3, <1>8 DEF j
  <2> QED
    BY <1>3, <2>1
<1>10. Min(Matches(a)) = j /\ Matches(a) # {}
  <2>1. \A k \in Matches(a) : k \in Nat
    BY <1>2, <1>8
  <2>2. j \in Nat
    BY <1>9, <2>1
  <2> DEFINE M == Matches(a)
             m == Min(M)
  <2>3. j \in M /\ (\A k \in M : k \in Nat) /\ \A k \in M : j <= k
    BY <1>9, <2>1
  <2> HIDE DEF M
  <2>4. m \in M /\ \A k \in M : m <= k
    BY <2>3 DEF Min
  <2> HIDE DEF m
  <2>5. m = j /\ M # {}
    BY <2>2, <2>3, <2>4
  <2> QED
    BY <2>5 DEF m, M
<1> DEFINE rest == SubSeq(captured, j + 1, L)
           shown == <<s[1]>> \o rest
<1>11. /\ rest \in Seq(AllFunctions) /\ Len(rest) = d - 1
       /\ \A k \in 1 .. d - 1 : rest[k] = s[k + 1]
  <2>1. L = Len(captured) /\ j \in Nat /\ j + 1 >= 1 /\ j <= L /\ L - j = d - 1
    BY <1>2, <1>6 DEF j, L
  <2>2. rest \in Seq(AllFunctions) /\ Len(rest) = d - 1
    BY <1>2, <2>1
  <2>3. \A k \in 1 .. d - 1 : rest[k] = captured[j + k]
    BY <1>2, <2>1, <2>2
  <2>4. ASSUME NEW k \in 1 .. d - 1 PROVE captured[j + k] = s[k + 1]
    <3>1. d - (k + 1) \in Nat /\ d - (k + 1) < d /\ d - (d - (k + 1)) = k + 1
          /\ L - (d - (k + 1)) = j + k
      BY <1>2 DEF j
    <3> QED
      BY <1>4, <3>1
  <2> QED
    BY <2>2, <2>3, <2>4
<1> HIDE DEF rest
<1>12. shown = s
  <2>1. s[1] \in AllFunctions /\ d = Len(s)
    BY <1>1, <1>2 DEF d
  <2>2. /\ shown \in Seq(AllFunctions) /\ Len(shown) = d
        /\ shown[1] = s[1] /\ \A k \in 2 .. d : shown[k] = rest[k - 1]
    BY <1>2, <1>11, <2>1
  <2>3. ASSUME NEW k \in 1 .. d PROVE shown[k] = s[k]
    <3>1. CASE k = 1
      BY <2>2, <3>1
    <3>2. CASE k # 1
      <4>1. k \in 2 .. d /\ k - 1 \in 1 .. d - 1 /\ (k - 1) + 1 = k
        BY <1>2, <3>2
      <4>2. shown[k] = rest[k - 1]
        BY <2>2, <4>1
      <4>3. rest[k - 1] = s[(k - 1) + 1]
        BY <1>11, <4>1
      <4> HIDE DEF shown, s
      <4> QED
        BY <4>1, <4>2, <4>3
    <3> QED
      BY <3>1, <3>2
  <2>4. shown \in Seq(AllFunctions) /\ s \in Seq(AllFunctions) /\ Len(shown) = Len(s)
        /\ \A k \in 1 .. Len(s) : shown[k] = s[k]
    BY <1>1, <2>1, <2>2, <2>3
  <2> HIDE DEF shown, s
  <2> QED
    BY <2>4
<1>13. ExportStack(a) = shown
  <2>1. Leaf(a) = <<s[1]>>
    BY <1>1 DEF Leaf
  <2>2. SubSeq(a.frames, j + 1, Len(a.frames)) = rest
    BY <1>5 DEF rest, L
  <2>3. shown # <<>>
    BY <1>1, <1>12
  <2> HIDE DEF shown
  <2>4. Leaf(a) \o SubSeq(a.frames, j + 1, Len(a.frames)) = shown
    BY <2>1, <2>2 DEF shown
  <2> QED
    BY <1>10, <2>3, <2>4 DEF ExportStack, Shown
<1> QED
  BY <1>1, <1>12, <1>13 DEF s

------------------------------------------------------------------------------
(* What a profile and the history of its events have in common.               *)

OfState(v, s) == {x \in DOMAIN v : x.state = s}
OfFunction(v, f) == {x \in DOMAIN v : x.state = "c" /\ x.cfunction = f}
OfStack(h, k) == {e \in DOMAIN h : e.stack = k}

StatesBooked(p) ==
    \A s \in VmStates : p.counted[s] = SumFunctionOnSet(p.weight, OfState(p.weight, s))
EventsBooked(p, h) ==
    SumFunction(p.counted) + p.aggregate_overflows = SumFunction(h)
FunctionsBooked(p, h) ==
    p.aggregate_overflows = 0 =>
        \A f \in CFunctions : SumFunctionOnSet(p.weight, OfFunction(p.weight, f))
                                = SumFunctionOnSet(h, OfFunction(h, f))
StacksBooked(p, h) ==
    p.aggregate_overflows = 0 /\ p.symbol_overflows = 0 =>
        \A k : k # <<>> =>
            ExportedWeight(p, k) >= SumFunctionOnSet(h, OfStack(h, k))

Booked(p, h) ==
    /\ p \in CpuProfiles /\ FiniteCount(p.weight) /\ FiniteCount(h)
    /\ StatesBooked(p) /\ EventsBooked(p, h) /\ FunctionsBooked(p, h) /\ StacksBooked(p, h)

LEMMA BagBump ==
    ASSUME NEW h, NEW e, FiniteCount(h)
    PROVE  h (+) SetToBag({e}) = Bump(h, e)
<1>1. DOMAIN SetToBag({e}) = {e} /\ SetToBag({e})[e] = 1
  BY DEF SetToBag
<1>2. \A x \in DOMAIN h : h[x] \in Nat
  BY DEF FiniteCount
<1> QED
  BY <1>1, <1>2 DEF (+), Bump, CountOf

LEMMA BumpOfState ==
    ASSUME NEW v, NEW a, FiniteCount(v), NEW s
    PROVE  SumFunctionOnSet(Bump(v, a), OfState(Bump(v, a), s))
                = SumFunctionOnSet(v, OfState(v, s)) + (IF a.state = s THEN 1 ELSE 0)
<1> DEFINE T == OfState(Bump(v, a), s)
           S == OfState(v, s)
<1>1. T \in SUBSET (DOMAIN v \cup {a}) /\ S = T \cap DOMAIN v /\ (a \in T <=> a.state = s)
  BY BumpCount DEF OfState
<1> HIDE DEF T, S
<1>2. SumFunctionOnSet(Bump(v, a), T) = SumFunctionOnSet(v, S) + (IF a \in T THEN 1 ELSE 0)
  BY <1>1, BumpSum
<1> QED
  BY <1>1, <1>2 DEF T, S

LEMMA BumpOfFunction ==
    ASSUME NEW v, NEW a, FiniteCount(v), NEW f
    PROVE  SumFunctionOnSet(Bump(v, a), OfFunction(Bump(v, a), f))
                = SumFunctionOnSet(v, OfFunction(v, f))
                    + (IF a.state = "c" /\ a.cfunction = f THEN 1 ELSE 0)
<1> DEFINE T == OfFunction(Bump(v, a), f)
           S == OfFunction(v, f)
<1>1. /\ T \in SUBSET (DOMAIN v \cup {a}) /\ S = T \cap DOMAIN v
      /\ a \in T <=> a.state = "c" /\ a.cfunction = f
  BY BumpCount DEF OfFunction
<1> HIDE DEF T, S
<1>2. SumFunctionOnSet(Bump(v, a), T) = SumFunctionOnSet(v, S) + (IF a \in T THEN 1 ELSE 0)
  BY <1>1, BumpSum
<1> QED
  BY <1>1, <1>2 DEF T, S

LEMMA BumpOfStack ==
    ASSUME NEW v, NEW a, FiniteCount(v), NEW k
    PROVE  /\ SumFunctionOnSet(Bump(v, a), OfStack(Bump(v, a), k))
                = SumFunctionOnSet(v, OfStack(v, k)) + (IF a.stack = k THEN 1 ELSE 0)
           /\ SumFunctionOnSet(v, OfStack(v, k)) \in Nat
<1> DEFINE T == OfStack(Bump(v, a), k)
           S == OfStack(v, k)
<1>1. T \in SUBSET (DOMAIN v \cup {a}) /\ S = T \cap DOMAIN v /\ (a \in T <=> a.stack = k)
  BY BumpCount DEF OfStack
<1> HIDE DEF T, S
<1>2. SumFunctionOnSet(Bump(v, a), T) = SumFunctionOnSet(v, S) + (IF a \in T THEN 1 ELSE 0)
  BY <1>1, BumpSum
<1>3. SumFunctionOnSet(v, S) \in Nat
  BY <1>1, CountSum
<1> QED
  BY <1>1, <1>2, <1>3 DEF T, S

LEMMA BumpExported ==
    ASSUME NEW p, NEW q, NEW a, FiniteCount(p.weight), q.weight = Bump(p.weight, a), NEW k
    PROVE  /\ ExportedWeight(q, k)
                = ExportedWeight(p, k) + (IF ExportStack(a) = k THEN 1 ELSE 0)
           /\ ExportedWeight(p, k) \in Nat
<1> DEFINE T == ExportedAs(q, k)
           S == ExportedAs(p, k)
           v == p.weight
<1>1. DOMAIN q.weight = DOMAIN v \cup {a}
  BY BumpCount
<1>2. /\ T \in SUBSET (DOMAIN v \cup {a}) /\ S = T \cap DOMAIN v
      /\ a \in T <=> ExportStack(a) = k
  BY <1>1 DEF ExportedAs
<1>3. FiniteCount(v) /\ q.weight = Bump(v, a)
  OBVIOUS
<1> HIDE DEF T, S, v
<1>4. SumFunctionOnSet(Bump(v, a), T) = SumFunctionOnSet(v, S) + (IF a \in T THEN 1 ELSE 0)
  BY <1>2, <1>3, BumpSum
<1>5. SumFunctionOnSet(v, S) \in Nat
  BY <1>2, <1>3, CountSum
<1> QED
  BY <1>2, <1>3, <1>4, <1>5 DEF ExportedWeight, T, S, v

LEMMA CountedSum ==
    ASSUME NEW p \in CpuProfiles
    PROVE  FiniteCount(p.counted) /\ DOMAIN p.counted = VmStates
<1>1. p.counted \in [VmStates -> Nat]
  BY DEF CpuProfiles
<1>2. IsFiniteSet(VmStates)
  <2>1. IsFiniteSet({}) /\ IsFiniteSet({} \cup {"host"})
    BY FS_EmptySet, FS_AddElement
  <2>2. IsFiniteSet(({} \cup {"host"}) \cup {"lua"})
    BY <2>1, FS_AddElement
  <2>3. IsFiniteSet((({} \cup {"host"}) \cup {"lua"}) \cup {"c"})
    BY <2>2, FS_AddElement
  <2>4. IsFiniteSet(((({} \cup {"host"}) \cup {"lua"}) \cup {"c"}) \cup {"gc"})
    BY <2>3, FS_AddElement
  <2>5. VmStates = ((({} \cup {"host"}) \cup {"lua"}) \cup {"c"}) \cup {"gc"}
    BY DEF VmStates
  <2> QED
    BY <2>4, <2>5
<1> QED
  BY <1>1, <1>2 DEF FiniteCount

\* An event is booked as a sample or as an overflow, and under the stack it had.
LEMMA EventBooked ==
    ASSUME NEW p, NEW h, Booked(p, h),
           NEW event \in Events, NEW captured \in Seq(AllFunctions),
           Found(event, captured) => Suffix(event, captured)
    PROVE  Booked(record_cpu_event(p, event, captured),
                  h (+) SetToBag({Noted(event, captured)}))
<1> DEFINE q == record_cpu_event(p, event, captured)
           note == Noted(event, captured)
           i == Bump(h, note)
<1>1. p \in CpuProfiles /\ FiniteCount(p.weight) /\ FiniteCount(h)
  BY DEF Booked
<1>2. h (+) SetToBag({note}) = i
  BY <1>1, BagBump
<1>3. PICK mid \in CpuProfiles, a \in Aggregates :
                /\ OnlySymbols(p, mid)
                /\ a.state = event.state /\ a.cfunction = event.cfunction
                /\ mid.symbol_overflows = 0 => a.frames = Captured(event, captured)
                /\ Recorded(p, q, mid, a)
  BY <1>1, RecordIs
<1>4. /\ note.state = event.state /\ note.cfunction = event.cfunction
      /\ note.stack = IF Found(event, captured) THEN event.stack ELSE <<>>
  BY DEF Noted
<1> HIDE DEF q, note
<1>5. FiniteCount(i)
  BY <1>1, BumpCount
<1>6. /\ p.aggregate_overflows \in Nat /\ p.symbol_overflows \in Nat
      /\ q.aggregate_overflows \in Nat /\ q.symbol_overflows \in Nat
      /\ q.symbol_overflows >= p.symbol_overflows
      /\ q.symbol_overflows = mid.symbol_overflows /\ q \in CpuProfiles
  BY <1>1, <1>3 DEF Recorded, OnlySymbols, CpuProfiles
<1>7. SumFunction(i) = SumFunction(h) + 1 /\ SumFunction(h) \in Nat
  BY <1>1, BumpAll
<1>8. CASE /\ q.weight = Bump(p.weight, a) /\ q.counted = Bump(p.counted, a.state)
           /\ q.aggregate_overflows = p.aggregate_overflows
  <2> DEFINE v == p.weight
             w == q.weight
  <2>1. FiniteCount(v) /\ w = Bump(v, a)
    BY <1>1, <1>8
  <2>2. FiniteCount(w)
    BY <2>1, BumpCount
  <2>3. StatesBooked(q)
    <3> SUFFICES ASSUME NEW s \in VmStates
                 PROVE  q.counted[s] = SumFunctionOnSet(w, OfState(w, s))
      BY DEF StatesBooked
    <3>1. SumFunctionOnSet(w, OfState(w, s))
            = SumFunctionOnSet(v, OfState(v, s)) + (IF a.state = s THEN 1 ELSE 0)
      BY <2>1, BumpOfState
    <3>2. p.counted[s] = SumFunctionOnSet(v, OfState(v, s)) /\ p.counted[s] \in Nat
      BY <1>1 DEF Booked, StatesBooked, CpuProfiles
    <3>3. q.counted[s] = p.counted[s] + (IF a.state = s THEN 1 ELSE 0)
      BY <1>1, <1>8, <3>2, CountedSum DEF Bump, CountOf
    <3> HIDE DEF v, w
    <3> QED
      BY <3>1, <3>2, <3>3
  <2>4. EventsBooked(q, i)
    <3>1. SumFunction(q.counted) = SumFunction(p.counted) + 1
          /\ SumFunction(p.counted) \in Nat
      BY <1>1, <1>8, CountedSum, BumpAll
    <3>2. SumFunction(p.counted) + p.aggregate_overflows = SumFunction(h)
      BY DEF Booked, EventsBooked
    <3> HIDE DEF i
    <3>3. SumFunction(q.counted) + q.aggregate_overflows = SumFunction(i)
      BY <1>6, <1>7, <1>8, <3>1, <3>2
    <3> QED
      BY <3>3 DEF EventsBooked
  <2>5. FunctionsBooked(q, i)
    <3> SUFFICES ASSUME q.aggregate_overflows = 0, NEW f \in CFunctions
                 PROVE  SumFunctionOnSet(w, OfFunction(w, f))
                            = SumFunctionOnSet(i, OfFunction(i, f))
      BY DEF FunctionsBooked
    <3>1. SumFunctionOnSet(w, OfFunction(w, f))
            = SumFunctionOnSet(v, OfFunction(v, f))
                + (IF a.state = "c" /\ a.cfunction = f THEN 1 ELSE 0)
      BY <2>1, BumpOfFunction
    <3>2. SumFunctionOnSet(i, OfFunction(i, f))
            = SumFunctionOnSet(h, OfFunction(h, f))
                + (IF note.state = "c" /\ note.cfunction = f THEN 1 ELSE 0)
      BY <1>1, BumpOfFunction
    <3>3. SumFunctionOnSet(v, OfFunction(v, f)) = SumFunctionOnSet(h, OfFunction(h, f))
      BY <1>8 DEF Booked, FunctionsBooked
    <3> HIDE DEF v, w, i
    <3> QED
      BY <1>3, <1>4, <3>1, <3>2, <3>3
  <2>6. StacksBooked(q, i)
    <3> SUFFICES ASSUME q.aggregate_overflows = 0, q.symbol_overflows = 0, NEW k, k # <<>>
                 PROVE  ExportedWeight(q, k) >= SumFunctionOnSet(i, OfStack(i, k))
      BY DEF StacksBooked
    <3>1. /\ ExportedWeight(q, k)
                = ExportedWeight(p, k) + (IF ExportStack(a) = k THEN 1 ELSE 0)
          /\ ExportedWeight(p, k) \in Nat
      BY <2>1, BumpExported
    <3>2. /\ SumFunctionOnSet(i, OfStack(i, k))
                = SumFunctionOnSet(h, OfStack(h, k)) + (IF note.stack = k THEN 1 ELSE 0)
          /\ SumFunctionOnSet(h, OfStack(h, k)) \in Nat
      BY <1>1, BumpOfStack
    <3>3. ExportedWeight(p, k) >= SumFunctionOnSet(h, OfStack(h, k))
      <4>1. p.aggregate_overflows = 0 /\ p.symbol_overflows = 0
        BY <1>6, <1>8
      <4> QED
        BY <4>1 DEF Booked, StacksBooked
    <3>4. note.stack = k => ExportStack(a) = k
      <4> SUFFICES ASSUME note.stack = k PROVE ExportStack(a) = k
        OBVIOUS
      <4>1. Found(event, captured) /\ event.stack = k
        BY <1>4
      <4>2. a.state = "c" /\ a.cfunction = event.cfunction
            /\ a.frames = Captured(event, captured)
        BY <1>3, <1>6, <4>1 DEF Found
      <4> QED
        BY <4>1, <4>2, FoundIsExported
    <3> HIDE DEF v, w, i
    <3> QED
      BY <3>1, <3>2, <3>3, <3>4
  <2> HIDE DEF i
  <2> QED
    BY <1>2, <1>5, <1>6, <2>2, <2>3, <2>4, <2>5, <2>6 DEF Booked, q, note
<1>9. CASE /\ q.weight = p.weight /\ q.counted = p.counted
           /\ q.aggregate_overflows = p.aggregate_overflows + 1
  <2>1. q.aggregate_overflows # 0
    BY <1>6, <1>9
  <2>2. FunctionsBooked(q, i) /\ StacksBooked(q, i)
    BY <2>1 DEF FunctionsBooked, StacksBooked
  <2>3. StatesBooked(q) /\ FiniteCount(q.weight)
    BY <1>1, <1>9 DEF Booked, StatesBooked
  <2>4. EventsBooked(q, i)
    <3>1. SumFunction(p.counted) + p.aggregate_overflows = SumFunction(h)
          /\ SumFunction(p.counted) \in Nat
      BY <1>1, CountedSum, BumpAll DEF Booked, EventsBooked
    <3> HIDE DEF i
    <3>2. SumFunction(q.counted) + q.aggregate_overflows = SumFunction(i)
      BY <1>6, <1>7, <1>9, <3>1
    <3> QED
      BY <3>2 DEF EventsBooked
  <2> HIDE DEF i
  <2> QED
    BY <1>2, <1>5, <1>6, <2>2, <2>3, <2>4 DEF Booked, q, note
<1> QED
  BY <1>3, <1>8, <1>9 DEF Recorded

------------------------------------------------------------------------------
(* drain_thread_timer.                                                        *)

DrainBody(p, h, captured, g, n) ==
    IF n = 0 THEN [profile |-> p, history |-> h]
    ELSE [profile |-> record_cpu_event(g[n - 1].profile, events[n], captured),
          history |-> g[n - 1].history (+) SetToBag({Noted(events[n], captured)})]
DrainSteps(p, h, captured) ==
    CHOOSE g : g = [n \in 0 .. Len(events) |-> DrainBody(p, h, captured, g, n)]

LEMMA DrainDef ==
    ASSUME NEW p, NEW h, NEW captured
    PROVE  Drained(p, h, captured) = DrainSteps(p, h, captured)[Len(events)]
BY DEF Drained, DrainSteps, DrainBody

LEMMA DrainStepsExist ==
    ASSUME NEW p, NEW h, NEW captured, Len(events) \in Nat
    PROVE  \E g : g = [n \in 0 .. Len(events) |-> DrainBody(p, h, captured, g, n)]
<1> DEFINE L == Len(events)
           Body(g, n) == DrainBody(p, h, captured, g, n)
           UpTo(m) == \E g : \A n \in 0 .. m : g[n] = Body(g, n)
           Good == {m \in Nat : UpTo(m)}
<1>1. UpTo(0)
  <2> DEFINE g == [n \in 0 .. 0 |-> [profile |-> p, history |-> h]]
  <2>1. \A n \in 0 .. 0 : n = 0
    OBVIOUS
  <2>2. \A n \in 0 .. 0 : g[n] = Body(g, n)
    BY <2>1 DEF DrainBody
  <2> HIDE DEF Body
  <2> QED
    BY <2>2
<1>s. ASSUME NEW g, NEW k, NEW n, n = 0 \/ g[n - 1] = k[n - 1] PROVE Body(g, n) = Body(k, n)
  BY <1>s DEF DrainBody
<1>2. ASSUME NEW m \in Nat, UpTo(m) PROVE UpTo(m + 1)
  <2>1. PICK g : \A n \in 0 .. m : g[n] = Body(g, n)
    BY <1>2
  <2> HIDE DEF Body
  <2> DEFINE k == [n \in 0 .. m + 1 |-> IF n <= m THEN g[n] ELSE Body(g, n)]
  <2>2. ASSUME NEW n \in 0 .. m + 1 PROVE k[n] = Body(k, n)
    <3>1. k[n] = Body(g, n)
      BY <2>1
    <3>2. n # 0 => k[n - 1] = g[n - 1]
      OBVIOUS
    <3> HIDE DEF k
    <3> QED
      BY <1>s, <3>1, <3>2
  <2> HIDE DEF k
  <2> QED
    BY <2>2
<1>3. UpTo(L)
  <2>1. 0 \in Good /\ \A m \in Nat : m \in Good => m + 1 \in Good
    <3> HIDE DEF UpTo
    <3> QED
      BY <1>1, <1>2
  <2> HIDE DEF Good, UpTo
  <2>2. L \in Good
    BY <2>1, FirstBad
  <2> QED
    BY <2>2 DEF Good
<1> HIDE DEF Body
<1>4. PICK g : \A n \in 0 .. L : g[n] = Body(g, n)
  BY <1>3
<1> DEFINE k == [n \in 0 .. L |-> g[n]]
<1>5. \A n \in 0 .. L : k[n] = Body(k, n)
  <2> TAKE n \in 0 .. L
  <2>1. k[n] = Body(g, n)
    BY <1>4
  <2>2. n # 0 => k[n - 1] = g[n - 1]
    OBVIOUS
  <2> HIDE DEF k
  <2> QED
    BY <1>s, <2>1, <2>2
<1>6. k = [n \in 0 .. L |-> k[n]]
  OBVIOUS
<1> HIDE DEF k
<1>7. k = [n \in 0 .. L |-> Body(k, n)]
  BY <1>5, <1>6
<1> QED
  BY <1>7 DEF Body

\* What waits is booked, all of it.
LEMMA DrainedIs ==
    ASSUME NEW p, NEW h, Booked(p, h), events \in Seq(Events),
           NEW captured \in Seq(AllFunctions),
           \A n \in 1 .. Len(events) :
                Found(events[n], captured) => Suffix(events[n], captured)
    PROVE  LET drained == Drained(p, h, captured)
           IN  /\ Booked(drained.profile, drained.history)
               /\ SumFunction(drained.history) = SumFunction(h) + Len(events)
<1> DEFINE g == DrainSteps(p, h, captured)
           L == Len(events)
<1>1. L \in Nat /\ \A n \in 1 .. L : events[n] \in Events
  OBVIOUS
<1>2. g = [n \in 0 .. L |-> DrainBody(p, h, captured, g, n)]
  BY <1>1, DrainStepsExist DEF DrainSteps
<1>3. Drained(p, h, captured) = g[L]
  BY DrainDef
<1> HIDE DEF g
<1>4. /\ g[0] = [profile |-> p, history |-> h]
      /\ \A n \in 1 .. L :
            g[n] = [profile |-> record_cpu_event(g[n - 1].profile, events[n], captured),
                    history |-> g[n - 1].history
                                    (+) SetToBag({Noted(events[n], captured)})]
  <2>1. \A n \in 0 .. L : g[n] = DrainBody(p, h, captured, g, n)
    BY <1>2
  <2>2. 0 \in 0 .. L /\ \A n \in 1 .. L : n \in 0 .. L /\ n # 0
    BY <1>1
  <2> QED
    BY <2>1, <2>2 DEF DrainBody
<1> DEFINE Done(n) == /\ Booked(g[n].profile, g[n].history)
                      /\ SumFunction(g[n].history) = SumFunction(h) + n
           Good == {n \in Nat : n <= L => Done(n)}
<1>5. SumFunction(h) \in Nat
  <2>1. FiniteCount(h)
    BY DEF Booked
  <2> QED
    BY <2>1, BumpAll
<1>6. 0 \in Good
  <2>1. g[0].profile = p /\ g[0].history = h
    BY <1>4
  <2>2. SumFunction(h) = SumFunction(h) + 0
    BY <1>5
  <2>3. Done(0)
    BY <2>1, <2>2
  <2> HIDE DEF Done
  <2> QED
    BY <2>3
<1>7. ASSUME NEW n \in Nat, n \in Good PROVE n + 1 \in Good
  <2> SUFFICES ASSUME n + 1 <= L PROVE Done(n + 1)
    OBVIOUS
  <2> DEFINE q == g[n].profile
             i == g[n].history
             event == events[n + 1]
             note == Noted(event, captured)
  <2>1. n + 1 \in 1 .. L /\ (n + 1) - 1 = n /\ n <= L
    BY <1>1
  <2>2. Booked(q, i) /\ SumFunction(i) = SumFunction(h) + n
    BY <1>7, <2>1
  <2>3. event \in Events /\ (Found(event, captured) => Suffix(event, captured))
    BY <1>1, <2>1
  <2> DEFINE r == record_cpu_event(q, event, captured)
             k == i (+) SetToBag({note})
  <2>a. g[n + 1] = [profile |-> r, history |-> k]
    BY <1>4, <2>1
  <2> HIDE DEF r, k
  <2>b. g[n + 1].profile = r /\ g[n + 1].history = k
    BY <2>a
  <2>4. /\ g[n + 1].profile = record_cpu_event(q, event, captured)
        /\ g[n + 1].history = i (+) SetToBag({note})
    BY <2>b DEF r, k
  <2> HIDE DEF q, i, event
  <2>5. Booked(g[n + 1].profile, g[n + 1].history)
    BY <2>2, <2>3, <2>4, EventBooked
  <2> HIDE DEF note
  <2>6. FiniteCount(i)
    BY <2>2 DEF Booked
  <2>7. SumFunction(i (+) SetToBag({note})) = SumFunction(i) + 1
    BY ZenonT(60), <2>6, BagBump, BumpAll
  <2>8. SumFunction(g[n + 1].history) = SumFunction(h) + (n + 1)
    BY <1>5, <2>2, <2>4, <2>7
  <2> QED
    BY <2>5, <2>8
<1>8. Done(L)
  <2>1. L \in Good
    <3> HIDE DEF Good
    <3> QED
      BY <1>1, <1>6, <1>7, FirstBad
  <2> HIDE DEF Done
  <2> QED
    BY <1>1, <2>1
<1> QED
  BY <1>3, <1>8

------------------------------------------------------------------------------
(* The inductive invariant of the data.                                       *)

KnownEvents(ev, stk) ==
    /\ stk \in Seq(AllFunctions) /\ ev \in Seq(Events)
    /\ \A n \in 1 .. Len(ev) : Suffix(ev[n], stk)

Kept(con, hea) ==
    /\ con = [g \in Generations |-> con[g]] /\ hea = [g \in Generations |-> hea[g]]
    /\ \A g \in Generations : Booked(con[g], hea[g])

Ticked(tic, hea, ev, gen) ==
    /\ tic \in [Generations -> Nat]
    /\ \A g \in Generations :
            tic[g] = SumFunction(hea[g]) + (IF gen = g THEN Len(ev) ELSE 0)

Waiting(ev, gen) == gen = NoGeneration => ev = <<>>

DataInv ==
    /\ KnownEvents(events, stack)
    /\ Kept(content, heard)
    /\ Ticked(ticked, heard, events, collecting["cpu"])
    /\ Waiting(events, collecting["cpu"])
    /\ next_generation <= made

LEMMA EmptySum ==
    /\ FiniteCount(EmptyBag) /\ SumFunction(EmptyBag) = 0 /\ DOMAIN EmptyBag = {}
<1>1. DOMAIN EmptyBag = {} /\ EmptyBag \in [{} -> Nat]
  BY DEF EmptyBag, SetToBag
<1> QED
  BY <1>1, FS_EmptySet, SumEmpty DEF FiniteCount, SumFunction

LEMMA NewBooked == Booked(NewCpuProfile, EmptyBag)
<1> DEFINE p == NewCpuProfile
           w == [a \in {} |-> 0]
           c == [s \in VmStates |-> 0]
<1>1. DOMAIN w = {} /\ w \in [DOMAIN w -> Nat] /\ FiniteCount(w)
  BY FS_EmptySet DEF FiniteCount
<1>2. w \in Weights
  BY <1>1, WeightsAre
<1>3. c \in [VmStates -> Nat] /\ \A s \in VmStates : c[s] = 0
  OBVIOUS
<1> HIDE DEF w, c
<1>4. /\ p \in CpuProfiles /\ p.weight = w /\ p.counted = c
      /\ p.aggregate_overflows = 0
  BY <1>2, <1>3 DEF NewCpuProfile, CpuProfiles, w, c
<1> HIDE DEF p
<1>5. StatesBooked(p)
  <2> SUFFICES ASSUME NEW s \in VmStates
               PROVE  p.counted[s] = SumFunctionOnSet(p.weight, OfState(p.weight, s))
    BY DEF StatesBooked
  <2>1. OfState(p.weight, s) = {}
    BY <1>1, <1>4 DEF OfState
  <2> QED
    BY <1>3, <1>4, <2>1, SumEmpty
<1>6. EventsBooked(p, EmptyBag)
  <2>1. SumFunction(c) = 0
    <3>1. IsFiniteSet(VmStates) /\ DOMAIN c = VmStates
      BY <1>3, <1>4, CountedSum DEF FiniteCount
    <3> DEFINE F == {S \in SUBSET VmStates : SumFunctionOnSet(c, S) # 0}
    <3>2. SUFFICES ASSUME VmStates \in F PROVE FALSE
      BY <3>1 DEF SumFunction
    <3>3. F # {} /\ \A S \in F : IsFiniteSet(S)
      BY <3>1, <3>2, FS_Subset
    <3>4. \E m \in F : \A k \in F : ~(k \subseteq m /\ k # m)
      <4> HIDE DEF F
      <4> QED
        BY <3>3, Minimal
    <3>5. PICK m \in F : \A k \in F : ~(k \subseteq m /\ k # m)
      BY <3>4
    <3>6. m # {} /\ m \in SUBSET VmStates /\ IsFiniteSet(m)
      BY <3>3, SumEmpty
    <3>7. PICK s \in m : TRUE
      BY <3>6
    <3>8. SumFunctionOnSet(c, m) = c[s] + SumFunctionOnSet(c, m \ {s})
      BY <1>3, <3>6, <3>7, SumRemove
    <3>9. SumFunctionOnSet(c, m \ {s}) = 0
      BY <3>5, <3>6, <3>7
    <3> QED
      BY <1>3, <3>5, <3>6, <3>7, <3>8, <3>9
  <2> QED
    BY <1>4, <2>1, EmptySum DEF EventsBooked
<1>7. FunctionsBooked(p, EmptyBag)
  <2> SUFFICES ASSUME NEW f \in CFunctions
               PROVE  SumFunctionOnSet(p.weight, OfFunction(p.weight, f))
                        = SumFunctionOnSet(EmptyBag, OfFunction(EmptyBag, f))
    BY DEF FunctionsBooked
  <2>1. OfFunction(p.weight, f) = {} /\ OfFunction(EmptyBag, f) = {}
    BY <1>1, <1>4, EmptySum DEF OfFunction
  <2> QED
    BY <2>1, SumEmpty
<1>8. StacksBooked(p, EmptyBag)
  <2> SUFFICES ASSUME NEW k
               PROVE  ExportedWeight(p, k) >= SumFunctionOnSet(EmptyBag, OfStack(EmptyBag, k))
    BY DEF StacksBooked
  <2>1. ExportedAs(p, k) = {} /\ OfStack(EmptyBag, k) = {}
    BY <1>1, <1>4, EmptySum DEF ExportedAs, OfStack
  <2> QED
    BY <2>1, SumEmpty DEF ExportedWeight
<1> QED
  BY <1>1, <1>4, <1>5, <1>6, <1>7, <1>8, EmptySum DEF Booked, p

LEMMA InitData == CpuInit => DataInv
<1> SUFFICES ASSUME CpuInit PROVE DataInv
  OBVIOUS
<1>1. stack = <<>> /\ events = <<>> /\ ticked = [g \in Generations |-> 0]
      /\ content = [g \in Generations |-> NewCpuProfile]
      /\ heard = [g \in Generations |-> EmptyBag]
      /\ next_generation = 0 /\ made = 0
  BY DEF CpuInit, OwnerInit
<1>2. KnownEvents(events, stack)
  <2>1. <<>> \in Seq(Events) /\ <<>> \in Seq(AllFunctions) /\ Len(<<>>) = 0
    OBVIOUS
  <2> QED
    BY <1>1, <2>1 DEF KnownEvents
<1>3. Kept(content, heard)
  BY <1>1, NewBooked DEF Kept
<1>4. Ticked(ticked, heard, events, collecting["cpu"])
  <2>1. \A g \in Generations : ticked[g] = 0 /\ heard[g] = EmptyBag
    BY <1>1
  <2>2. Len(events) = 0
    BY <1>1
  <2> QED
    BY <1>1, <2>1, <2>2, EmptySum DEF Ticked
<1> QED
  BY <1>1, <1>2, <1>3, <1>4 DEF DataInv, Waiting

------------------------------------------------------------------------------
(* Events and the stack that they were sampled on.                            *)

LEMMA SuffixPush ==
    ASSUME NEW event \in Events, NEW stk \in Seq(AllFunctions), Suffix(event, stk),
           NEW f \in AllFunctions
    PROVE  Suffix(event, <<f>> \o stk)
<1> DEFINE L == Len(stk)
           new == <<f>> \o stk
<1>1. L \in Nat /\ Len(new) = L + 1 /\ \A k \in 1 .. L : new[k + 1] = stk[k]
  OBVIOUS
<1>2. event.left \in Nat
  BY DEF Events
<1> HIDE DEF L, new
<1>3. ASSUME event.state = "c", NEW m \in Nat, m < event.left
      PROVE  event.stack[Len(event.stack) - m] = new[Len(new) - m]
  <2>1. event.left <= L /\ event.stack[Len(event.stack) - m] = stk[L - m]
    BY <1>3 DEF Suffix, L
  <2>2. L - m \in 1 .. L /\ Len(new) - m = (L - m) + 1
    BY <1>1, <1>2, <1>3, <2>1
  <2> QED
    BY <1>1, <2>1, <2>2
<1>4. event.state = "c" => event.left <= Len(new)
  BY <1>1, <1>2 DEF Suffix, L
<1> QED
  BY <1>3, <1>4 DEF Suffix, new

LEMMA KnownPush ==
    ASSUME NEW ev, NEW stk, KnownEvents(ev, stk), NEW f \in AllFunctions
    PROVE  KnownEvents(ev, <<f>> \o stk)
<1>1. stk \in Seq(AllFunctions) /\ ev \in Seq(Events)
  BY DEF KnownEvents
<1>2. <<f>> \o stk \in Seq(AllFunctions)
  BY <1>1
<1>3. \A n \in 1 .. Len(ev) : ev[n] \in Events /\ Suffix(ev[n], stk)
  BY <1>1 DEF KnownEvents
<1>4. \A n \in 1 .. Len(ev) : Suffix(ev[n], <<f>> \o stk)
  BY <1>1, <1>3, SuffixPush
<1> QED
  BY <1>1, <1>2, <1>4 DEF KnownEvents

\* What a function leaves behind when it returns is still a suffix.
LEMMA SuffixLeave ==
    ASSUME NEW event \in Events, NEW stk \in Seq(AllFunctions), Suffix(event, stk),
           NEW n \in 1 .. Len(stk), NEW rest, rest = SubSeq(stk, n + 1, Len(stk)),
           NEW later, later = [event EXCEPT !.left = Min({@, Len(rest)})]
    PROVE  later \in Events /\ Suffix(later, rest)
<1> DEFINE L == Len(stk)
           R == Len(rest)
           left == Min({event.left, R})
<1>n. L \in Nat /\ n \in Nat /\ n <= L /\ 1 <= n + 1 /\ L - n \in Nat
  OBVIOUS
<1>1. /\ R = L - n /\ R \in Nat
      /\ \A k \in 1 .. R : rest[k] = stk[n + k]
  <2>1. rest \in Seq(AllFunctions) /\ R = L - n
    BY <1>n
  <2>2. ASSUME NEW k \in 1 .. R PROVE rest[k] = stk[n + k]
    <3>1. SubSeq(stk, n + 1, L)[k] = stk[n + k]
      <4> HIDE DEF R
      <4>1. k \in 1 .. L - n
        BY <2>1
      <4> QED
        BY <1>n, <4>1
    <3> QED
      BY <3>1
  <2> QED
    BY <1>n, <2>1, <2>2
<1>2. event.left \in Nat
  BY DEF Events
<1>3. left \in Nat /\ left <= R /\ left <= event.left
  <2>1. left = IF event.left <= R THEN event.left ELSE R
    BY <1>1, <1>2, MinTwo
  <2> HIDE DEF left, R
  <2> QED
    BY <1>1, <1>2, <2>1
<1>4. later = [event EXCEPT !.left = left]
  OBVIOUS
<1> HIDE DEF left
<1>5. /\ later \in Events /\ later.state = event.state /\ later.cfunction = event.cfunction
      /\ later.stack = event.stack /\ later.left = left
  BY <1>3, <1>4 DEF Events
<1>6. event.stack \in Seq(AllFunctions)
  BY DEF Events
<1>7. ASSUME event.state = "c"
      PROVE  /\ event.stack # <<>> /\ event.cfunction = event.stack[1]
             /\ left <= Len(event.stack)
  BY <1>2, <1>3, <1>6, <1>7 DEF Suffix
<1> HIDE DEF R, L
<1>8. ASSUME event.state = "c", NEW m \in Nat, m < left
      PROVE  event.stack[Len(event.stack) - m] = rest[R - m]
  <2>1. event.stack[Len(event.stack) - m] = stk[L - m]
    BY <1>2, <1>3, <1>8 DEF Suffix, L
  <2>2. R - m \in 1 .. R
    BY <1>1, <1>3, <1>8
  <2>3. n + (R - m) = L - m
    BY <1>1, <1>n
  <2> QED
    BY <1>1, <2>1, <2>2, <2>3
<1> QED
  BY <1>3, <1>5, <1>7, <1>8 DEF Suffix, R

\* A tick samples the function that runs.
LEMMA TickKnown ==
    ASSUME KnownEvents(events, stack), NEW vmState \in VmStates, vmState = "c" => RunsC
    PROVE  Event(vmState) \in Events /\ Suffix(Event(vmState), stack)
<1>1. stack \in Seq(AllFunctions) /\ Len(stack) \in Nat /\ <<>> \in Seq(AllFunctions)
  BY DEF KnownEvents
<1>2. CASE vmState = "c"
  <2>1. stack # <<>> /\ Head(stack) \in CFunctions /\ Head(stack) = stack[1]
    BY <1>1, <1>2 DEF RunsC, Innermost
  <2> DEFINE e == [state |-> "c", cfunction |-> Head(stack), stack |-> stack,
                   left |-> Len(stack)]
  <2>2. Event(vmState) = e
    BY <1>2 DEF Event
  <2>3. e \in Events
    BY <1>1, <2>1 DEF Events, VmStates
  <2>4. Suffix(e, stack)
    BY <1>1, <2>1 DEF Suffix
  <2> HIDE DEF e
  <2> QED
    BY <2>2, <2>3, <2>4
<1>3. CASE vmState # "c"
  <2> DEFINE e == [state |-> vmState, cfunction |-> NoFunction, stack |-> <<>>, left |-> 0]
  <2>1. Event(vmState) = e
    BY <1>3 DEF Event
  <2>2. e \in Events /\ e.state # "c"
    BY <1>1, <1>3 DEF Events
  <2> HIDE DEF e
  <2> QED
    BY <2>1, <2>2 DEF Suffix
<1> QED
  BY <1>2, <1>3

\* No event can be found on the empty stack; others must be known there.
LEMMA FoundKnown ==
    ASSUME NEW captured, KnownEvents(events, captured) \/ captured = <<>>,
           KnownEvents(events, stack)
    PROVE  /\ captured \in Seq(AllFunctions)
           /\ \A n \in 1 .. Len(events) :
                Found(events[n], captured) => Suffix(events[n], captured)
<1>1. captured \in Seq(AllFunctions)
  <2>1. <<>> \in Seq(AllFunctions)
    OBVIOUS
  <2> QED
    BY <2>1 DEF KnownEvents
<1>2. ASSUME captured = <<>>, NEW n \in 1 .. Len(events), Found(events[n], captured)
      PROVE  FALSE
  <2> DEFINE e == events[n]
  <2>1. e \in Events /\ Suffix(e, stack)
    BY DEF KnownEvents
  <2> HIDE DEF e
  <2>2. e.stack \in Seq(AllFunctions) /\ e.stack # <<>>
    BY <1>2, <2>1 DEF Events, Suffix, Found, e
  <2>3. Len(e.stack) \in Nat /\ Len(e.stack) # 0
    BY <2>2
  <2>4. Len(captured) = 0 /\ Len(captured) \in Len(e.stack) .. StackDepth
    BY <1>2 DEF Found, e
  <2> QED
    BY <2>3, <2>4, CapacityAssumption
<1> QED
  BY <1>1, <1>2 DEF KnownEvents

------------------------------------------------------------------------------
(* The steps.                                                                 *)

LEMMA NumberedStep ==
    ASSUME OwnerInv, [OwnerNext]_ownerVars, next_generation <= made
    PROVE  next_generation' <= made'
<1>1. next_generation \in Nat /\ made \in Nat
  BY RecordingsAssumption DEF OwnerInv, OwnerTypeOK
<1>2. ASSUME NEW k \in Kinds, Start(k) \/ StartBusy(k) \/ StartFails(k)
      PROVE  next_generation' <= made'
  BY <1>1, <1>2 DEF Start, StartBusy, StartFails, Create, runtime
<1>3. ASSUME NEW i \in Recordings,
             Stop(i) \/ Close(i) \/ FinalizeRecorder(i) \/ FinalizeResult(i)
      PROVE  next_generation' = next_generation /\ made' = made
  BY <1>3 DEF Stop, Close, FinalizeRecorder, FinalizeResult
<1>4. ASSUME NEW t \in Things, NEW i \in Recordings, Forget(t, i)
      PROVE  next_generation' = next_generation /\ made' = made
  BY <1>4 DEF Forget, runtime
<1>5. CASE Collect \/ LuaClose \/ DeleteRuntime
  BY <1>5 DEF Collect, LuaClose, DeleteRuntime, runtime, objects
<1>6. CASE UNCHANGED ownerVars
  BY <1>6 DEF ownerVars, runtime, objects
<1> QED
  BY <1>2, <1>3, <1>4, <1>5, <1>6 DEF OwnerNext

\* What is collected is in the slot, and its profile exists.
LEMMA CollectedIs ==
    ASSUME OwnerInv, collecting["cpu"] # NoGeneration
    PROVE  collecting["cpu"] = Current /\ Current \in profiles /\ Current \in Nat
           /\ (next_generation <= made => Current \in Generations)
<1>1. "cpu" \in Kinds
  BY DEF Kinds
<1>2. PICK i \in Recordings : recorder[i].active /\ recorder[i].kind = "cpu"
  BY <1>1 DEF OwnerInv, ActiveIsCollected
<1>3. /\ collecting["cpu"] = recorder[i].generation /\ slot["cpu"].active
      /\ slot["cpu"].generation = recorder[i].generation
  BY <1>2 DEF OwnerInv, ActiveIsCollected, Stoppable
<1>4. slot["cpu"].profile = Current /\ Current # NoProfile
  BY <1>1, <1>3 DEF OwnerInv, SlotShape, EmptySlot, Current, NoGeneration, NoProfile
<1>5. Current \in profiles
  BY <1>1, <1>4 DEF OwnerInv, OneOwner
<1>6. Current \in Nat /\ Current # 0 /\ Current <= next_generation
      /\ next_generation \in Nat /\ made \in Nat /\ made <= MaxRecordings
  <2>1. Current \in Nat /\ next_generation \in Nat /\ made \in 0 .. MaxRecordings
    BY <1>5 DEF OwnerInv, OwnerTypeOK
  <2> QED
    BY <1>4, <1>5, <2>1, RecordingsAssumption DEF OwnerInv, Fresh, NoProfile
<1>7. next_generation <= made => Current \in Generations
  BY <1>6, RecordingsAssumption DEF Generations
<1> QED
  BY <1>3, <1>5, <1>6, <1>7 DEF Current

\* Where the data does not change, a recording may only begin or end with no event.
LEMMA SameData ==
    ASSUME OwnerInv, DataInv, UNCHANGED data, KnownEvents(events, stack'),
           collecting'["cpu"] = collecting["cpu"] \/ events = <<>>,
           next_generation' <= made'
    PROVE  DataInv'
<1>1. events' = events /\ content' = content /\ heard' = heard /\ ticked' = ticked
  BY DEF data
<1>2. Kept(content', heard') /\ KnownEvents(events', stack')
  BY <1>1 DEF DataInv
<1>3. Ticked(ticked', heard', events', collecting'["cpu"])
  <2>1. CASE collecting'["cpu"] = collecting["cpu"]
    BY <1>1, <2>1 DEF DataInv
  <2>2. CASE events = <<>>
    <3>1. Len(events) = 0
      BY <2>2
    <3> QED
      BY <1>1, <3>1 DEF DataInv, Ticked
  <2> QED
    BY <2>1, <2>2
<1>4. Waiting(events', collecting'["cpu"])
  BY <1>1 DEF DataInv, Waiting
<1> QED
  BY <1>2, <1>3, <1>4 DEF DataInv

\* A drained event is in the profile of the recording it fell into.
LEMMA DrainKeeps ==
    ASSUME OwnerInv, DataInv, NEW captured, Drain(captured),
           KnownEvents(events, captured) \/ captured = <<>>
    PROVE  /\ events' = <<>> /\ Kept(content', heard')
           /\ \A gen : Ticked(ticked', heard', events', gen)
<1>1. KnownEvents(events, stack) /\ Kept(content, heard)
      /\ Ticked(ticked, heard, events, collecting["cpu"])
      /\ Waiting(events, collecting["cpu"]) /\ next_generation <= made
  BY DEF DataInv
<1>2. CASE events = <<>>
  <2>1. events' = events /\ content' = content /\ heard' = heard /\ ticked' = ticked
    BY <1>2 DEF Drain, data
  <2>2. Len(events) = 0
    BY <1>2
  <2>3. \A gen : Ticked(ticked', heard', events', gen)
    BY <1>1, <2>1, <2>2 DEF Ticked
  <2> QED
    BY <1>1, <1>2, <2>1, <2>3
<1>3. CASE events # <<>>
  <2> DEFINE c == Current
             drained == Drained(content[c], heard[c], captured)
             p == drained.profile
             h == drained.history
  <2>1. collecting["cpu"] = c /\ c \in Generations
    BY <1>1, <1>3, CollectedIs DEF Waiting
  <2>2. /\ content' = [content EXCEPT ![c] = p] /\ heard' = [heard EXCEPT ![c] = h]
        /\ events' = <<>> /\ ticked' = ticked
    BY <1>3 DEF Drain
  <2>3. Booked(content[c], heard[c])
    BY <1>1, <2>1 DEF Kept
  <2>4. events \in Seq(Events) /\ captured \in Seq(AllFunctions)
        /\ \A n \in 1 .. Len(events) :
                Found(events[n], captured) => Suffix(events[n], captured)
    BY <1>1, FoundKnown DEF KnownEvents
  <2>5. Booked(p, h) /\ SumFunction(h) = SumFunction(heard[c]) + Len(events)
    BY <2>3, <2>4, DrainedIs
  <2> HIDE DEF p, h, c
  <2>6. /\ content' = [g \in Generations |-> content'[g]]
        /\ heard' = [g \in Generations |-> heard'[g]]
        /\ content'[c] = p /\ heard'[c] = h
        /\ \A g \in Generations : g # c => content'[g] = content[g] /\ heard'[g] = heard[g]
    BY <1>1, <2>1, <2>2 DEF Kept
  <2>7. Kept(content', heard')
    BY <1>1, <2>5, <2>6 DEF Kept
  <2>8. ASSUME NEW gen PROVE Ticked(ticked', heard', events', gen)
    <3>1. Len(events') = 0 /\ Len(events) \in Nat
      BY <2>2, <2>4
    <3>2. ASSUME NEW g \in Generations PROVE ticked'[g] = SumFunction(heard'[g])
                                             /\ ticked'[g] \in Nat
      <4>1. ticked[g] = SumFunction(heard[g]) + (IF c = g THEN Len(events) ELSE 0)
            /\ ticked[g] \in Nat
        BY <1>1, <2>1 DEF Ticked
      <4>2. SumFunction(heard[g]) \in Nat
        <5>1. FiniteCount(heard[g])
          BY <1>1 DEF Kept, Booked
        <5> QED
          BY <5>1, BumpAll
      <4> QED
        BY <2>2, <2>5, <2>6, <3>1, <4>1, <4>2
    <3>3. ticked' \in [Generations -> Nat]
      BY <1>1, <2>2 DEF Ticked
    <3> QED
      BY <3>1, <3>2, <3>3 DEF Ticked
  <2> QED
    BY <2>2, <2>7, <2>8
<1> QED
  BY <1>2, <1>3

LEMMA NoneKnown ==
    ASSUME NEW stk \in Seq(AllFunctions)
    PROVE  KnownEvents(<<>>, stk)
<1>1. <<>> \in Seq(Events) /\ Len(<<>>) = 0
  OBVIOUS
<1> QED
  BY <1>1 DEF KnownEvents

\* A profile is deleted either together with the events that wait for it, or it is not
\* the one they wait for.
LEMMA EraseKeeps ==
    ASSUME OwnerInv, DataInv, Erase, stack' = stack, next_generation' <= made',
           \/ /\ events' = events /\ collecting'["cpu"] = collecting["cpu"]
              /\ collecting["cpu"] # NoGeneration => ~Forgotten(collecting["cpu"])
           \/ /\ events' = <<>>
              /\ collecting["cpu"] # NoGeneration => Forgotten(collecting["cpu"])
    PROVE  DataInv'
<1>1. KnownEvents(events, stack) /\ Kept(content, heard)
      /\ Ticked(ticked, heard, events, collecting["cpu"])
      /\ Waiting(events, collecting["cpu"])
  BY DEF DataInv
<1>2. /\ content' = [g \in Generations |-> content'[g]]
      /\ heard' = [g \in Generations |-> heard'[g]]
      /\ \A g \in Generations :
            IF Forgotten(g)
            THEN content'[g] = NewCpuProfile /\ heard'[g] = EmptyBag /\ ticked'[g] = 0
            ELSE content'[g] = content[g] /\ heard'[g] = heard[g] /\ ticked'[g] = ticked[g]
  BY DEF Erase
<1>3. Kept(content', heard')
  BY <1>1, <1>2, NewBooked DEF Kept
<1>4. Ticked(ticked', heard', events', collecting'["cpu"])
  <2>1. ticked' \in [Generations -> Nat]
    BY <1>1 DEF Erase, Ticked
  <2>2. ASSUME NEW g \in Generations
        PROVE  ticked'[g] = SumFunction(heard'[g])
                    + (IF collecting'["cpu"] = g THEN Len(events') ELSE 0)
    <3>1. ticked[g] = SumFunction(heard[g]) + (IF collecting["cpu"] = g THEN Len(events) ELSE 0)
      BY <1>1 DEF Ticked
    <3>2. g # NoGeneration
      BY DEF Generations, NoGeneration
    <3>3. Len(<<>>) = 0
      OBVIOUS
    <3>4. CASE Forgotten(g)
      <4>1. collecting'["cpu"] = g => events' = <<>>
        BY <3>2, <3>4
      <4> QED
        BY <1>2, <3>3, <3>4, <4>1, EmptySum
    <3>5. CASE ~Forgotten(g)
      <4>1. \/ events' = events /\ collecting'["cpu"] = collecting["cpu"]
            \/ events' = <<>> /\ collecting["cpu"] # g
        BY <3>2, <3>5
      <4> QED
        BY <1>2, <3>1, <3>3, <3>5, <4>1
    <3> QED
      BY <3>4, <3>5
  <2> QED
    BY <2>1, <2>2 DEF Ticked
<1>5. KnownEvents(events', stack')
  BY <1>1, NoneKnown DEF KnownEvents
<1>6. Waiting(events', collecting'["cpu"])
  BY <1>1 DEF Waiting
<1> QED
  BY <1>3, <1>4, <1>5, <1>6 DEF DataInv

LEMMA TickData ==
    ASSUME OwnerInv, DataInv, Tick
    PROVE  DataInv'
<1>1. KnownEvents(events, stack) /\ Kept(content, heard)
      /\ Ticked(ticked, heard, events, collecting["cpu"]) /\ next_generation <= made
  BY DEF DataInv
<1>2. collecting["cpu"] = Current /\ Current \in Generations
  BY <1>1, CollectedIs DEF Tick
<1>3. /\ content' = content /\ heard' = heard /\ stack' = stack
      /\ next_generation' = next_generation /\ made' = made /\ collecting' = collecting
      /\ ticked' = [ticked EXCEPT ![Current] = @ + 1]
  BY DEF Tick, execution, ownerVars, runtime, objects
<1>4. PICK vmState \in {"gc", IF RunsLua THEN "lua" ELSE IF RunsC THEN "c" ELSE "host"} :
            events' = Append(events, Event(vmState))
  BY DEF Tick
<1>5. vmState \in VmStates /\ (vmState = "c" => RunsC)
  BY DEF VmStates
<1> DEFINE e == Event(vmState)
<1>6. e \in Events /\ Suffix(e, stack)
  BY <1>1, <1>5, TickKnown
<1> HIDE DEF e
<1>7. events \in Seq(Events) /\ Len(events) \in Nat /\ events' = Append(events, e)
  BY <1>1, <1>4 DEF KnownEvents, e
<1>8. events' \in Seq(Events) /\ Len(events') = Len(events) + 1 /\ events' # <<>>
      /\ events'[Len(events) + 1] = e
      /\ \A n \in 1 .. Len(events) : events'[n] = events[n]
  BY <1>6, <1>7
<1>9. KnownEvents(events', stack')
  <2>1. ASSUME NEW n \in 1 .. Len(events') PROVE Suffix(events'[n], stack)
    <3>1. CASE n = Len(events) + 1
      BY <1>6, <1>8, <3>1
    <3>2. CASE n # Len(events) + 1
      <4>1. n \in 1 .. Len(events)
        BY <1>7, <1>8, <3>2
      <4> QED
        BY <1>1, <1>8, <4>1 DEF KnownEvents
    <3> QED
      BY <3>1, <3>2
  <2> QED
    BY <1>1, <1>3, <1>8, <2>1 DEF KnownEvents
<1>10. Kept(content', heard')
  BY <1>1, <1>3
<1>11. Ticked(ticked', heard', events', collecting'["cpu"])
  <2>1. ticked \in [Generations -> Nat]
    BY <1>1 DEF Ticked
  <2>2. ticked' \in [Generations -> Nat]
    BY <1>2, <1>3, <2>1
  <2> DEFINE c == collecting["cpu"]
  <2>3. ASSUME NEW g \in Generations
        PROVE  ticked'[g] = SumFunction(heard[g]) + (IF c = g THEN Len(events') ELSE 0)
    <3>1. ticked[g] = SumFunction(heard[g]) + (IF c = g THEN Len(events) ELSE 0)
      BY <1>1 DEF Ticked
    <3>2. ticked'[g] = IF c = g THEN ticked[g] + 1 ELSE ticked[g]
      BY <1>2, <1>3, <2>1
    <3>3. SumFunction(heard[g]) \in Nat
      <4>1. FiniteCount(heard[g])
        BY <1>1 DEF Kept, Booked
      <4> QED
        BY <4>1, BumpAll
    <3> DEFINE s == SumFunction(heard[g])
               d == Len(events)
               later == Len(events')
               t == ticked[g]
    <3>4. s \in Nat /\ d \in Nat /\ later = d + 1
      BY <1>7, <1>8, <3>3
    <3>5. t = s + (IF c = g THEN d ELSE 0) /\ ticked'[g] = IF c = g THEN t + 1 ELSE t
      BY <3>1, <3>2
    <3> HIDE DEF c, s, d, later, t
    <3>6. ticked'[g] = s + (IF c = g THEN later ELSE 0)
      BY <3>4, <3>5
    <3> QED
      BY <3>6 DEF s, later
  <2> QED
    BY <1>3, <2>2, <2>3 DEF Ticked
<1>12. Waiting(events', collecting'["cpu"])
  BY <1>3 DEF Tick, Waiting
<1> QED
  BY <1>1, <1>3, <1>9, <1>10, <1>11, <1>12 DEF DataInv

LEMMA LeaveData ==
    ASSUME OwnerInv, DataInv, NEW n \in 1 .. MaxDepth, Leave(n)
    PROVE  DataInv'
<1> DEFINE rest == SubSeq(stack, n + 1, Len(stack))
           later(k) == [events[k] EXCEPT !.left = Min({@, Len(rest)})]
<1>1. KnownEvents(events, stack) /\ Kept(content, heard)
      /\ Ticked(ticked, heard, events, collecting["cpu"])
      /\ Waiting(events, collecting["cpu"]) /\ next_generation <= made
  BY DEF DataInv
<1>2. /\ n \in 1 .. Len(stack) /\ stack' = rest
      /\ next_generation' = next_generation /\ made' = made /\ collecting' = collecting
  BY DEF Leave, ownerVars, runtime, objects
<1>3. stack \in Seq(AllFunctions) /\ rest \in Seq(AllFunctions)
  <2>1. stack \in Seq(AllFunctions)
    BY <1>1 DEF KnownEvents
  <2>2. Len(stack) \in Nat /\ n + 1 \in Nat /\ n + 1 >= 1 /\ n <= Len(stack)
    BY <1>2, <2>1
  <2> QED
    BY <2>1, <2>2
<1>4. CASE /\ events' = [i \in DOMAIN events |-> later(i)]
           /\ UNCHANGED <<content, heard, ticked>>
  <2>1. events \in Seq(Events) /\ DOMAIN events = 1 .. Len(events) /\ Len(events) \in Nat
    BY <1>1 DEF KnownEvents
  <2>2. ASSUME NEW k \in 1 .. Len(events)
        PROVE  later(k) \in Events /\ Suffix(later(k), rest)
    <3>1. events[k] \in Events /\ Suffix(events[k], stack)
      BY <1>1, <2>1 DEF KnownEvents
    <3> HIDE DEF rest
    <3> QED
      BY <1>2, <1>3, <3>1, SuffixLeave DEF rest
  <2> HIDE DEF later, rest
  <2>3. events' \in Seq(Events) /\ Len(events') = Len(events)
        /\ \A k \in 1 .. Len(events) : events'[k] = later(k)
    BY <1>4, <2>1, <2>2
  <2>4. KnownEvents(events', stack')
    BY <1>2, <1>3, <2>2, <2>3 DEF KnownEvents
  <2>5. Ticked(ticked', heard', events', collecting'["cpu"])
    BY <1>1, <1>2, <1>4, <2>3 DEF Ticked
  <2>6. Waiting(events', collecting'["cpu"])
    <3>1. events = <<>> => events' = <<>>
      BY <2>1, <2>3
    <3> QED
      BY <1>1, <1>2, <3>1 DEF Waiting
  <2> QED
    BY <1>1, <1>2, <1>4, <2>4, <2>5, <2>6 DEF DataInv
<1>5. CASE Drain(<<>>)
  <2>1. events' = <<>> /\ Kept(content', heard')
        /\ Ticked(ticked', heard', events', collecting'["cpu"])
    BY <1>5, DrainKeeps
  <2>2. KnownEvents(events', stack')
    BY <1>2, <1>3, <2>1, NoneKnown
  <2> QED
    BY <1>1, <1>2, <2>1, <2>2 DEF DataInv, Waiting
<1> QED
  BY <1>4, <1>5 DEF Leave

LEMMA StartData ==
    ASSUME OwnerInv, DataInv, next_generation' <= made', NEW k \in Kinds, ApiStart(k)
    PROVE  DataInv'
<1>1. UNCHANGED data /\ stack' = stack /\ (Start(k) \/ StartBusy(k) \/ StartFails(k))
  BY DEF ApiStart
<1>2. KnownEvents(events, stack')
  BY <1>1 DEF DataInv
<1>3. collecting'["cpu"] = collecting["cpu"] \/ events = <<>>
  <2>1. CASE StartBusy(k) \/ StartFails(k)
    BY <2>1 DEF StartBusy, StartFails, runtime
  <2>2. CASE Start(k) /\ k # "cpu"
    BY <2>2 DEF Start, OwnerInv, OwnerTypeOK, Kinds
  <2>3. CASE Start(k) /\ k = "cpu"
    <3>1. collecting["cpu"] = NoGeneration
      BY <2>3 DEF Start, OwnerInv, SlotShape, EmptySlot
    <3> QED
      BY <3>1 DEF DataInv, Waiting
  <2> QED
    BY <1>1, <2>1, <2>2, <2>3
<1> QED
  BY <1>1, <1>2, <1>3, SameData

LEMMA ApiKnown ==
    ASSUME DataInv
    PROVE  KnownEvents(events, ApiStack)
<1>1. Api \in AllFunctions
  BY ApiAssumption DEF AllFunctions
<1> QED
  BY <1>1, KnownPush DEF DataInv, ApiStack

\* A recorder that can be stopped and is of the kind collects what the slot holds.
LEMMA EndIs ==
    ASSUME OwnerInv, NEW i \in Recordings, Stoppable(i), EndCollector(i)
    PROVE  /\ recorder[i].kind = "cpu" =>
                collecting'["cpu"] = NoGeneration /\ collecting["cpu"] = recorder[i].generation
           /\ recorder[i].kind # "cpu" => collecting'["cpu"] = collecting["cpu"]
<1>1. recorder[i].kind \in Kinds /\ collecting \in [Kinds -> Nat] /\ "cpu" \in Kinds
  BY DEF OwnerInv, OwnerTypeOK, Kinds
<1>2. collecting[recorder[i].kind] = recorder[i].generation
  BY DEF OwnerInv, ActiveIsCollected, Stoppable
<1>3. collecting' = [collecting EXCEPT ![recorder[i].kind] = NoGeneration]
  BY <1>2 DEF EndCollector
<1> QED
  BY <1>1, <1>2, <1>3

LEMMA StopData ==
    ASSUME OwnerInv, DataInv, next_generation' <= made', NEW i \in Recordings, ApiStop(i)
    PROVE  DataInv'
<1>1. Stop(i) /\ Flush(i) /\ stack' = stack
  BY DEF ApiStop
<1>2. Stoppable(i) /\ EndCollector(i)
  BY <1>1 DEF Stop
<1>3. KnownEvents(events, stack)
  BY DEF DataInv
<1>4. CASE recorder[i].kind = "cpu"
  <2>1. Drain(ApiStack)
    BY <1>1, <1>2, <1>4 DEF Flush
  <2>2. events' = <<>> /\ Kept(content', heard')
        /\ Ticked(ticked', heard', events', collecting'["cpu"])
    BY <2>1, ApiKnown, DrainKeeps
  <2>3. KnownEvents(events', stack')
    BY <1>1, <1>3, <2>2, NoneKnown DEF KnownEvents
  <2> QED
    BY <2>2, <2>3 DEF DataInv, Waiting
<1>5. CASE recorder[i].kind # "cpu"
  <2>1. UNCHANGED data
    BY <1>1, <1>5 DEF Flush
  <2>2. collecting'["cpu"] = collecting["cpu"]
    BY <1>2, <1>5, EndIs
  <2> QED
    BY <1>1, <1>3, <2>1, <2>2, SameData
<1> QED
  BY <1>4, <1>5

\* The profile that waits for events is in the slot of its kind and nowhere else.
LEMMA DiscardData ==
    ASSUME OwnerInv, DataInv, next_generation' <= made', NEW i \in Recordings, ApiDiscard(i)
    PROVE  DataInv'
<1>1. /\ Discard(i) /\ Erase /\ stack' = stack
      /\ events' = IF recorder[i].kind = "cpu" /\ Stoppable(i) THEN <<>> ELSE events
  BY DEF ApiDiscard, Close, FinalizeRecorder, execution
<1> DEFINE c == collecting["cpu"]
<1>2. c # NoGeneration => c = Current /\ c \in profiles
  BY CollectedIs
<1>3. recorder[i].kind \in Kinds /\ "cpu" \in Kinds
  BY DEF OwnerInv, OwnerTypeOK, Kinds
<1>4. c # NoGeneration => slot["cpu"].profile = c /\ c # NoProfile
  <2> SUFFICES ASSUME c # NoGeneration PROVE slot["cpu"].profile = c /\ c # NoProfile
    OBVIOUS
  <2>1. c = slot["cpu"].generation
    BY <1>2 DEF Current
  <2> QED
    BY <1>3, <2>1 DEF OwnerInv, SlotShape, EmptySlot, NoGeneration, NoProfile
<1>5. CASE ~Stoppable(i)
  <2>1. profiles' = profiles /\ collecting' = collecting /\ events' = events
    BY <1>1, <1>5 DEF Discard
  <2>2. c # NoGeneration => ~Forgotten(c)
    BY <2>1 DEF Forgotten
  <2> QED
    BY <1>1, <2>1, <2>2, EraseKeeps
<1>6. CASE Stoppable(i) /\ recorder[i].kind = "cpu"
  <2>1. profiles' = profiles \ {slot["cpu"].profile} /\ events' = <<>>
    BY <1>1, <1>6 DEF Discard
  <2>2. c # NoGeneration => Forgotten(c)
    BY <1>2, <1>4, <2>1 DEF Forgotten
  <2> QED
    BY <1>1, <2>1, <2>2, EraseKeeps
<1>7. CASE Stoppable(i) /\ recorder[i].kind # "cpu"
  <2>1. /\ profiles' = profiles \ {slot[recorder[i].kind].profile} /\ events' = events
        /\ collecting'["cpu"] = collecting["cpu"]
    BY <1>1, <1>7, EndIs DEF Discard
  <2>2. c # NoGeneration => ~Forgotten(c)
    <3>1. slot["cpu"].profile # NoProfile =>
            slot[recorder[i].kind].profile # slot["cpu"].profile
      BY <1>3, <1>7 DEF OwnerInv, OneOwner
    <3> QED
      BY <1>2, <1>4, <2>1, <3>1 DEF Forgotten
  <2> QED
    BY <1>1, <2>1, <2>2, EraseKeeps
<1> QED
  BY <1>5, <1>6, <1>7

LEMMA ResultData ==
    ASSUME OwnerInv, DataInv, next_generation' <= made', NEW i \in Recordings,
           ApiFinalizeResult(i)
    PROVE  DataInv'
<1>1. /\ profiles' = profiles \ {result[i].profile} /\ collecting' = collecting
      /\ Erase /\ stack' = stack /\ events' = events
  BY DEF ApiFinalizeResult, FinalizeResult, execution
<1> DEFINE c == collecting["cpu"]
<1>2. ASSUME c # NoGeneration PROVE ~Forgotten(c)
  <2>1. c = Current /\ c \in profiles /\ "cpu" \in Kinds
    BY <1>2, CollectedIs DEF Kinds
  <2>2. slot["cpu"].profile = c /\ c # NoProfile
    BY <1>2, <2>1 DEF OwnerInv, SlotShape, EmptySlot, NoGeneration, NoProfile, Current
  <2>3. result[i].profile # c
    BY <2>1, <2>2 DEF OwnerInv, OneOwner
  <2> QED
    BY <1>1, <2>1, <2>3 DEF Forgotten
<1> QED
  BY <1>1, <1>2, EraseKeeps

\* The runtime is deleted when nothing is collected any more.
LEMMA CloseData ==
    ASSUME OwnerInv, DataInv, next_generation' <= made', HostClose
    PROVE  DataInv'
<1>1. UNCHANGED data /\ stack' = stack /\ (LuaClose \/ DeleteRuntime)
  BY DEF HostClose, execution
<1>2. KnownEvents(events, stack')
  BY <1>1 DEF DataInv
<1>3. collecting'["cpu"] = collecting["cpu"] \/ events = <<>>
  <2>1. CASE LuaClose
    BY <2>1 DEF LuaClose, runtime
  <2>2. CASE DeleteRuntime
    <3>1. \A t \in Things : \A i \in Recordings : life[t][i] \notin {"live", "doomed"}
      BY <2>2 DEF DeleteRuntime, OwnerInv, Closing
    <3>2. \A i \in Recordings : ~recorder[i].active
      BY <3>1 DEF OwnerInv, ActiveIsCollected, Things
    <3>3. collecting["cpu"] = NoGeneration
      BY <3>2 DEF OwnerInv, ActiveIsCollected, Kinds
    <3> QED
      BY <3>3 DEF DataInv, Waiting
  <2> QED
    BY <1>1, <2>1, <2>2
<1> QED
  BY <1>1, <1>2, <1>3, SameData

LEMMA DataStep == OwnerInv /\ DataInv /\ [CpuNext]_cpuVars => DataInv'
<1> SUFFICES ASSUME OwnerInv, DataInv, [CpuNext]_cpuVars PROVE DataInv'
  OBVIOUS
<1>1. KnownEvents(events, stack) /\ next_generation <= made
  BY DEF DataInv
<1>2. next_generation' <= made'
  BY <1>1, NumberedStep, CpuStepOwns
<1>3. CASE Tick
  BY <1>3, TickData
<1>4. CASE Fetch
  <2>1. Drain(stack) /\ stack' = stack /\ collecting' = collecting
    BY <1>4 DEF Fetch, ownerVars, runtime
  <2>2. events' = <<>> /\ Kept(content', heard')
        /\ Ticked(ticked', heard', events', collecting'["cpu"])
    BY <1>1, <2>1, DrainKeeps
  <2>3. KnownEvents(events', stack')
    BY <1>1, <2>1, <2>2, NoneKnown DEF KnownEvents
  <2> QED
    BY <1>2, <2>2, <2>3 DEF DataInv, Waiting
<1>5. ASSUME NEW f \in LuaFunctions \cup (CFunctions \ {Api}), CallFunction(f)
      PROVE  DataInv'
  <2>1. UNCHANGED data /\ stack' = <<f>> \o stack /\ collecting' = collecting
    BY <1>5 DEF CallFunction, ownerVars, runtime
  <2>2. KnownEvents(events, stack')
    BY <1>1, <2>1, KnownPush DEF AllFunctions
  <2> QED
    BY <1>2, <2>1, <2>2, SameData
<1>6. ASSUME NEW n \in 1 .. MaxDepth, Leave(n) PROVE DataInv'
  BY <1>6, LeaveData
<1>7. ASSUME NEW k \in Kinds, ApiStart(k) PROVE DataInv'
  BY <1>2, <1>7, StartData
<1>8. ASSUME NEW i \in Recordings, ApiStop(i) \/ ApiDiscard(i) \/ ApiFinalizeResult(i)
      PROVE  DataInv'
  BY <1>2, <1>8, StopData, DiscardData, ResultData
<1>9. CASE Garbage \/ UNCHANGED cpuVars \/ \E t \in Things, i \in Recordings : Reference(t, i)
  <2>1. UNCHANGED data /\ stack' = stack /\ collecting' = collecting
    BY <1>9 DEF Garbage, Reference, Collect, Forget, cpuVars, ownerVars, execution, runtime
  <2> QED
    BY <1>1, <1>2, <2>1, SameData
<1>10. CASE HostClose
  BY <1>2, <1>10, CloseData
<1> QED
  BY <1>3, <1>4, <1>5, <1>6, <1>7, <1>8, <1>9, <1>10 DEF CpuNext

LEMMA DataInvariance == CpuSpec => [](OwnerInv /\ DataInv)
<1>1. CpuInit => OwnerInv /\ DataInv
  BY InitOwner, InitData DEF CpuInit
<1>2. OwnerInv /\ DataInv /\ [CpuNext]_cpuVars => OwnerInv' /\ DataInv'
  BY CpuStepOwns, OwnerStep, DataStep
<1> QED
  BY <1>1, <1>2, PTL DEF CpuSpec

\* Every tick of a recording is in its profile when it is stopped, as a sample of its
\* state or as an overflow, for any number of recordings, ticks and functions and tables
\* of any size (thread_timer.c, drain_thread_timer, lp_cpu_profile_record).
THEOREM TicksAccounted == CpuSpec => []SamplesAccounted
<1>1. DataInv => SamplesAccounted
  <2> SUFFICES ASSUME DataInv PROVE SamplesAccounted
    OBVIOUS
  <2>1. collecting["cpu"] = NoGeneration => events = <<>>
    BY DEF DataInv, Waiting
  <2>2. ASSUME NEW g \in Generations
        PROVE  /\ \A s \in VmStates :
                    content[g].counted[s] = Total(content[g], LAMBDA a : a.state = s)
               /\ SumFunction(content[g].counted) + content[g].aggregate_overflows
                        = SumFunction(heard[g])
               /\ ticked[g] = SumFunction(heard[g])
                                + (IF collecting["cpu"] = g THEN Len(events) ELSE 0)
    <3>1. StatesBooked(content[g]) /\ EventsBooked(content[g], heard[g])
      BY DEF DataInv, Kept, Booked
    <3>2. \A s \in VmStates :
                content[g].counted[s] = Total(content[g], LAMBDA a : a.state = s)
      BY <3>1 DEF StatesBooked, OfState, Total
    <3>3. ticked[g] = SumFunction(heard[g])
                        + (IF collecting["cpu"] = g THEN Len(events) ELSE 0)
      BY DEF DataInv, Ticked
    <3> QED
      BY <3>1, <3>2, <3>3 DEF EventsBooked
  <2> QED
    BY <2>1, <2>2 DEF SamplesAccounted
<1> QED
  BY <1>1, DataInvariance, PTL

\* As long as the tables hold everything, each sampled C function has the weight of its
\* ticks, and each tick whose frame could still be found when its stack was captured is
\* exported with the stack of the moment it fell (capture_stack, build_cpu_samples).
THEOREM StacksExact == CpuSpec => []StacksAreExact
<1>1. DataInv => StacksAreExact
  <2> SUFFICES ASSUME DataInv, NEW g \in Generations, content[g].aggregate_overflows = 0
               PROVE  /\ \A f \in CFunctions :
                            Total(content[g], LAMBDA a : a.state = "c" /\ a.cfunction = f)
                                = HeardIn(g, LAMBDA e : e.state = "c" /\ e.cfunction = f)
                      /\ content[g].symbol_overflows = 0 =>
                            \A shown \in {e.stack : e \in DOMAIN heard[g]} \ {<<>>} :
                                ExportedWeight(content[g], shown)
                                    >= HeardIn(g, LAMBDA e : e.stack = shown)
    BY DEF StacksAreExact
  <2>1. FunctionsBooked(content[g], heard[g]) /\ StacksBooked(content[g], heard[g])
    BY DEF DataInv, Kept, Booked
  <2>2. \A f \in CFunctions :
            Total(content[g], LAMBDA a : a.state = "c" /\ a.cfunction = f)
                = HeardIn(g, LAMBDA e : e.state = "c" /\ e.cfunction = f)
    BY <2>1 DEF FunctionsBooked, OfFunction, Total, HeardIn
  <2>3. content[g].symbol_overflows = 0 =>
            \A shown \in {e.stack : e \in DOMAIN heard[g]} \ {<<>>} :
                ExportedWeight(content[g], shown) >= HeardIn(g, LAMBDA e : e.stack = shown)
    BY <2>1 DEF StacksBooked, OfStack, HeardIn
  <2> QED
    BY <2>2, <2>3
<1> QED
  BY <1>1, DataInvariance, PTL
==============================================================================
