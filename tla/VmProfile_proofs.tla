-------------------------- MODULE VmProfile_proofs --------------------------
(***************************************************************************)
(* Proofs about VmProfile, for any lua_States and functions, any depth of  *)
(* stacks, and any number of recordings and expirations.                   *)
(*                                                                         *)
(* What the state promises depends on the calls that are still in todo.    *)
(* Each aspect of it (the recorder, the stacks, the names the timer may    *)
(* hold, the work) is followed by a small automaton that reads todo: the   *)
(* invariant says that the automaton, started in a value that fits the     *)
(* state, runs through todo to a value that is fit for an idle VM.         *)
(***************************************************************************)
EXTENDS VmProfile, Integers, FiniteSetTheorems, SequenceTheorems, TLAPS

------------------------------------------------------------------------------
(* Runs of an automaton, given as its set T of steps <<before, call, after>>. *)

Run(T, s, a, e) ==
    \E g : /\ g[1] = a /\ g[Len(s) + 1] = e
           /\ \A i \in 1 .. Len(s) : <<g[i], s[i], g[i + 1]>> \in T

LEMMA RunNone == ASSUME NEW T, NEW a PROVE Run(T, <<>>, a, a)
<1> DEFINE g == <<a>>
<1>1. g[1] = a /\ g[Len(<<>>) + 1] = a
  OBVIOUS
<1> HIDE DEF g
<1> QED
  BY <1>1 DEF Run

LEMMA RunEmpty == ASSUME NEW T, NEW a, NEW e, Run(T, <<>>, a, e) PROVE a = e
BY DEF Run

\* The first step of a run, and the run of the rest.
LEMMA RunHead ==
    ASSUME NEW S, NEW T, NEW s \in Seq(S), s # <<>>, NEW a, NEW e, Run(T, s, a, e)
    PROVE  \E b : <<a, Head(s), b>> \in T /\ Run(T, Tail(s), b, e)
<1>1. PICK g : /\ g[1] = a /\ g[Len(s) + 1] = e
               /\ \A i \in 1 .. Len(s) : <<g[i], s[i], g[i + 1]>> \in T
  BY DEF Run
<1> DEFINE h == [i \in 1 .. Len(s) |-> g[i + 1]]
<1>2. /\ Len(Tail(s)) = Len(s) - 1 /\ Len(s) \in Nat \ {0}
      /\ \A i \in 1 .. Len(Tail(s)) : Tail(s)[i] = s[i + 1]
  OBVIOUS
<1>3. h[1] = g[2] /\ h[Len(Tail(s)) + 1] = e
  BY <1>1, <1>2
<1>4. \A i \in 1 .. Len(Tail(s)) : <<h[i], Tail(s)[i], h[i + 1]>> \in T
  BY <1>1, <1>2
<1>5. <<a, Head(s), g[2]>> \in T
  BY <1>1, <1>2
<1> HIDE DEF h
<1> QED
  BY <1>3, <1>4, <1>5 DEF Run

LEMMA RunCat ==
    ASSUME NEW S, NEW T, NEW s \in Seq(S), NEW t \in Seq(S), NEW a, NEW b, NEW e,
           Run(T, s, a, b), Run(T, t, b, e)
    PROVE  Run(T, s \o t, a, e)
<1>1. PICK g : /\ g[1] = a /\ g[Len(s) + 1] = b
               /\ \A i \in 1 .. Len(s) : <<g[i], s[i], g[i + 1]>> \in T
  BY DEF Run
<1>2. PICK h : /\ h[1] = b /\ h[Len(t) + 1] = e
               /\ \A i \in 1 .. Len(t) : <<h[i], t[i], h[i + 1]>> \in T
  BY DEF Run
<1> DEFINE f == [i \in 1 .. Len(s) + Len(t) + 1 |->
                    IF i <= Len(s) THEN g[i] ELSE h[i - Len(s)]]
<1>3. Len(s \o t) = Len(s) + Len(t) /\ Len(s) \in Nat /\ Len(t) \in Nat
  OBVIOUS
<1>4. f[1] = a /\ f[Len(s \o t) + 1] = e
  BY <1>1, <1>2, <1>3
<1>5. ASSUME NEW i \in 1 .. Len(s \o t) PROVE <<f[i], (s \o t)[i], f[i + 1]>> \in T
  <2>1. i < Len(s) \/ i = Len(s) \/ i > Len(s)
    BY <1>3
  <2>2. CASE i < Len(s)
    BY <1>1, <1>3, <2>2
  <2>3. CASE i = Len(s)
    BY <1>1, <1>2, <1>3, <2>3
  <2>4. CASE i > Len(s)
    BY <1>3, <2>4, <1>2
  <2> HIDE DEF f
  <2> QED
    BY <2>1, <2>2, <2>3, <2>4
<1> HIDE DEF f
<1> QED
  BY <1>4, <1>5 DEF Run

\* Runs of one to four calls; longer ones are put together with RunCat.
LEMMA Run1 == ASSUME NEW T, NEW a, NEW b, NEW x, <<a, x, b>> \in T
              PROVE  Run(T, <<x>>, a, b)
<1> DEFINE g == <<a, b>>
           s == <<x>>
<1>1. g[1] = a /\ g[Len(s) + 1] = b /\ \A i \in 1 .. Len(s) : <<g[i], s[i], g[i + 1]>> \in T
  OBVIOUS
<1> HIDE DEF g
<1> QED
  BY <1>1 DEF Run

LEMMA Run2 ==
    ASSUME NEW T, NEW a, NEW b, NEW c, NEW x, NEW y,
           <<a, x, b>> \in T, <<b, y, c>> \in T
    PROVE  Run(T, <<x, y>>, a, c)
<1> DEFINE g == <<a, b, c>>
           s == <<x, y>>
<1>1. g[1] = a /\ g[Len(s) + 1] = c /\ \A i \in 1 .. Len(s) : <<g[i], s[i], g[i + 1]>> \in T
  OBVIOUS
<1> HIDE DEF g
<1> QED
  BY <1>1 DEF Run

LEMMA Run3 ==
    ASSUME NEW T, NEW a, NEW b, NEW c, NEW d, NEW x, NEW y, NEW z,
           <<a, x, b>> \in T, <<b, y, c>> \in T, <<c, z, d>> \in T
    PROVE  Run(T, <<x, y, z>>, a, d)
<1> DEFINE g == <<a, b, c, d>>
           s == <<x, y, z>>
<1>1. g[1] = a /\ g[Len(s) + 1] = d /\ \A i \in 1 .. Len(s) : <<g[i], s[i], g[i + 1]>> \in T
  OBVIOUS
<1> HIDE DEF g
<1> QED
  BY <1>1 DEF Run

LEMMA Run4 ==
    ASSUME NEW T, NEW a, NEW b, NEW c, NEW d, NEW e, NEW x, NEW y, NEW z, NEW u,
           <<a, x, b>> \in T, <<b, y, c>> \in T, <<c, z, d>> \in T, <<d, u, e>> \in T
    PROVE  Run(T, <<x, y, z, u>>, a, e)
<1> DEFINE g == <<a, b, c, d, e>>
           s == <<x, y, z, u>>
<1>1. g[1] = a /\ g[Len(s) + 1] = e /\ \A i \in 1 .. Len(s) : <<g[i], s[i], g[i + 1]>> \in T
  OBVIOUS
<1> HIDE DEF g
<1> QED
  BY <1>1 DEF Run

------------------------------------------------------------------------------
(* Numbers and sequences. *)

\* A set of finite sets that is not empty has a smallest one.
LEMMA Minimal ==
    ASSUME NEW F, F # {}, \A S \in F : IsFiniteSet(S)
    PROVE  \E m \in F : \A k \in F : ~(k \subseteq m /\ k # m)
<1> DEFINE U == UNION F
<1>1. F \subseteq FiniteSubsetsOf(U)
  BY DEF FiniteSubsetsOf
<1>2. \E x \in F : \A y \in F : ~ (<<y, x>> \in StrictSubsetOrdering(U))
  <2> HIDE DEF U
  <2> QED
    BY <1>1, FS_StrictSubsetOrderingWellFounded, WFMin
<1> QED
  BY <1>2 DEF StrictSubsetOrdering

LEMMA NatMin == ASSUME NEW T \in SUBSET Nat, T # {} PROVE \E m \in T : \A k \in T : m <= k
<1> DEFINE F == {1 .. n : n \in T}
<1>1. \A n \in T : IsFiniteSet(1 .. n)
  BY FS_Interval
<1>2. \E S \in F : \A k \in F : ~(k \subseteq S /\ k # S)
  <2> HIDE DEF F
  <2>1. F # {} /\ \A S \in F : IsFiniteSet(S)
    BY <1>1 DEF F
  <2> QED
    BY <2>1, Minimal
<1>3. PICK m \in T : \A k \in F : ~(k \subseteq 1 .. m /\ k # 1 .. m)
  BY <1>2
<1>4. ASSUME NEW k \in T, ~(m <= k) PROVE FALSE
  <2>1. 1 .. k \in F
    OBVIOUS
  <2>2. 1 .. k \subseteq 1 .. m /\ m \in 1 .. m /\ m \notin 1 .. k
    BY <1>4
  <2> QED
    BY <2>1, <2>2, <1>3
<1> QED
  BY <1>4

LEMMA Maximum ==
    ASSUME NEW n \in Nat, NEW T \in SUBSET (0 .. n), T # {}
    PROVE  \E m \in T : \A k \in T : k <= m
<1> DEFINE D == {n - k : k \in T}
<1>1. D \in SUBSET Nat /\ D # {}
  OBVIOUS
<1>2. \E m \in D : \A k \in D : m <= k
  <2> HIDE DEF D
  <2> QED
    BY <1>1, NatMin
<1>3. PICK m \in T : \A k \in T : n - m <= n - k
  BY <1>2
<1> QED
  BY <1>3

LEMMA TailProperties ==
    ASSUME NEW S, NEW s \in Seq(S), s # <<>>
    PROVE  /\ Head(s) \in S /\ Head(s) = s[1] /\ Tail(s) \in Seq(S)
           /\ Len(s) \in Nat \ {0} /\ Len(Tail(s)) = Len(s) - 1
           /\ \A i \in 1 .. Len(Tail(s)) : Tail(s)[i] = s[i + 1]
OBVIOUS

LEMMA CatProperties ==
    ASSUME NEW S, NEW s \in Seq(S), NEW t \in Seq(S)
    PROVE  /\ s \o t \in Seq(S) /\ Len(s \o t) = Len(s) + Len(t)
           /\ \A i \in 1 .. Len(s) : (s \o t)[i] = s[i]
           /\ \A i \in 1 .. Len(t) : (s \o t)[Len(s) + i] = t[i]
           /\ <<>> \o t = t
OBVIOUS

LEMMA PrefixProperties ==
    ASSUME NEW S, NEW s \in Seq(S), NEW n \in Nat, n <= Len(s)
    PROVE  /\ SubSeq(s, 1, n) \in Seq(S) /\ Len(SubSeq(s, 1, n)) = n
           /\ \A i \in 1 .. n : SubSeq(s, 1, n)[i] = s[i]
BY SubSeqProperties

LEMMA FrontProperties ==
    ASSUME NEW S, NEW s \in Seq(S), s # <<>>
    PROVE  /\ Front(s) \in Seq(S) /\ Len(Front(s)) = Len(s) - 1
           /\ \A i \in 1 .. Len(s) - 1 : Front(s)[i] = s[i]
           /\ Last(s) \in S /\ Last(s) = s[Len(s)] /\ Len(s) \in Nat \ {0}
<1>1. Len(s) \in Nat \ {0} /\ s[Len(s)] \in S
  OBVIOUS
<1>2. Len(s) - 1 \in Nat /\ Len(s) - 1 <= Len(s)
  BY <1>1
<1>3. Front(s) \in Seq(S) /\ Len(Front(s)) = Len(s) - 1
  BY <1>2, PrefixProperties DEF Front
<1>4. \A i \in 1 .. Len(s) - 1 : Front(s)[i] = s[i]
  BY <1>2, PrefixProperties DEF Front
<1> QED
  BY <1>1, <1>3, <1>4 DEF Last

------------------------------------------------------------------------------
(* The thread timer keeps its type. *)

\* What the VM's own steps do to the timer.
LEMMA TimerTypes ==
    ASSUME NEW x \in Timer
    PROVE  /\ NewTimer \in Timer /\ OpenSlot(x) \in Timer
           /\ \A s \in Slot : CloseSlot(x, s) \in Timer
           /\ BeginDrain(x) \in Timer /\ EndDrain(x) \in Timer /\ TakeQuality(x) \in Timer
           /\ x.events # <<>> => TakeEvent(x) \in Timer
           /\ \A active \in BOOLEAN : [x EXCEPT !.active = active] \in Timer
<1>1. x.events \in Seq(Slot) /\ (x.events # <<>> => Tail(x.events) \in Seq(Slot))
  BY DEF Timer
<1>2. BeginDrain(x) \in Timer /\ EndDrain(x) \in Timer
  BY DEF Timer, BeginDrain, EndDrain
<1>3. TakeQuality(x) \in Timer
  BY DEF Timer, TakeQuality
<1>4. OpenSlot(x) \in Timer /\ \A s \in Slot : CloseSlot(x, s) \in Timer
  BY DEF Timer, CloseSlot, OpenSlot
<1>5. x.events # <<>> => TakeEvent(x) \in Timer
  BY <1>1 DEF Timer, TakeEvent
<1>6. NewTimer \in Timer
  BY DEF NewTimer, Timer, Slot, VmStates
<1>7. \A active \in BOOLEAN : [x EXCEPT !.active = active] \in Timer
  BY DEF Timer
<1> QED
  BY <1>2, <1>3, <1>4, <1>5, <1>6, <1>7

\* An expiration leaves the slot, which keeps its owner, and the two flags; it counts
\* once; and it is queued only where the slot can be attributed.
Counted(x, y, n) ==
    /\ y \in Timer
    /\ y.slot = x.slot /\ y.publishing = x.publishing
    /\ y.active = x.active /\ y.draining = x.draining
    /\ Expirations(y) = Expirations(x) + n

LEMMA ExpirationsNat ==
    ASSUME NEW x \in Timer
    PROVE  /\ Expirations(x) \in Nat
           /\ Expirations(x) = 0 => x.events = <<>>
<1>1. x.events \in Seq(Slot)
  BY DEF Timer
<1>2. /\ x.dropped \in Nat /\ x.unstable \in Nat
      /\ x.overhead \in Nat /\ x.overrunTicks \in Nat
  BY DEF Timer
<1> DEFINE n == Len(x.events)
           d == x.dropped
           u == x.unstable
           o == x.overhead
           r == x.overrunTicks
<1>3. n \in Nat /\ (n = 0 => x.events = <<>>)
  BY <1>1
<1>4. Expirations(x) = n + d + u + o + r
  BY DEF Expirations, Deliveries
<1>5. d \in Nat /\ u \in Nat /\ o \in Nat /\ r \in Nat
  BY <1>2
<1> HIDE DEF n, d, u, o, r
<1>6. n + d + u + o + r \in Nat /\ (n + d + u + o + r = 0 => n = 0)
  BY <1>3, <1>5
<1> QED
  BY <1>3, <1>4, <1>6

LEMMA OverrunCounts ==
    ASSUME NEW x \in Timer, NEW overrun \in Nat
    PROVE  /\ Counted(x, RecordOverrun(x, overrun), overrun)
           /\ RecordOverrun(x, overrun).events = x.events
<1>1. CASE overrun = 0
  BY <1>1, ExpirationsNat DEF Counted, RecordOverrun
<1>2. CASE overrun # 0
  <2> DEFINE y == [x EXCEPT !.overrunEvents = @ + 1, !.overrunTicks = @ + overrun]
  <2>1. y \in Timer
    <3>1. x.overrunEvents + 1 \in Nat /\ x.overrunTicks + overrun \in Nat
      BY DEF Timer
    <3> QED
      BY <3>1 DEF Timer
  <2>2. /\ y.slot = x.slot /\ y.publishing = x.publishing /\ y.active = x.active
        /\ y.draining = x.draining /\ y.events = x.events /\ y.dropped = x.dropped
        /\ y.unstable = x.unstable /\ y.overhead = x.overhead
        /\ y.overrunTicks = x.overrunTicks + overrun
    BY DEF Timer
  <2>3. Expirations(y) = Expirations(x) + overrun
    BY SMTT(30), <2>1, <2>2 DEF Expirations, Deliveries, Timer
  <2>4. RecordOverrun(x, overrun) = y
    BY <1>2 DEF RecordOverrun
  <2> HIDE DEF y
  <2> QED
    BY <2>1, <2>2, <2>3, <2>4 DEF Counted
<1> QED
  BY <1>1, <1>2

LEMMA ExpirationsSum ==
    ASSUME NEW x \in Timer, NEW y, y.overrunTicks = x.overrunTicks,
           \/ /\ Len(y.events) = Len(x.events) + 1 /\ y.dropped = x.dropped
              /\ y.unstable = x.unstable /\ y.overhead = x.overhead
           \/ /\ Len(y.events) = Len(x.events) /\ y.dropped = x.dropped + 1
              /\ y.unstable = x.unstable /\ y.overhead = x.overhead
           \/ /\ Len(y.events) = Len(x.events) /\ y.dropped = x.dropped
              /\ y.unstable = x.unstable + 1 /\ y.overhead = x.overhead
           \/ /\ Len(y.events) = Len(x.events) /\ y.dropped = x.dropped
              /\ y.unstable = x.unstable /\ y.overhead = x.overhead + 1
    PROVE  Expirations(y) = Expirations(x) + 1
<1> DEFINE a == Len(x.events) b == x.dropped c == x.unstable d == x.overhead
           e == x.overrunTicks
<1>1. Expirations(x) = a + b + c + d + e
  BY DEF Expirations, Deliveries
<1>2. \/ Expirations(y) = (a + 1) + b + c + d + e
      \/ Expirations(y) = a + (b + 1) + c + d + e
      \/ Expirations(y) = a + b + (c + 1) + d + e
      \/ Expirations(y) = a + b + c + (d + 1) + e
  BY DEF Expirations, Deliveries
<1>3. a \in Nat /\ b \in Nat /\ c \in Nat /\ d \in Nat /\ e \in Nat
  BY DEF Timer
<1> HIDE DEF a, b, c, d, e
<1> QED
  BY <1>1, <1>2, <1>3

LEMMA FieldCounts ==
    ASSUME NEW x \in Timer
    PROVE  /\ Counted(x, [x EXCEPT !.overhead = @ + 1], 1)
           /\ Counted(x, [x EXCEPT !.unstable = @ + 1], 1)
           /\ Counted(x, [x EXCEPT !.dropped = @ + 1], 1)
           /\ Counted(x, [x EXCEPT !.events = Append(@, x.slot)], 1)
           /\ [x EXCEPT !.overhead = @ + 1].events = x.events
           /\ [x EXCEPT !.unstable = @ + 1].events = x.events
           /\ [x EXCEPT !.dropped = @ + 1].events = x.events
           /\ [x EXCEPT !.events = Append(@, x.slot)].events = Append(x.events, x.slot)
<1>1. /\ x.overhead \in Nat /\ x.unstable \in Nat /\ x.dropped \in Nat
      /\ x.overrunTicks \in Nat /\ x.events \in Seq(Slot) /\ x.slot \in Slot
  BY DEF Timer
<1>2. /\ Append(x.events, x.slot) \in Seq(Slot)
      /\ Len(Append(x.events, x.slot)) = Len(x.events) + 1 /\ Len(x.events) \in Nat
  BY <1>1
<1>3. /\ x.overhead + 1 \in Nat /\ x.unstable + 1 \in Nat /\ x.dropped + 1 \in Nat
  BY <1>1
<1>4. /\ Counted(x, [x EXCEPT !.overhead = @ + 1], 1)
      /\ [x EXCEPT !.overhead = @ + 1].events = x.events
  <2> DEFINE y == [x EXCEPT !.overhead = @ + 1]
  <2>1. y \in Timer
    BY <1>2, <1>3 DEF Timer
  <2>2. /\ y.slot = x.slot /\ y.publishing = x.publishing /\ y.active = x.active
        /\ y.draining = x.draining /\ y.events = x.events
        /\ y.dropped = x.dropped /\ y.unstable = x.unstable
        /\ y.overhead = x.overhead + 1 /\ y.overrunTicks = x.overrunTicks
    BY DEF Timer
  <2> HIDE DEF y
  <2>3. Expirations(y) = Expirations(x) + 1
    BY <1>2, <2>2, ExpirationsSum
  <2>4. Counted(x, y, 1) /\ y.events = x.events
    BY <2>1, <2>2, <2>3 DEF Counted
  <2> QED
    BY <2>4 DEF y
<1>5. /\ Counted(x, [x EXCEPT !.unstable = @ + 1], 1)
      /\ [x EXCEPT !.unstable = @ + 1].events = x.events
  <2> DEFINE y == [x EXCEPT !.unstable = @ + 1]
  <2>1. y \in Timer
    BY <1>2, <1>3 DEF Timer
  <2>2. /\ y.slot = x.slot /\ y.publishing = x.publishing /\ y.active = x.active
        /\ y.draining = x.draining /\ y.events = x.events
        /\ y.dropped = x.dropped /\ y.unstable = x.unstable + 1
        /\ y.overhead = x.overhead /\ y.overrunTicks = x.overrunTicks
    BY DEF Timer
  <2> HIDE DEF y
  <2>3. Expirations(y) = Expirations(x) + 1
    BY <1>2, <2>2, ExpirationsSum
  <2>4. Counted(x, y, 1) /\ y.events = x.events
    BY <2>1, <2>2, <2>3 DEF Counted
  <2> QED
    BY <2>4 DEF y
<1>6. /\ Counted(x, [x EXCEPT !.dropped = @ + 1], 1)
      /\ [x EXCEPT !.dropped = @ + 1].events = x.events
  <2> DEFINE y == [x EXCEPT !.dropped = @ + 1]
  <2>1. y \in Timer
    BY <1>2, <1>3 DEF Timer
  <2>2. /\ y.slot = x.slot /\ y.publishing = x.publishing /\ y.active = x.active
        /\ y.draining = x.draining /\ y.events = x.events
        /\ y.dropped = x.dropped + 1 /\ y.unstable = x.unstable
        /\ y.overhead = x.overhead /\ y.overrunTicks = x.overrunTicks
    BY DEF Timer
  <2> HIDE DEF y
  <2>3. Expirations(y) = Expirations(x) + 1
    BY <1>2, <2>2, ExpirationsSum
  <2>4. Counted(x, y, 1) /\ y.events = x.events
    BY <2>1, <2>2, <2>3 DEF Counted
  <2> QED
    BY <2>4 DEF y
<1>7. /\ Counted(x, [x EXCEPT !.events = Append(@, x.slot)], 1)
      /\ [x EXCEPT !.events = Append(@, x.slot)].events = Append(x.events, x.slot)
  <2> DEFINE y == [x EXCEPT !.events = Append(@, x.slot)]
  <2>1. y \in Timer
    BY <1>2, <1>3 DEF Timer
  <2>2. /\ y.slot = x.slot /\ y.publishing = x.publishing /\ y.active = x.active
        /\ y.draining = x.draining /\ y.events = Append(x.events, x.slot)
        /\ y.dropped = x.dropped /\ y.unstable = x.unstable
        /\ y.overhead = x.overhead /\ y.overrunTicks = x.overrunTicks
    BY DEF Timer
  <2> HIDE DEF y
  <2>3. Expirations(y) = Expirations(x) + 1
    BY <1>2, <2>2, ExpirationsSum
  <2>4. Counted(x, y, 1) /\ y.events = Append(x.events, x.slot)
    BY <2>1, <2>2, <2>3 DEF Counted
  <2> QED
    BY <2>4 DEF y
<1> QED
  BY <1>4, <1>5, <1>6, <1>7

LEMMA DiscardCounts ==
    ASSUME NEW x \in Timer, NEW overrun \in Nat
    PROVE  /\ Counted(x, Discard(x, overrun), 1 + overrun)
           /\ Discard(x, overrun).events = x.events
<1> DEFINE c == RecordOverrun(x, overrun)
<1>1. Counted(x, c, overrun) /\ c.events = x.events
  BY OverrunCounts
<1>2. c \in Timer
  BY <1>1 DEF Counted
<1> HIDE DEF c
<1>3. Counted(c, [c EXCEPT !.dropped = @ + 1], 1) /\ [c EXCEPT !.dropped = @ + 1].events = c.events
  BY <1>2, FieldCounts
<1>4. Counted(x, [c EXCEPT !.dropped = @ + 1], 1 + overrun)
  <2> DEFINE y == [c EXCEPT !.dropped = @ + 1]
  <2> HIDE DEF y
  <2>1. Expirations(x) \in Nat /\ Expirations(c) \in Nat
    BY <1>2, ExpirationsNat
  <2>2. Counted(c, y, 1)
    BY <1>3 DEF y
  <2>3. Counted(x, y, 1 + overrun)
    BY <1>1, <2>1, <2>2 DEF Counted
  <2> QED
    BY <2>3 DEF y
<1> QED
  BY <1>1, <1>3, <1>4 DEF Discard, c

LEMMA HandleCounts ==
    ASSUME NEW x \in Timer, x.active, NEW overrun \in Nat
    PROVE  /\ Counted(x, Handle(x, overrun), 1 + overrun)
           /\ \/ Handle(x, overrun).events = x.events
              \/ /\ Attributable(x)
                 /\ Handle(x, overrun).events = Append(x.events, x.slot)
<1> DEFINE c == RecordOverrun(x, overrun)
<1>1. Counted(x, c, overrun) /\ c.events = x.events
  BY OverrunCounts
<1>2. c \in Timer /\ c.slot = x.slot
  BY <1>1 DEF Counted
<1>3. \/ Handle(x, overrun) \in {[c EXCEPT !.overhead = @ + 1], [c EXCEPT !.unstable = @ + 1],
                                [c EXCEPT !.dropped = @ + 1]}
      \/ /\ Attributable(x)
         /\ Handle(x, overrun) = [c EXCEPT !.events = Append(@, c.slot)]
  <2>1. x.draining \in BOOLEAN
    BY DEF Timer
  <2>2. Attributable(x) => ~x.draining
    BY DEF Attributable
  <2> HIDE DEF c
  <2> QED
    BY <2>1, <2>2, <1>2 DEF Handle, c
<1> HIDE DEF c
<1>4. ASSUME NEW y, Handle(x, overrun) = y, Counted(c, y, 1)
      PROVE  Counted(x, y, 1 + overrun)
  BY <1>2, ExpirationsNat, <1>1, <1>4 DEF Counted
<1> QED
  BY <1>1, <1>2, <1>3, <1>4, FieldCounts

------------------------------------------------------------------------------
(* What statefromci finds. *)

\* statefromci on the lowest n frames of a stack.
StateBelow(stack, n) ==
    LET calls == {i \in 1 .. n : stack[i].vm # "gc"}
        ci == CHOOSE i \in calls : \A j \in calls : j <= i
    IN  IF calls = {} THEN Host
        ELSE [vm |-> stack[ci].vm, cfunction |-> stack[ci].cfunction]

LEMMA StateOfStack == ASSUME NEW S, NEW s \in Seq(S) PROVE StateFromCi(s) = StateBelow(s, Len(s))
<1>1. DOMAIN s = 1 .. Len(s)
  OBVIOUS
<1> QED
  BY <1>1 DEF StateFromCi, StateBelow

\* It is a host state only where there is no call.
LEMMA StateBelowType ==
    ASSUME NEW s \in Seq(Frame), NEW n \in Nat, n <= Len(s)
    PROVE  /\ StateBelow(s, n) \in Executions
           /\ (\E i \in 1 .. n : s[i].vm # "gc") => StateBelow(s, n).vm \in {"lua", "c"}
<1> DEFINE calls == {i \in 1 .. n : s[i].vm # "gc"}
           ci == CHOOSE i \in calls : \A j \in calls : j <= i
<1>1. CASE calls = {}
  BY <1>1 DEF StateBelow, Host, Executions, VmStates
<1>2. CASE calls # {}
  <2>1. calls \in SUBSET (0 .. n)
    OBVIOUS
  <2>2. \E i \in calls : \A j \in calls : j <= i
    <3> HIDE DEF calls
    <3> QED
      BY <1>2, <2>1, Maximum
  <2>3. ci \in calls
    <3> HIDE DEF calls
    <3> QED
      BY <2>2
  <2>4. s[ci] \in Frame /\ s[ci].vm # "gc"
    BY <2>3
  <2>5. StateBelow(s, n) = [vm |-> s[ci].vm, cfunction |-> s[ci].cfunction]
    BY <1>2 DEF StateBelow
  <2> HIDE DEF ci
  <2> QED
    BY <2>4, <2>5 DEF Frame, Executions, VmStates
<1> QED
  BY <1>1, <1>2

\* It depends on what the frames run, not on how they were entered.
LEMMA StateBelowCongruent ==
    ASSUME NEW s, NEW t, NEW n \in Nat,
           \A i \in 1 .. n : s[i].vm = t[i].vm /\ s[i].cfunction = t[i].cfunction
    PROVE  StateBelow(s, n) = StateBelow(t, n)
<1> DEFINE Calls(u) == {i \in 1 .. n : u[i].vm # "gc"}
           Ci(u) == CHOOSE i \in Calls(u) : \A j \in Calls(u) : j <= i
<1>1. Calls(s) = Calls(t)
  OBVIOUS
<1>2. Ci(s) = Ci(t)
  BY <1>1
<1>3. CASE Calls(s) = {}
  BY <1>1, <1>3 DEF StateBelow
<1>4. CASE Calls(s) # {}
  <2>1. Calls(s) \in SUBSET (0 .. n)
    OBVIOUS
  <2>2. \E i \in Calls(s) : \A j \in Calls(s) : j <= i
    <3> HIDE DEF Calls
    <3> QED
      BY <1>4, <2>1, Maximum
  <2>3. Ci(s) \in 1 .. n
    <3>1. Ci(s) \in Calls(s)
      <4> HIDE DEF Calls
      <4> QED
        BY <2>2
    <3> QED
      BY <3>1
  <2>4. /\ StateBelow(s, n) = [vm |-> s[Ci(s)].vm, cfunction |-> s[Ci(s)].cfunction]
        /\ StateBelow(t, n) = [vm |-> t[Ci(t)].vm, cfunction |-> t[Ci(t)].cfunction]
    BY <1>1, <1>4 DEF StateBelow
  <2> HIDE DEF Ci
  <2> QED
    BY <1>2, <2>3, <2>4
<1> QED
  BY <1>3, <1>4

------------------------------------------------------------------------------
(* Types.  A frame is there to be left, entered again or given a guard: that  *)
(* is StackInv's part, further down, and a hypothesis here.                   *)

Ready(call) ==
    /\ call.op \in {"leave", "reenter", "guard"} => frames[call.state] # <<>>
    /\ call.op = "enter" => call.vm # "host"

LEMMA CallTypes ==
    ASSUME NEW op \in Ops, NEW L \in States
    PROVE  /\ Do(op, L) \in Call
           /\ \A kind \in VmStates, f \in Functions \cup {NoFunction} :
                DoAs(op, L, kind, f) \in Call
BY DEF Do, DoAs, Call, VmStates

LEMMA HandoverTypes ==
    /\ Do("begin", Main) \in Call /\ Do("open", Main) \in Call /\ Do("shut", Main) \in Call
    /\ Do("drain", Main) \in Call /\ Do("quality", Main) \in Call /\ Do("end", Main) \in Call
BY MainAssumption, CallTypes DEF Ops

LEMMA StateChangeTypes ==
    ASSUME NEW L \in States, NEW kind \in VmStates, NEW f \in Functions \cup {NoFunction}
    PROVE  StateChange(L, kind, f) \in Seq(Call)
BY CallTypes, HandoverTypes DEF Ops, StateChange

LEMMA RecordTypes ==
    ASSUME NEW frame \in Frame, NEW now \in Executions
    PROVE  /\ frame.vm \in VmStates /\ frame.cfunction \in Functions \cup {NoFunction}
           /\ frame.saved \in Executions /\ frame.guarded \in BOOLEAN
           /\ frame.attached \in BOOLEAN /\ frame.work \in BOOLEAN
           /\ now.vm \in VmStates /\ now.cfunction \in Functions \cup {NoFunction}
           /\ now = [vm |-> now.vm, cfunction |-> now.cfunction]
BY DEF Frame, Executions, VmStates

\* What a publication does: whatever was published before, profile and
\* profileThread say afterwards what is published now.
LEMMA PublishDoes ==
    ASSUME TypeOK, NEW L \in States, NEW kind \in VmStates,
           NEW f \in Functions \cup {NoFunction}, NEW rest \in Seq(Call),
           Publish(L, kind, f, rest)
    PROVE  /\ profile' = [profile EXCEPT ![L] = [vm |-> kind, cfunction |-> f]]
           /\ profile' \in [States -> Executions]
           /\ profileThread' = L
           /\ \/ todo' = rest
              \/ hooks.cpu /\ todo' = StateChange(L, kind, f) \o rest
           /\ todo' \in Seq(Call)
<1> DEFINE now == [vm |-> kind, cfunction |-> f]
<1>1. now \in Executions /\ profile \in [States -> Executions] /\ <<>> \o rest = rest
  BY DEF TypeOK, Executions
<1>2. CASE profileThread = L /\ profile[L] = now
  BY <1>2, <1>1 DEF Publish
<1>3. CASE ~(profileThread = L /\ profile[L] = now)
  <2>1. /\ profile' = [profile EXCEPT ![L] = now] /\ profileThread' = L
        /\ todo' = (IF hooks.cpu THEN StateChange(L, kind, f) ELSE <<>>) \o rest
    BY <1>3 DEF Publish
  <2>2. profile' \in [States -> Executions]
    BY <1>1, <2>1
  <2>3. StateChange(L, kind, f) \o rest \in Seq(Call)
    BY StateChangeTypes, CatProperties
  <2> QED
    BY <1>1, <2>1, <2>2, <2>3
<1> QED
  BY <1>2, <1>3

\* What is published when nothing is, because the hooks are not set.
Quiet(rest) == todo' = rest /\ UNCHANGED <<profile, profileThread>>

\* The frame that luaP_enterstate pushes.
Entered(L, kind, f) ==
    IF hooks.cpu
    THEN [vm |-> kind, cfunction |-> f, guarded |-> TRUE, saved |-> profile[L],
          attached |-> TRUE, work |-> FALSE]
    ELSE [vm |-> kind, cfunction |-> f, guarded |-> FALSE, saved |-> Host,
          attached |-> TRUE, work |-> FALSE]

LEMMA EnterDoes ==
    ASSUME TypeOK, NEW L \in States, NEW stack \in Seq(Frame), NEW kind \in {"lua", "c", "gc"},
           NEW f \in Functions \cup {NoFunction}, NEW rest \in Seq(Call),
           EnterState(L, stack, kind, f, rest)
    PROVE  /\ Entered(L, kind, f) \in Frame
           /\ frames' = [frames EXCEPT ![L] = Append(stack, Entered(L, kind, f))]
           /\ frames' \in [States -> Seq(Frame)]
           /\ IF hooks.cpu THEN Publish(L, kind, f, rest) ELSE Quiet(rest)
<1>1. profile[L] \in Executions /\ Host \in Executions /\ frames \in [States -> Seq(Frame)]
  BY DEF TypeOK, Host, Executions, VmStates
<1>2. Entered(L, kind, f) \in Frame
  BY <1>1 DEF Entered, Frame
<1>3. frames' = [frames EXCEPT ![L] = Append(stack, Entered(L, kind, f))]
  BY DEF EnterState, Entered
<1>4. Append(stack, Entered(L, kind, f)) \in Seq(Frame)
  BY <1>2, AppendProperties
<1>5. frames' \in [States -> Seq(Frame)]
  BY <1>1, <1>3, <1>4
<1>6. IF hooks.cpu THEN Publish(L, kind, f, rest) ELSE Quiet(rest)
  BY DEF EnterState, Quiet
<1> QED
  BY <1>2, <1>3, <1>5, <1>6

\* What luaP_leaveframe_ publishes.
Back(L) == IF Top(L).guarded THEN Top(L).saved ELSE StateFromCi(Front(frames[L]))

LEMMA LeaveDoes ==
    ASSUME TypeOK, NEW call \in Call, NEW rest \in Seq(Call), frames[call.state] # <<>>,
           PerformLeave(call, rest)
    PROVE  LET L == call.state IN
           /\ Top(L) \in Frame /\ Front(frames[L]) \in Seq(Frame) /\ Back(L) \in Executions
           /\ frames' = [frames EXCEPT ![L] = Front(frames[L])]
           /\ frames' \in [States -> Seq(Frame)]
           /\ IF Top(L).guarded \/ hooks.cpu THEN Publish(L, Back(L).vm, Back(L).cfunction, rest)
              ELSE Quiet(rest)
<1> DEFINE L == call.state
<1>1. L \in States /\ frames \in [States -> Seq(Frame)] /\ frames[L] \in Seq(Frame)
  BY DEF TypeOK, Call
<1>2. Top(L) \in Frame /\ Front(frames[L]) \in Seq(Frame)
  BY <1>1, FrontProperties DEF Top
<1>3. StateFromCi(Front(frames[L])) \in Executions
  BY <1>2, StateOfStack, StateBelowType
<1>4. Back(L) \in Executions
  BY <1>2, <1>3, RecordTypes DEF Back
<1>5. frames' = [frames EXCEPT ![L] = Front(frames[L])]
  BY DEF PerformLeave
<1>6. frames' \in [States -> Seq(Frame)]
  BY <1>1, <1>2, <1>5
<1>7. IF Top(L).guarded \/ hooks.cpu THEN Publish(L, Back(L).vm, Back(L).cfunction, rest)
      ELSE Quiet(rest)
  BY DEF PerformLeave, Quiet, Back
<1> QED
  BY <1>2, <1>4, <1>5, <1>6, <1>7

\* The calls that change no more than what the types below say.
LEMMA StackCallTypes ==
    ASSUME TypeOK, NEW call \in Call, NEW rest \in Seq(Call), Ready(call),
           \/ PerformEnter(call, rest) \/ PerformReenter(call, rest)
           \/ PerformLeave(call, rest) \/ PerformPublish(call, rest)
           \/ PerformSync(call, rest) \/ PerformHost(call, rest)
    PROVE  /\ frames' \in [States -> Seq(Frame)] /\ todo' \in Seq(Call)
           /\ profile' \in [States -> Executions] /\ profileThread' \in States \cup {NoState}
<1> DEFINE L == call.state
<1>1. /\ L \in States /\ call.vm \in VmStates /\ call.cfunction \in Functions \cup {NoFunction}
      /\ frames \in [States -> Seq(Frame)] /\ frames[L] \in Seq(Frame)
      /\ profile \in [States -> Executions] /\ profileThread \in States \cup {NoState}
  BY DEF TypeOK, Call
<1> DEFINE Good == /\ todo' \in Seq(Call) /\ profile' \in [States -> Executions]
                   /\ profileThread' \in States \cup {NoState}
<1>2. Quiet(rest) => Good
  BY <1>1 DEF Quiet
<1>3. ASSUME NEW kind \in VmStates, NEW f \in Functions \cup {NoFunction},
             Publish(L, kind, f, rest)
      PROVE  Good
  BY <1>1, <1>3, PublishDoes
<1> HIDE DEF Good
<1>4. ASSUME NEW stack \in Seq(Frame), NEW kind \in {"lua", "c", "gc"},
             NEW f \in Functions \cup {NoFunction}, EnterState(L, stack, kind, f, rest)
      PROVE  Good /\ frames' \in [States -> Seq(Frame)]
  <2>1. kind \in VmStates
    BY DEF VmStates
  <2>2. /\ frames' \in [States -> Seq(Frame)]
        /\ IF hooks.cpu THEN Publish(L, kind, f, rest) ELSE Quiet(rest)
    BY <1>1, <1>4, EnterDoes
  <2> QED
    BY <1>2, <1>3, <2>1, <2>2
<1>5. CASE PerformEnter(call, rest)
  BY <1>1, <1>5, <1>4 DEF Ready, PerformEnter, VmStates, Good
<1>6. CASE PerformReenter(call, rest)
  <2>1. frames[L] # <<>>
    BY <1>6 DEF Ready, PerformReenter
  <2>2. Top(L) \in Frame /\ Front(frames[L]) \in Seq(Frame)
    BY <1>1, <2>1, FrontProperties DEF Top
  <2>3. Top(L).vm \in {"lua", "c", "gc"} /\ Top(L).cfunction \in Functions \cup {NoFunction}
    BY <2>2 DEF Frame
  <2>4. EnterState(L, Front(frames[L]), Top(L).vm, Top(L).cfunction, rest)
    BY <1>6 DEF PerformReenter
  <2> QED
    BY <1>4, <2>2, <2>3, <2>4 DEF Good
<1>7. CASE PerformLeave(call, rest)
  BY <1>7, LeaveDoes, <1>2, <1>3 DEF Ready, PerformLeave, Executions, Good
<1>8. CASE PerformPublish(call, rest)
  BY <1>1, <1>2, <1>3, <1>8 DEF PerformPublish, Quiet, vm, Good
<1>9. CASE PerformSync(call, rest)
  <2>1. StateFromCi(frames[L]) \in Executions
    <3>1. Len(frames[L]) \in Nat /\ Len(frames[L]) <= Len(frames[L])
      BY <1>1
    <3>2. StateBelow(frames[L], Len(frames[L])) \in Executions
      BY <1>1, <3>1, StateBelowType
    <3> QED
      BY <1>1, <3>2, StateOfStack
  <2> DEFINE now == StateFromCi(frames[L])
  <2>2. /\ frames' = frames
        /\ IF hooks.cpu THEN Publish(L, now.vm, now.cfunction, rest) ELSE Quiet(rest)
    BY <1>9 DEF PerformSync, Quiet, vm
  <2>3. now.vm \in VmStates /\ now.cfunction \in Functions \cup {NoFunction}
    BY <2>1 DEF Executions
  <2> HIDE DEF now
  <2> QED
    BY <1>1, <1>2, <1>3, <2>2, <2>3 DEF Good
<1>10. CASE PerformHost(call, rest)
  BY <1>1, <1>2, <1>3, <1>10 DEF VmStates, PerformHost, Quiet, vm, Good
<1> QED
  BY <1>5, <1>6, <1>7, <1>8, <1>9, <1>10 DEF Good

LEMMA PerformTypes ==
    ASSUME TypeOK, todo # <<>>, Ready(Head(todo)), Perform \/ Disarm
    PROVE  TypeOK'
<1> DEFINE call == Head(todo)
           rest == Tail(todo)
<1>1. call \in Call /\ rest \in Seq(Call)
  BY TailProperties DEF TypeOK
<1>2. call.state \in States /\ call.op \in Ops
  BY <1>1 DEF Call
<1> HIDE DEF call, rest
<1>3. Ready(call)
  BY DEF call
<1> DEFINE Bounded == ticks' \in Nat /\ sessions' \in Nat
<1>b. Bounded
  <2>1. CASE Perform
    BY <2>1 DEF Perform, bounds, TypeOK
  <2>2. CASE Disarm
    <3>1. PerformDisarm(call, rest) /\ sessions' = sessions
      BY <2>2 DEF Disarm, call, rest
    <3>2. \A overrun \in 0 .. MaxOverrun : overrun \in Nat
      BY BoundsAssumption
    <3> QED
      BY <3>1, <3>2 DEF PerformDisarm, TypeOK
  <2> QED
    BY <2>1, <2>2
<1>4. CASE PerformEnter(call, rest) \/ PerformReenter(call, rest) \/ PerformLeave(call, rest)
           \/ PerformPublish(call, rest) \/ PerformSync(call, rest) \/ PerformHost(call, rest)
  <2>1. /\ frames' \in [States -> Seq(Frame)] /\ todo' \in Seq(Call)
        /\ profile' \in [States -> Executions] /\ profileThread' \in States \cup {NoState}
    BY <1>1, <1>3, <1>4, StackCallTypes
  <2>2. UNCHANGED <<status, chain, hooks, pending, timer, armed, bridge, recorder, expired>>
    BY <1>4 DEF PerformEnter, PerformReenter, PerformLeave, PerformPublish, PerformSync,
       PerformHost, vm
  <2> QED
    BY <2>1, <2>2, <1>b DEF TypeOK, bridge, recorder
<1>5. CASE PerformHooks(call, rest) \/ PerformFree(call, rest) \/ PerformAllocate(call, rest)
  <2>1. Do("sync", call.state) \in Call
    BY <1>2, CallTypes DEF Ops
  <2>2. <<Do("sync", call.state)>> \o rest \in Seq(Call)
    BY <1>1, <2>1, CatProperties
  <2>3. (IF hooks.memory /\ workDepth = 0 THEN <<Do("begin", Main), Do("end", Main)>>
         ELSE <<>>) \o rest \in Seq(Call)
    BY <1>1, HandoverTypes, CatProperties
  <2>4. CASE PerformHooks(call, rest)
    BY <2>2, <2>4, <1>b DEF PerformHooks, TypeOK, vm, bridge, recorder
  <2>5. CASE PerformFree(call, rest)
    BY <1>1, <1>2, <2>5, <1>b DEF PerformFree, TypeOK, patch, bridge, recorder
  <2>6. CASE PerformAllocate(call, rest)
    BY <2>3, <2>6, <1>b DEF PerformAllocate, TypeOK, vm, patch, bridge, recorder
  <2> QED
    BY <1>5, <2>4, <2>5, <2>6
<1>6. CASE PerformBegin(call, rest) \/ PerformEnd(call, rest)
  <2>1. BeginDrain(timer) \in Timer /\ EndDrain(timer) \in Timer /\ timer \in Timer
    BY TimerTypes DEF TypeOK
  <2>2. CASE PerformBegin(call, rest)
    <3>1. frames' \in [States -> Seq(Frame)]
      <4>1. CASE call.op = "begin"
        BY <2>2, <4>1 DEF PerformBegin, TypeOK
      <4>2. CASE call.op = "guard"
        <5> DEFINE s == frames[call.state]
                   t == [s EXCEPT ![Len(s)].work = TRUE]
        <5>1. s \in Seq(Frame) /\ s # <<>>
          BY <1>2, <1>3, <4>2 DEF Ready, TypeOK
        <5>2. \A frame \in Frame : [frame EXCEPT !.work = TRUE] \in Frame
          BY DEF Frame
        <5>3. t \in Seq(Frame)
          <6> HIDE DEF s
          <6> QED
            BY <5>1, <5>2
        <5>4. frames' = [frames EXCEPT ![call.state] = t]
          BY <2>2, <4>2, <1>2 DEF PerformBegin, TypeOK
        <5> HIDE DEF t
        <5> QED
          BY <5>3, <5>4, <1>2 DEF TypeOK
      <4> QED
        BY <2>2, <4>1, <4>2 DEF PerformBegin
    <3>2. workDepth' \in Nat /\ timer' \in Timer
      BY SMTT(30), <2>1, <2>2 DEF PerformBegin, TypeOK
    <3> QED
      BY <1>1, <1>b, <2>2, <3>1, <3>2 DEF PerformBegin, TypeOK, patch, recorder
  <2>3. CASE PerformEnd(call, rest)
    BY <2>1, <2>3, <1>1, <1>b DEF PerformEnd, TypeOK, vm, patch, recorder
  <2> QED
    BY <1>6, <2>2, <2>3
<1>7. CASE PerformPublishSlot(call, rest) \/ PerformDrain(call, rest) \/ PerformQuality(call, rest)
  <2>1. [state |-> call.state, vm |-> call.vm, cfunction |-> call.cfunction] \in Slot
    BY <1>1 DEF Call, Slot
  <2>2. /\ timer \in Timer /\ OpenSlot(timer) \in Timer /\ TakeQuality(timer) \in Timer
        /\ CloseSlot(timer, [state |-> call.state, vm |-> call.vm,
                             cfunction |-> call.cfunction]) \in Timer
        /\ timer.events # <<>> => TakeEvent(timer) \in Timer
    BY <2>1, TimerTypes DEF TypeOK
  <2>3. CASE PerformPublishSlot(call, rest)
    BY <1>1, <1>b, <2>2, <2>3 DEF PerformPublishSlot, TypeOK, vm, patch, bridge, recorder
  <2>4. CASE PerformDrain(call, rest)
    <3>1. timer' \in Timer /\ todo' \in Seq(Call)
      BY <1>1, <2>2, <2>4 DEF PerformDrain, TypeOK
    <3>2. stats' \in [samples: Nat, lost: Nat, overrunTicks: Nat]
      BY <2>4 DEF PerformDrain, TypeOK
    <3> QED
      BY <1>b, <2>4, <3>1, <3>2 DEF PerformDrain, TypeOK, vm, patch, bridge
  <2>5. CASE PerformQuality(call, rest)
    <3>1. stats' \in [samples: Nat, lost: Nat, overrunTicks: Nat]
      <4>1. /\ timer.dropped \in Nat /\ timer.unstable \in Nat /\ timer.overhead \in Nat
            /\ timer.overrunTicks \in Nat
        BY <2>2 DEF Timer
      <4>2. /\ stats \in [samples: Nat, lost: Nat, overrunTicks: Nat]
            /\ stats.lost \in Nat /\ stats.overrunTicks \in Nat
        BY DEF TypeOK
      <4> DEFINE lost == stats.lost + timer.dropped + timer.unstable + timer.overhead
                 over == stats.overrunTicks + timer.overrunTicks
      <4>3. lost \in Nat /\ over \in Nat
        <5> DEFINE i == stats.lost
                   j == timer.dropped
                   k == timer.unstable
                   l == timer.overhead
                   m == stats.overrunTicks
                   n == timer.overrunTicks
        <5>1. /\ i \in Nat /\ j \in Nat /\ k \in Nat /\ l \in Nat /\ m \in Nat /\ n \in Nat
              /\ lost = i + j + k + l /\ over = m + n
          BY <4>1, <4>2
        <5> HIDE DEF i, j, k, l, m, n, lost, over
        <5> QED
          BY <5>1
      <4>4. stats' = IF recording THEN [stats EXCEPT !.lost = lost, !.overrunTicks = over]
                     ELSE stats
        BY <2>5 DEF PerformQuality
      <4> HIDE DEF lost, over
      <4> QED
        BY <4>2, <4>3, <4>4
    <3> QED
      BY <1>1, <1>b, <2>2, <2>5, <3>1 DEF PerformQuality, TypeOK, vm, patch, bridge
  <2> QED
    BY <1>7, <2>3, <2>4, <2>5
<1>8. CASE PerformActivate(call, rest) \/ PerformDeactivate(call, rest) \/ PerformMemory(call, rest)
           \/ PerformFinish(call, rest) \/ PerformDelete(call, rest) \/ PerformRelease(call, rest)
  <2>1. NewTimer \in Timer /\ timer \in Timer /\ EndDrain(timer) \in Timer
    BY TimerTypes DEF TypeOK
  <2>2. CASE PerformActivate(call, rest)
    BY <1>1, <1>b, <2>1, <2>2 DEF PerformActivate, TypeOK, vm, patch
  <2>3. CASE PerformDeactivate(call, rest)
    BY <1>1, <1>b, <2>1, <2>3 DEF PerformDeactivate, TypeOK, vm, patch, recorder
  <2>4. CASE PerformMemory(call, rest)
    BY <1>1, <1>b, <2>1, <2>4 DEF PerformMemory, TypeOK, vm, patch, recorder
  <2>5. CASE PerformFinish(call, rest)
    BY <1>1, <1>b, <2>1, <2>5 DEF PerformFinish, TypeOK, vm, patch, bridge
  <2>6. CASE PerformDelete(call, rest)
    BY <1>1, <1>b, <2>1, <2>6 DEF PerformDelete, TypeOK, vm, patch, bridge, recorder
  <2>7. CASE PerformRelease(call, rest)
    BY <1>1, <1>b, <2>1, <2>7 DEF PerformRelease, TypeOK, vm, patch, bridge, recorder
  <2> QED
    BY <1>8, <2>2, <2>3, <2>4, <2>5, <2>6, <2>7
<1>9. CASE PerformArm(call, rest)
  <2>1. [timer EXCEPT !.active = TRUE] \in Timer /\ timer \in Timer
    BY TimerTypes DEF TypeOK
  <2>2. /\ Do("release", call.state) \in Call /\ Do("hooks", call.state) \in Call
        /\ Do("delete", call.state) \in Call /\ Do("finish", call.state) \in Call
    BY <1>2, CallTypes DEF Ops
  <2>3. /\ <<Do("release", call.state)>> \o rest \in Seq(Call)
        /\ <<Do("hooks", call.state), Do("delete", call.state), Do("finish", call.state)>>
              \o rest \in Seq(Call)
    BY <1>1, <2>2, CatProperties
  <2> QED
    BY <1>9, <1>b, <2>1, <2>3 DEF PerformArm, TypeOK, vm, patch, recorder
<1>10. CASE PerformDisarm(call, rest)
  <2>a. timer \in Timer /\ FALSE \in BOOLEAN
    BY DEF TypeOK
  <2>1. [timer EXCEPT !.active = FALSE] \in Timer
    BY <2>a, TimerTypes
  <2>b. \A n \in 0 .. MaxOverrun : n \in Nat
    BY BoundsAssumption
  <2> DEFINE stopped == [timer EXCEPT !.active = FALSE]
  <2>2. \A n \in 0 .. MaxOverrun : Discard(stopped, n) \in Timer
    BY <2>1, <2>b, DiscardCounts DEF Counted
  <2>3. \/ timer' = stopped /\ expired' = expired
        \/ \E n \in 0 .. MaxOverrun : timer' = Discard(stopped, n) /\ expired' = expired + 1 + n
    BY <1>10 DEF PerformDisarm
  <2> HIDE DEF stopped
  <2>4. timer' \in Timer
    BY <2>1, <2>2, <2>3 DEF stopped
  <2>5. expired' \in Nat
    BY <2>b, <2>3 DEF TypeOK
  <2> QED
    BY <1>1, <1>10, <1>b, <2>4, <2>5 DEF PerformDisarm, TypeOK, vm, patch, bridge, recorder
<1> QED
  BY <1>4, <1>5, <1>6, <1>7, <1>8, <1>9, <1>10 DEF Perform, Disarm, call, rest


------------------------------------------------------------------------------
(* What the application's actions put in todo.  VmOps are the operations that *)
(* leave the recorder alone.                                                   *)

VmOps == {"enter", "leave", "reenter", "publish", "sync", "host", "begin", "end",
          "guard", "drain", "quality", "free", "allocate"}
VmCall == {c \in Call : c.op \in VmOps}
AppCall == {c \in Call : c.op \notin {"open", "shut"}}

LEMMA VmCalls ==
    ASSUME NEW op \in VmOps, NEW L \in States
    PROVE  /\ Do(op, L) \in VmCall
           /\ \A kind \in VmStates, f \in Functions \cup {NoFunction} :
                DoAs(op, L, kind, f) \in VmCall
BY CallTypes DEF VmOps, Ops, VmCall, Do, DoAs

LEMMA FunctionFacts ==
    /\ Work \cup {PCall, Resume, Yield, CloseThread, Api, GuardClose}
          \subseteq Functions \cup {NoFunction}
    /\ NoFunction \in Functions \cup {NoFunction}
    /\ "lua" \in VmStates /\ "c" \in VmStates /\ "gc" \in VmStates /\ "host" \in VmStates
BY FunctionsAssumption DEF VmStates

LEMMA GuardsFinite ==
    ASSUME NEW stack \in Seq(Frame)
    PROVE  /\ IsFiniteSet(Guards(stack)) /\ Cardinality(Guards(stack)) \in Nat
           /\ Guards(stack) \subseteq 1 .. Len(stack)
<1>1. Guards(stack) \subseteq 1 .. Len(stack) /\ Len(stack) \in Nat
  BY DEF Guards
<1>2. IsFiniteSet(1 .. Len(stack))
  BY <1>1, FS_Interval
<1>3. IsFiniteSet(Guards(stack))
  BY <1>1, <1>2, FS_Subset
<1> QED
  BY <1>1, <1>3, FS_CardinalityType

\* A sequence over one set of calls is one over any set that has them.
LEMMA SeqWithin == ASSUME NEW A, NEW B, A \subseteq B, NEW s \in Seq(A) PROVE s \in Seq(B)
OBVIOUS

LEMMA ElementOf == ASSUME NEW S, NEW s \in Seq(S), NEW k \in 1 .. Len(s) PROVE s[k] \in S
OBVIOUS

LEMMA CloseGuardsWithin ==
    ASSUME NEW L \in States, NEW stack \in Seq(Frame), NEW C,
           DoAs("enter", L, "c", GuardClose) \in C, Do("end", L) \in C, Do("leave", L) \in C
    PROVE  CloseGuards(L, stack) \in Seq(C)
<1> DEFINE n == 3 * Cardinality(Guards(stack))
<1>1. n \in Nat
  BY GuardsFinite
<1>2. CloseGuard(L) \in Seq(C) /\ Len(CloseGuard(L)) = 3
  BY DEF CloseGuard
<1>3. ASSUME NEW i \in 1 .. n PROVE CloseGuard(L)[((i - 1) % 3) + 1] \in C
  <2> DEFINE k == ((i - 1) % 3) + 1
  <2>1. k \in 1 .. 3
    BY <1>1
  <2> HIDE DEF k
  <2>2. \A s \in Seq(C) : Len(s) = 3 => s[k] \in C
    BY <2>1, ElementOf
  <2> QED
    BY <1>2, <2>2 DEF k
<1>4. CloseGuards(L, stack) = [i \in 1 .. n |-> CloseGuard(L)[((i - 1) % 3) + 1]]
  BY DEF CloseGuards
<1> HIDE DEF n
<1> QED
  BY <1>1, <1>3, <1>4

\* The lua_State that runs, and those that wait for it.
LEMMA ChainStates ==
    ASSUME TypeOK
    PROVE  /\ Running \in States /\ Main \in States
           /\ chain # <<>> => /\ Running = Last(chain) /\ Running = chain[Len(chain)]
                              /\ Front(chain) \in Seq(States) /\ Len(chain) \in Nat \ {0}
                              /\ Len(Front(chain)) = Len(chain) - 1
                              /\ \A i \in 1 .. Len(chain) - 1 : Front(chain)[i] = chain[i]
           /\ chain # <<>> /\ Front(chain) # <<>> =>
                  /\ Last(Front(chain)) \in States
                  /\ Len(chain) - 1 \in 1 .. Len(chain)
                  /\ Last(Front(chain)) = chain[Len(chain) - 1]
<1>1. chain \in Seq(States)
  BY DEF TypeOK
<1>2. chain # <<>> => /\ Front(chain) \in Seq(States) /\ Len(Front(chain)) = Len(chain) - 1
                      /\ \A i \in 1 .. Len(chain) - 1 : Front(chain)[i] = chain[i]
                      /\ Last(chain) \in States /\ Last(chain) = chain[Len(chain)]
                      /\ Len(chain) \in Nat \ {0}
  BY <1>1, FrontProperties
<1>3. chain # <<>> /\ Front(chain) # <<>> =>
          /\ Last(Front(chain)) \in States
          /\ Last(Front(chain)) = Front(chain)[Len(Front(chain))]
          /\ Len(Front(chain)) \in Nat \ {0}
  BY <1>2, FrontProperties
<1>4. chain # <<>> /\ Front(chain) # <<>> =>
          /\ Len(chain) - 1 \in 1 .. Len(chain) /\ Len(chain) - 1 \in 1 .. Len(chain) - 1
  BY <1>2, <1>3
<1> QED
  BY <1>2, <1>3, <1>4, MainAssumption DEF Running

\* Every call of an action is one the VM makes; only the functions of the module
\* reach the recorder.
RecorderAction == CpuStart \/ CpuStop \/ MemoryToggle \/ FinalizeRecorder

LEMMA FirstBelowEach ==
    ASSUME NEW n \in Nat, NEW T \in SUBSET (0 .. n), T # {}
    PROVE  LET m == CHOOSE i \in T : \A j \in T : j <= i
           IN  m \in T /\ m \in 0 .. n /\ \A j \in T : j <= m
BY Maximum

\* The frames that an error keeps, and those that it unwinds.
Catchers(L) == {0} \cup {i \in DOMAIN frames[L] : frames[L][i].cfunction = PCall}
Catcher(L) == CHOOSE i \in Catchers(L) : \A j \in Catchers(L) : j <= i
Kept(L) == SubSeq(frames[L], 1, Catcher(L))
Unwound(L) == SubSeq(frames[L], Catcher(L) + 1, Len(frames[L]))

LEMMA ThrowSplits ==
    ASSUME TypeOK, NEW L \in States
    PROVE  /\ Catcher(L) \in 0 .. Len(frames[L]) /\ Len(frames[L]) \in Nat
           /\ Catcher(L) # 0 => frames[L][Catcher(L)].cfunction = PCall
           /\ Kept(L) \in Seq(Frame) /\ Len(Kept(L)) = Catcher(L)
           /\ \A i \in 1 .. Catcher(L) : Kept(L)[i] = frames[L][i]
           /\ Unwound(L) \in Seq(Frame)
           /\ Len(Unwound(L)) = Len(frames[L]) - Catcher(L)
           /\ \A i \in 1 .. Len(frames[L]) - Catcher(L) :
                Unwound(L)[i] = frames[L][Catcher(L) + i]
<1> DEFINE stack == frames[L]
           n == Len(stack)
<1>1. stack \in Seq(Frame) /\ n \in Nat
  BY DEF TypeOK
<1>2. Catchers(L) \in SUBSET (0 .. n) /\ Catchers(L) # {}
  BY <1>1 DEF Catchers
<1>3. Catcher(L) \in Catchers(L) /\ Catcher(L) \in 0 .. n
  <2> HIDE DEF n
  <2> QED
    BY <1>1, <1>2, FirstBelowEach DEF Catcher
<1>4. Catcher(L) # 0 => stack[Catcher(L)].cfunction = PCall
  BY <1>3 DEF Catchers
<1> DEFINE c == Catcher(L)
<1>5. c \in 0 .. n
  BY <1>3
<1> HIDE DEF c
<1>6. /\ SubSeq(stack, 1, c) \in Seq(Frame) /\ Len(SubSeq(stack, 1, c)) = c
      /\ \A i \in 1 .. c : SubSeq(stack, 1, c)[i] = stack[i]
  BY <1>1, <1>5, PrefixProperties
<1>7. \A i \in c + 1 .. n : stack[i] \in Frame
  BY <1>1, <1>5
<1>8. c + 1 \in Int /\ n \in Int
  BY <1>1, <1>5
<1>9. /\ SubSeq(stack, c + 1, n) \in Seq(Frame)
      /\ Len(SubSeq(stack, c + 1, n)) = IF c + 1 <= n THEN n - (c + 1) + 1 ELSE 0
      /\ \A i \in 1 .. n - (c + 1) + 1 : SubSeq(stack, c + 1, n)[i] = stack[c + 1 + i - 1]
  BY <1>7, <1>8, SubSeqProperties
<1>10. Len(SubSeq(stack, c + 1, n)) = n - c
  BY <1>1, <1>5, <1>9
<1>11. \A i \in 1 .. n - c : SubSeq(stack, c + 1, n)[i] = stack[c + i]
  <2> TAKE i \in 1 .. n - c
  <2>1. i \in 1 .. n - (c + 1) + 1 /\ c + 1 + i - 1 = c + i
    BY <1>1, <1>5
  <2> QED
    BY <1>9, <2>1
<1> HIDE DEF stack, n
<1> QED
  BY <1>1, <1>3, <1>4, <1>6, <1>9, <1>10, <1>11 DEF c, Kept, Unwound, stack, n

LEMMA ThrowDoes ==
    ASSUME TypeOK, Throw
    PROVE  LET L == Running
               from == Front(chain) IN
           /\ chain # <<>> /\ frames[L] # <<>> /\ Top(L).cfunction \in Work \cup {Api}
           /\ AfterVm /\ Idle
           /\ \/ /\ L = Main
                 /\ frames' = [frames EXCEPT ![L] = Kept(L)]
                 /\ chain' = IF Catcher(L) = 0 THEN from ELSE chain
                 /\ todo' = <<Do("host", L)>> \o CloseGuards(L, Unwound(L)) \o <<Do("sync", L)>>
                 /\ status' = status
              \/ /\ L # Main /\ Catcher(L) # 0
                 /\ frames' = [frames EXCEPT ![L] = Detach(Kept(L))]
                 /\ todo' = <<Do("host", L)>> \o CloseGuards(L, Unwound(L)) \o <<Do("reenter", L)>>
                 /\ status' = status /\ chain' = chain
              \/ /\ L # Main /\ Catcher(L) = 0
                 /\ status' = [status EXCEPT ![L] = "dead"]
                 /\ chain' = from
                 /\ todo' = <<Do("host", L), Do("host", L)>>
                             \o (IF from = <<>> THEN <<>> ELSE <<Do("sync", Last(from))>>)
                 /\ frames' = frames
BY DEF Throw, Catcher, Catchers, Kept, Unwound

\* The calls that open and close no work, and the actions that make only such calls.
CalmOps == VmOps \ {"begin", "end", "drain", "quality"}
CalmCall == {c \in Call : c.op \in CalmOps}

CalmAction ==
    \/ HostCall \/ CallLua \/ (\E f \in Work \cup {PCall, Api} : CallC(f))
    \/ Return \/ YieldCoroutine \/ Allocate
    \/ \E co \in States \ {Main} : Create(co) \/ ResumeCoroutine(co) \/ Collect(co)

LEMMA CalmTodo == ASSUME TypeOK, CalmAction PROVE todo' \in Seq(CalmCall)
<1> DEFINE L == Running
           from == Front(chain)
           Good == todo' \in Seq(CalmCall)
<1>1. L \in States /\ Main \in States
      /\ (chain # <<>> /\ from # <<>> => Last(from) \in States)
  BY ChainStates
<1> HIDE DEF L, from
<1>2. /\ \A X \in States : /\ Do("leave", X) \in CalmCall /\ Do("reenter", X) \in CalmCall
                           /\ Do("sync", X) \in CalmCall /\ Do("host", X) \in CalmCall
                           /\ Do("allocate", X) \in CalmCall /\ Do("guard", X) \in CalmCall
                           /\ Do("free", X) \in CalmCall
      /\ \A X \in States : /\ DoAs("enter", X, "lua", NoFunction) \in CalmCall
                           /\ DoAs("enter", X, "gc", NoFunction) \in CalmCall
                           /\ \A f \in Functions \cup {NoFunction} :
                                /\ DoAs("enter", X, "c", f) \in CalmCall
                                /\ DoAs("publish", X, "c", f) \in CalmCall
  <2>1. \A op \in CalmOps, X \in States :
            /\ Do(op, X) \in CalmCall
            /\ \A kind \in VmStates, f \in Functions \cup {NoFunction} : DoAs(op, X, kind, f) \in CalmCall
    BY VmCalls DEF CalmOps, CalmCall, VmCall, Do, DoAs
  <2>2. {"leave", "reenter", "sync", "host", "allocate", "guard", "free", "enter", "publish"}
           \subseteq CalmOps
    BY DEF CalmOps, VmOps
  <2> QED
    BY <2>1, <2>2, FunctionFacts
<1>3. CASE HostCall
  BY <1>1, <1>2, <1>3 DEF HostCall
<1>4. CASE CallLua
  BY <1>1, <1>2, <1>4 DEF CallLua, L
<1>5. ASSUME NEW f \in Work \cup {PCall, Api}, CallC(f) PROVE Good
  BY <1>5, <1>1, <1>2, FunctionFacts, CatProperties DEF CallC, L
<1>6. ASSUME Return PROVE Good
  <2>1. /\ <<Do("leave", L)>> \in Seq(CalmCall) /\ <<Do("reenter", L)>> \in Seq(CalmCall)
        /\ <<Do("leave", L), Do("sync", L)>> \in Seq(CalmCall)
        /\ <<Do("leave", L), Do("host", L)>> \in Seq(CalmCall)
        /\ chain # <<>> /\ from # <<>> => <<Do("sync", Last(from))>> \in Seq(CalmCall)
    BY <1>1, <1>2
  <2>2. chain # <<>> /\
        \/ todo' = <<Do("leave", L)>> \o <<>>
        \/ todo' = <<Do("leave", L)>> \o <<Do("reenter", L)>>
        \/ todo' = <<Do("leave", L), Do("sync", L)>>
        \/ todo' = <<Do("leave", L), Do("host", L)>>
                     \o (IF from = <<>> THEN <<>> ELSE <<Do("sync", Last(from))>>)
    BY <1>6 DEF Return, L, from
  <2>3. /\ <<Do("leave", L)>> \o <<>> \in Seq(CalmCall)
        /\ <<Do("leave", L)>> \o <<Do("reenter", L)>> \in Seq(CalmCall)
        /\ <<Do("leave", L), Do("host", L)>>
              \o (IF from = <<>> THEN <<>> ELSE <<Do("sync", Last(from))>>) \in Seq(CalmCall)
    BY <2>1, <2>2, CatProperties
  <2> QED
    BY <2>1, <2>2, <2>3
<1>7. ASSUME NEW co \in States, Create(co) PROVE Good
  BY <1>1, <1>2, <1>7 DEF Create, L
<1>8. ASSUME NEW co \in States, ResumeCoroutine(co) PROVE Good
  BY <1>8, <1>1, <1>2, FunctionFacts, CatProperties DEF ResumeCoroutine, L
<1>9. ASSUME YieldCoroutine PROVE Good
  BY <1>9, <1>1, <1>2, FunctionFacts, CatProperties DEF YieldCoroutine, RunsLua, L, from
<1>10. ASSUME NEW co \in States, Collect(co) PROVE Good
  BY <1>1, <1>2, <1>10 DEF Collect, L
<1>11. CASE Allocate
  BY <1>1, <1>2, <1>11 DEF Allocate, L
<1> QED
  BY <1>3, <1>4, <1>5, <1>6, <1>7, <1>8, <1>9, <1>10, <1>11 DEF CalmAction

LEMMA AppTodo ==
    ASSUME TypeOK, Application
    PROVE  /\ ~RecorderAction => todo' \in Seq(VmCall)
           /\ todo' \in Seq(AppCall) /\ todo' \in Seq(Call)
<1> DEFINE L == Running
           from == Front(chain)
           Good == todo' \in Seq(VmCall)
<1>1. VmCall \subseteq AppCall /\ AppCall \subseteq Call
  BY DEF VmCall, AppCall, VmOps
<1>2. Good => todo' \in Seq(AppCall)
  BY <1>1, SeqWithin
<1>3. todo' \in Seq(AppCall) => todo' \in Seq(Call)
  BY <1>1, SeqWithin
<1>4. L \in States /\ Main \in States
      /\ (chain # <<>> /\ from # <<>> => Last(from) \in States)
      /\ frames \in [States -> Seq(Frame)]
  BY ChainStates DEF TypeOK
<1> HIDE DEF L, from
<1>5. /\ \A X \in States : /\ Do("leave", X) \in VmCall /\ Do("reenter", X) \in VmCall
                           /\ Do("sync", X) \in VmCall /\ Do("host", X) \in VmCall
                           /\ Do("allocate", X) \in VmCall /\ Do("end", X) \in VmCall
                           /\ Do("guard", X) \in VmCall /\ Do("free", X) \in VmCall
                           /\ Do("begin", X) \in VmCall /\ Do("drain", X) \in VmCall
                           /\ Do("quality", X) \in VmCall
      /\ \A X \in States : /\ DoAs("enter", X, "lua", NoFunction) \in VmCall
                           /\ DoAs("enter", X, "gc", NoFunction) \in VmCall
                           /\ \A f \in Functions \cup {NoFunction} :
                                /\ DoAs("enter", X, "c", f) \in VmCall
                                /\ DoAs("publish", X, "c", f) \in VmCall
  BY VmCalls, FunctionFacts DEF VmOps
<1>6. ASSUME NEW X \in States, NEW stack \in Seq(Frame)
      PROVE  CloseGuards(X, stack) \in Seq(VmCall)
  BY <1>5, FunctionFacts, CloseGuardsWithin
<1>7. ASSUME CalmAction PROVE Good
  BY <1>7, CalmTodo, SeqWithin DEF CalmCall, CalmOps, VmCall
<1>8. ASSUME Throw PROVE Good
  <2>1. /\ chain # <<>>
        /\ \/ todo' = <<Do("host", L)>> \o CloseGuards(L, Unwound(L)) \o <<Do("sync", L)>>
           \/ todo' = <<Do("host", L)>> \o CloseGuards(L, Unwound(L)) \o <<Do("reenter", L)>>
           \/ todo' = <<Do("host", L), Do("host", L)>>
                         \o (IF from = <<>> THEN <<>> ELSE <<Do("sync", Last(from))>>)
    BY <1>8, ThrowDoes DEF L, from
  <2>2. /\ <<Do("host", L)>> \in Seq(VmCall) /\ <<Do("sync", L)>> \in Seq(VmCall)
        /\ <<Do("reenter", L)>> \in Seq(VmCall) /\ <<Do("host", L), Do("host", L)>> \in Seq(VmCall)
        /\ (from # <<>> => <<Do("sync", Last(from))>> \in Seq(VmCall)) /\ <<>> \in Seq(VmCall)
    BY <1>4, <1>5, <2>1
  <2>3. CloseGuards(L, Unwound(L)) \in Seq(VmCall)
    BY <1>4, <1>6, ThrowSplits
  <2>4. /\ <<Do("host", L)>> \o CloseGuards(L, Unwound(L)) \o <<Do("sync", L)>> \in Seq(VmCall)
        /\ <<Do("host", L)>> \o CloseGuards(L, Unwound(L)) \o <<Do("reenter", L)>> \in Seq(VmCall)
    BY <2>2, <2>3, CatProperties
  <2>5. <<Do("host", L), Do("host", L)>>
           \o (IF from = <<>> THEN <<>> ELSE <<Do("sync", Last(from))>>) \in Seq(VmCall)
    BY <2>2, CatProperties
  <2> QED
    BY <2>1, <2>4, <2>5
<1>9. ASSUME NEW co \in States, CloseCoroutine(co) PROVE Good
  BY <1>9, <1>4, <1>5, FunctionFacts, <1>6, CatProperties DEF CloseCoroutine, L
<1>10. ASSUME SafePoint PROVE Good
  BY <1>4, <1>5, <1>10 DEF SafePoint
<1>11. ApiReturn(L) \in Seq(VmCall)
  BY <1>4, <1>5, FunctionFacts, CatProperties DEF CloseGuard, ApiReturn
<1>12. ASSUME ApiOther PROVE Good
  BY <1>4, <1>5, <1>12, <1>11, CatProperties DEF ApiOther, L
<1>13. ASSUME RecorderAction PROVE todo' \in Seq(AppCall)
  <2>1. \A op \in Ops \ {"open", "shut"} : Do(op, L) \in AppCall
    BY <1>4, CallTypes DEF AppCall, Do
  <2>2. /\ <<Do("activate", L), Do("hooks", L), Do("arm", L)>> \in Seq(AppCall)
        /\ <<Do("memory", L), Do("hooks", L)>> \in Seq(AppCall)
        /\ StopCpu(L) \in Seq(AppCall) /\ <<Do("leave", L)>> \in Seq(AppCall)
    BY <2>1 DEF StopCpu, Ops
  <2>3. <<DoAs("enter", L, "gc", NoFunction), DoAs("enter", L, "c", Api), Do("guard", L)>>
           \in Seq(AppCall)
    BY <1>1, <1>4, <1>5, FunctionFacts
  <2>4. ApiReturn(L) \in Seq(AppCall)
    BY <1>1, <1>11, SeqWithin
  <2>5. CASE CpuStart
    BY <2>2, <2>4, <2>5, CatProperties DEF CpuStart, L
  <2>6. CASE CpuStop
    BY <2>2, <2>4, <2>6, CatProperties DEF CpuStop, L
  <2>7. CASE MemoryToggle
    BY <2>2, <2>4, <2>7, CatProperties DEF MemoryToggle, L
  <2>8. CASE FinalizeRecorder
    BY <2>8, <2>2, <2>3, <2>4, CatProperties DEF FinalizeRecorder, L
  <2> QED
    BY <1>13, <2>5, <2>6, <2>7, <2>8 DEF RecorderAction
<1> HIDE DEF Good
<1>14. RecorderAction \/ Good
  BY <1>7, <1>8, <1>9, <1>10, <1>12 DEF Application, RecorderAction, CalmAction
<1> QED
  BY <1>2, <1>3, <1>13, <1>14 DEF Good

LEMMA DetachDoes ==
    ASSUME NEW s \in Seq(Frame)
    PROVE  /\ Detach(s) \in Seq(Frame) /\ Len(Detach(s)) = Len(s)
           /\ \A i \in 1 .. Len(s) : Detach(s)[i] = [s[i] EXCEPT !.attached = FALSE]
<1>1. \A frame \in Frame : [frame EXCEPT !.attached = FALSE] \in Frame
  BY DEF Frame
<1>2. DOMAIN s = 1 .. Len(s) /\ Len(s) \in Nat /\ \A i \in 1 .. Len(s) : s[i] \in Frame
  OBVIOUS
<1>3. Detach(s) = [i \in 1 .. Len(s) |-> [s[i] EXCEPT !.attached = FALSE]]
  BY <1>2 DEF Detach
<1>4. \A i \in 1 .. Len(s) : [s[i] EXCEPT !.attached = FALSE] \in Frame
  BY <1>1, <1>2
<1> QED
  BY <1>2, <1>3, <1>4

\* What an action of the application leaves alone, apart from the VM itself.
LEMMA ApplicationFrame ==
    ASSUME Application
    PROVE  /\ UNCHANGED <<hooks, profileThread, timer, armed, bridge, recorder, expired, ticks>>
           /\ pending' = pending \/ (SafePoint /\ pending' = 0)
           /\ profile' = profile \/ \E co \in States \ {Main} : Create(co)
           /\ Idle
<1> USE DEF AfterVm, patch, bounds
<1>1. CASE HostCall \/ CallLua \/ (\E f \in Work \cup {PCall, Api} : CallC(f)) \/ Return
  BY <1>1 DEF HostCall, CallLua, CallC, Return
<1>2. CASE YieldCoroutine \/ Throw \/ Allocate \/ SafePoint
  BY <1>2 DEF YieldCoroutine, Throw, Allocate, SafePoint
<1>3. ASSUME NEW co \in States \ {Main}, Create(co)
      PROVE  /\ UNCHANGED <<hooks, profileThread, timer, armed, bridge, recorder, expired, ticks>>
             /\ pending' = pending /\ Idle
  BY <1>3 DEF Create
<1>4. ASSUME NEW co \in States \ {Main}, ResumeCoroutine(co) \/ CloseCoroutine(co) \/ Collect(co)
      PROVE  /\ UNCHANGED <<hooks, profileThread, timer, armed, bridge, recorder, expired, ticks>>
             /\ pending' = pending /\ Idle /\ profile' = profile
  BY <1>4 DEF ResumeCoroutine, CloseCoroutine, Collect
<1>5. CASE CpuStart \/ CpuStop \/ MemoryToggle \/ ApiOther \/ FinalizeRecorder
  BY <1>5 DEF CpuStart, CpuStop, MemoryToggle, ApiOther, FinalizeRecorder, InApi
<1> QED
  BY <1>1, <1>2, <1>3, <1>4, <1>5 DEF Application

LEMMA ApplicationTypes == ASSUME TypeOK, Application PROVE TypeOK'
<1>1. todo' \in Seq(Call)
  BY AppTodo
<1>2. /\ UNCHANGED <<hooks, profileThread, timer, armed, bridge, recorder, expired, ticks>>
      /\ pending' \in Nat
  BY ApplicationFrame DEF TypeOK
<1>3. Running \in States /\ Main \in States /\ (chain # <<>> => Front(chain) \in Seq(States))
  BY ChainStates
<1> DEFINE Good == /\ status' \in [States -> {"free", "suspended", "running", "dead"}]
                   /\ chain' \in Seq(States) /\ frames' \in [States -> Seq(Frame)]
                   /\ profile' \in [States -> Executions] /\ sessions' \in Nat
<1> USE DEF AfterVm, patch, bounds, vm, TypeOK
<1>4. ASSUME HostCall \/ CallLua \/ (\E f \in Work \cup {PCall, Api} : CallC(f)) PROVE Good
  <2>1. /\ UNCHANGED <<status, frames, profile, sessions>>
        /\ chain' = chain \/ chain' = <<Main>>
    BY <1>4 DEF HostCall, CallLua, CallC
  <2>2. <<Main>> \in Seq(States)
    BY <1>3
  <2> QED
    BY <2>1, <2>2
<1>5. ASSUME Return PROVE Good
  BY <1>5, <1>3 DEF Return
<1>6. ASSUME Allocate \/ SafePoint PROVE Good
  BY <1>6 DEF Allocate, SafePoint
<1>7. ASSUME NEW co \in States \ {Main}, Create(co) PROVE Good
  BY <1>7 DEF Host, Executions, VmStates, Create
<1>8. ASSUME NEW co \in States \ {Main}, ResumeCoroutine(co) PROVE Good
  BY <1>8 DEF ResumeCoroutine
<1>9. ASSUME NEW co \in States \ {Main}, CloseCoroutine(co) PROVE Good
  BY <1>9 DEF CloseCoroutine
<1>10. ASSUME NEW co \in States \ {Main}, Collect(co) PROVE Good
  BY <1>10 DEF Collect
<1>11. ASSUME YieldCoroutine PROVE Good
  BY <1>3, DetachDoes, <1>11 DEF YieldCoroutine, RunsLua
<1>12. ASSUME Throw PROVE Good
  <2>1. Kept(Running) \in Seq(Frame) /\ Detach(Kept(Running)) \in Seq(Frame)
    BY <1>3, ThrowSplits, DetachDoes
  <2>2. /\ chain # <<>> /\ (chain' = chain \/ chain' = Front(chain))
        /\ status' = status \/ status' = [status EXCEPT ![Running] = "dead"]
        /\ \/ frames' = [frames EXCEPT ![Running] = Kept(Running)]
           \/ frames' = [frames EXCEPT ![Running] = Detach(Kept(Running))]
           \/ frames' = frames
        /\ UNCHANGED <<profile, sessions>>
    BY <1>12, ThrowDoes
  <2> QED
    BY ZenonT(60), <1>3, <2>1, <2>2
<1>13. ASSUME CpuStart \/ CpuStop \/ MemoryToggle \/ ApiOther \/ FinalizeRecorder PROVE Good
  BY SMTT(30), <1>13 DEF CpuStart, CpuStop, MemoryToggle, ApiOther, FinalizeRecorder
<1> HIDE DEF TypeOK
<1>14. Good
  BY <1>4, <1>5, <1>6, <1>7, <1>8, <1>9, <1>10, <1>11, <1>12, <1>13 DEF Application
<1> QED
  BY <1>1, <1>2, <1>14 DEF TypeOK, bridge, recorder

LEMMA TickTypes ==
    ASSUME TypeOK, NEW overrun \in 0 .. MaxOverrun, Tick(overrun), timer.active
    PROVE  TypeOK'
<1>1. overrun \in Nat /\ timer \in Timer
  BY BoundsAssumption DEF TypeOK
<1>2. timer' \in Timer
  BY <1>1, HandleCounts DEF Tick, Counted
<1>3. expired' \in Nat /\ ticks' \in Nat /\ pending' \in Nat
  BY <1>1 DEF Tick, TypeOK
<1> QED
  BY <1>2, <1>3 DEF Tick, TypeOK, vm, bridge, recorder

LEMMA InitTypes == Init => TypeOK
<1> SUFFICES ASSUME Init PROVE TypeOK
  OBVIOUS
<1>1. Host \in Executions /\ <<>> \in Seq(Frame) /\ <<>> \in Seq(States) /\ <<>> \in Seq(Call)
  BY DEF Host, Executions, VmStates
<1>2. NewTimer \in Timer
  BY DEF NewTimer, Timer, Slot, VmStates
<1> QED
  BY <1>1, <1>2 DEF Init, TypeOK

------------------------------------------------------------------------------
(* Longer runs: calls that change nothing, and the closing of several guards. *)

LEMMA RunSteady ==
    ASSUME NEW T, NEW C, NEW s \in Seq(C), NEW a, \A c \in C : <<a, c, a>> \in T
    PROVE  Run(T, s, a, a)
<1> DEFINE g == [i \in 1 .. Len(s) + 1 |-> a]
<1>1. Len(s) \in Nat /\ \A i \in 1 .. Len(s) : s[i] \in C
  OBVIOUS
<1>2. g[1] = a /\ g[Len(s) + 1] = a /\ \A i \in 1 .. Len(s) : g[i] = a /\ g[i + 1] = a
  BY <1>1
<1>3. \A i \in 1 .. Len(s) : <<g[i], s[i], g[i + 1]>> \in T
  <2> HIDE DEF g
  <2> QED
    BY <1>1, <1>2
<1> HIDE DEF g
<1> QED
  BY <1>2, <1>3 DEF Run

LEMMA Thirds ==
    ASSUME NEW n \in Nat, NEW i \in 1 .. 3 * n
    PROVE  \E k \in 0 .. n - 1 :
              \/ i = 3 * k + 1 /\ (i - 1) % 3 = 0
              \/ i = 3 * k + 2 /\ (i - 1) % 3 = 1
              \/ i = 3 * k + 3 /\ (i - 1) % 3 = 2
<1> DEFINE k == (i - 1) \div 3
           r == (i - 1) % 3
<1>1. k \in Int /\ r \in 0 .. 2 /\ i - 1 = 3 * k + r
  OBVIOUS
<1> HIDE DEF k, r
<1>2. k \in 0 .. n - 1
  BY <1>1
<1>3. r = 0 \/ r = 1 \/ r = 2
  BY <1>1
<1> QED
  BY <1>1, <1>2, <1>3 DEF r

\* The three calls that close a guard, n times over.
LEMMA RunCycle ==
    ASSUME NEW T, NEW n \in Nat, NEW x, NEW y, NEW z, NEW P, NEW Q, NEW R,
           \A k \in 0 .. n - 1 : /\ <<P[k], x, Q[k]>> \in T /\ <<Q[k], y, R[k]>> \in T
                                 /\ <<R[k], z, P[k + 1]>> \in T
    PROVE  Run(T, [i \in 1 .. 3 * n |-> <<x, y, z>>[((i - 1) % 3) + 1]], P[0], P[n])
<1> DEFINE s == [i \in 1 .. 3 * n |-> <<x, y, z>>[((i - 1) % 3) + 1]]
           m == 3 * n
           g == [i \in 1 .. m + 1 |-> IF \E k \in 0 .. n : i = 3 * k + 1
                                      THEN P[CHOOSE k \in 0 .. n : i = 3 * k + 1]
                                      ELSE IF \E k \in 0 .. n : i = 3 * k + 2
                                      THEN Q[CHOOSE k \in 0 .. n : i = 3 * k + 2]
                                      ELSE R[CHOOSE k \in 0 .. n : i = 3 * k + 3]]
<1>1. m \in Nat /\ Len(s) = m
  OBVIOUS
<1>2. ASSUME NEW k \in 0 .. n PROVE g[3 * k + 1] = P[k]
  <2>1. 3 * k + 1 \in 1 .. m + 1
    OBVIOUS
  <2>2. \A j \in 0 .. n : 3 * k + 1 = 3 * j + 1 => j = k
    OBVIOUS
  <2>3. (CHOOSE j \in 0 .. n : 3 * k + 1 = 3 * j + 1) = k
    BY <2>2
  <2> QED
    BY <2>1, <2>3
<1>3. ASSUME NEW k \in 0 .. n - 1 PROVE g[3 * k + 2] = Q[k] /\ g[3 * k + 3] = R[k]
  <2>1. 3 * k + 2 \in 1 .. m + 1 /\ 3 * k + 3 \in 1 .. m + 1 /\ k \in 0 .. n
    OBVIOUS
  <2>2. /\ \A j \in 0 .. n : 3 * k + 2 = 3 * j + 2 => j = k
        /\ \A j \in 0 .. n : 3 * k + 3 = 3 * j + 3 => j = k
        /\ \A j \in 0 .. n : 3 * k + 2 # 3 * j + 1 /\ 3 * k + 3 # 3 * j + 1
                             /\ 3 * k + 3 # 3 * j + 2
    OBVIOUS
  <2>3. /\ (CHOOSE j \in 0 .. n : 3 * k + 2 = 3 * j + 2) = k
        /\ (CHOOSE j \in 0 .. n : 3 * k + 3 = 3 * j + 3) = k
    BY <2>1, <2>2
  <2>4. g[3 * k + 2] = Q[k]
    BY <2>1, <2>2, <2>3
  <2>5. g[3 * k + 3] = R[k]
    BY <2>1, <2>2, <2>3
  <2> QED
    BY <2>4, <2>5
<1> HIDE DEF g
<1>4. ASSUME NEW i \in 1 .. m PROVE <<g[i], s[i], g[i + 1]>> \in T
  <2>1. PICK k \in 0 .. n - 1 :
              \/ i = 3 * k + 1 /\ (i - 1) % 3 = 0
              \/ i = 3 * k + 2 /\ (i - 1) % 3 = 1
              \/ i = 3 * k + 3 /\ (i - 1) % 3 = 2
    BY Thirds
  <2>2. k \in 0 .. n /\ k + 1 \in 0 .. n /\ 3 * (k + 1) + 1 = 3 * k + 3 + 1
    OBVIOUS
  <2>3. s[i] = <<x, y, z>>[((i - 1) % 3) + 1]
    BY <1>1
  <2>4. CASE i = 3 * k + 1 /\ (i - 1) % 3 = 0
    <3>1. s[i] = x /\ g[i] = P[k] /\ g[i + 1] = Q[k]
      BY <1>2, <1>3, <2>2, <2>3, <2>4
    <3> QED
      BY <3>1
  <2>5. CASE i = 3 * k + 2 /\ (i - 1) % 3 = 1
    <3>1. s[i] = y /\ g[i] = Q[k] /\ g[i + 1] = R[k]
      BY <1>3, <2>3, <2>5
    <3> QED
      BY <3>1
  <2>6. CASE i = 3 * k + 3 /\ (i - 1) % 3 = 2
    <3>1. s[i] = z /\ g[i] = R[k]
      BY <1>3, <2>3, <2>6
    <3>2. g[i + 1] = P[k + 1]
      BY <2>6, <1>2, <2>2
    <3> QED
      BY <3>1, <3>2
  <2> QED
    BY <2>1, <2>4, <2>5, <2>6
<1>5. g[1] = P[0] /\ g[m + 1] = P[n]
  BY <1>2
<1> HIDE DEF s
<1> QED
  BY <1>1, <1>4, <1>5 DEF Run, s

LEMMA CloseGuardsRun ==
    ASSUME NEW T, NEW L \in States, NEW stack \in Seq(Frame), NEW P, NEW Q, NEW R,
           \A k \in 0 .. Cardinality(Guards(stack)) - 1 :
                /\ <<P[k], DoAs("enter", L, "c", GuardClose), Q[k]>> \in T
                /\ <<Q[k], Do("end", L), R[k]>> \in T
                /\ <<R[k], Do("leave", L), P[k + 1]>> \in T
    PROVE  Run(T, CloseGuards(L, stack), P[0], P[Cardinality(Guards(stack))])
<1> DEFINE n == Cardinality(Guards(stack))
           x == DoAs("enter", L, "c", GuardClose)
           y == Do("end", L)
           z == Do("leave", L)
<1>1. n \in Nat
  BY GuardsFinite
<1>2. CloseGuards(L, stack) = [i \in 1 .. 3 * n |-> <<x, y, z>>[((i - 1) % 3) + 1]]
  BY DEF CloseGuards, CloseGuard
<1> HIDE DEF n, x, y, z
<1>3. Run(T, [i \in 1 .. 3 * n |-> <<x, y, z>>[((i - 1) % 3) + 1]], P[0], P[n])
  BY <1>1, RunCycle DEF n, x, y, z
<1> QED
  BY <1>2, <1>3 DEF n

\* What the calls that follow the VM's stacks have in common.
StackOps == {"enter", "reenter", "leave", "publish", "sync", "host"}

StackCall(call, rest) ==
    \/ PerformEnter(call, rest) \/ PerformReenter(call, rest)
    \/ PerformLeave(call, rest) \/ PerformPublish(call, rest)
    \/ PerformSync(call, rest) \/ PerformHost(call, rest)

LEMMA StackCallDoes ==
    ASSUME TypeOK, NEW call \in Call, NEW rest \in Seq(Call), Ready(call), StackCall(call, rest)
    PROVE  /\ UNCHANGED <<status, chain, hooks, pending, timer, armed, bridge, recorder, expired>>
           /\ call.op \in StackOps
           /\ \/ Quiet(rest) /\ ~hooks.cpu
              \/ \E kind \in VmStates, f \in Functions \cup {NoFunction} :
                    /\ Publish(call.state, kind, f, rest)
                    /\ call.op = "host" => kind = "host" /\ f = NoFunction
<1> DEFINE L == call.state
           Result == \/ Quiet(rest) /\ ~hooks.cpu
                     \/ \E kind \in VmStates, f \in Functions \cup {NoFunction} :
                           /\ Publish(L, kind, f, rest)
                           /\ call.op = "host" => kind = "host" /\ f = NoFunction
<1>1. /\ L \in States /\ call.vm \in VmStates /\ call.cfunction \in Functions \cup {NoFunction}
      /\ frames \in [States -> Seq(Frame)] /\ frames[L] \in Seq(Frame)
  BY DEF TypeOK, Call
<1>2. ASSUME NEW stack \in Seq(Frame), NEW kind \in VmStates, kind # "host",
             NEW f \in Functions \cup {NoFunction}, EnterState(L, stack, kind, f, rest),
             call.op # "host"
      PROVE  Result
  BY <1>2 DEF EnterState, Quiet
<1>3. ASSUME PerformEnter(call, rest) PROVE Result
  BY <1>1, <1>2, <1>3 DEF PerformEnter, Ready
<1>4. ASSUME PerformReenter(call, rest) PROVE Result
  <2>1. Top(L) \in Frame /\ Front(frames[L]) \in Seq(Frame)
    BY <1>1, <1>4, FrontProperties DEF Top, Ready, PerformReenter
  <2>2. /\ Top(L).vm \in VmStates /\ Top(L).vm # "host"
        /\ Top(L).cfunction \in Functions \cup {NoFunction}
    BY <2>1 DEF Frame, VmStates
  <2> QED
    BY <1>2, <1>4, <2>1, <2>2 DEF PerformReenter
<1>5. ASSUME PerformLeave(call, rest) PROVE Result
  BY <1>5, LeaveDoes DEF Ready, PerformLeave, Executions
<1>6. ASSUME PerformPublish(call, rest) PROVE Result
  BY <1>1, <1>6 DEF PerformPublish, Quiet
<1>7. ASSUME PerformSync(call, rest) PROVE Result
  <2>1. StateFromCi(frames[L]) \in Executions
    <3>1. Len(frames[L]) \in Nat
      BY <1>1
    <3> QED
      BY <1>1, <3>1, StateOfStack, StateBelowType
  <2>2. /\ StateFromCi(frames[L]).vm \in VmStates
        /\ StateFromCi(frames[L]).cfunction \in Functions \cup {NoFunction}
    BY <2>1 DEF Executions
  <2> QED
    BY <1>7, <2>2 DEF PerformSync, Quiet
<1>8. ASSUME PerformHost(call, rest) PROVE Result
  BY <1>8 DEF VmStates, PerformHost, Quiet
<1>9. UNCHANGED <<status, chain, hooks, pending, timer, armed, bridge, recorder, expired>>
  BY DEF StackCall, PerformEnter, PerformReenter, PerformLeave, PerformPublish, PerformSync,
     PerformHost, vm
<1>10. call.op \in StackOps
  BY DEF StackCall, PerformEnter, PerformReenter, PerformLeave, PerformPublish, PerformSync,
     PerformHost, StackOps
<1> HIDE DEF Result
<1>11. Result
  BY <1>3, <1>4, <1>5, <1>6, <1>7, <1>8 DEF StackCall
<1> QED
  BY <1>9, <1>10, <1>11 DEF Result

------------------------------------------------------------------------------
(* The recorder: how far the start or the stop of a CPU recording has come,   *)
(* and what is true of the timer and the hooks at each stage.                  *)

Handovers == {"begin", "end", "open", "shut", "drain", "quality"}

Stages == {"settled", "start", "activated", "hooked", "armed", "failed",
           "stop", "disarmed", "drained", "cleared", "deactivated",
           "unhooked", "deleted", "toggle", "toggled"}

StageEdges ==
    {<<"start", "activate", "activated">>, <<"activated", "hooks", "hooked">>,
     <<"hooked", "arm", "settled">>, <<"armed", "release", "settled">>,
     <<"failed", "hooks", "unhooked">>,
     <<"stop", "disarm", "disarmed">>, <<"disarmed", "drain", "drained">>,
     <<"drained", "quality", "cleared">>, <<"cleared", "deactivate", "deactivated">>,
     <<"deactivated", "hooks", "unhooked">>, <<"unhooked", "delete", "deleted">>,
     <<"deleted", "finish", "settled">>,
     <<"toggle", "memory", "toggled">>, <<"toggled", "hooks", "settled">>}

\* Operations that leave the recorder at the stage where it is.
Neutral(a) ==
    CASE a = "settled" -> VmOps \cup Handovers
      [] a = "stop" -> {"enter", "guard"} \cup Handovers
      [] a = "hooked" -> {"sync"} \cup Handovers
      [] a = "unhooked" -> {"sync"}
      [] OTHER -> {}

StageStep(a, c, b) == <<a, c.op, b>> \in StageEdges \/ (b = a /\ c.op \in Neutral(a))
StageSteps == {t \in Stages \X Call \X Stages : StageStep(t[1], t[2], t[3])}

\* A timer that has counted nothing and was never told of a lua_State.
Fresh == Expirations(timer) = 0 /\ timer.slot.state = NoState
Off == ~recording /\ ~armed /\ ~cpuActive /\ ~hooks.cpu /\ Fresh
On == /\ recording /\ armed /\ cpuActive /\ hooks.cpu /\ timer.active
      /\ timer.draining <=> workDepth > 0
NothingCounted == Expirations(timer) = 0
WorkDrains == workDepth > 0 => timer.draining

StageFits(a) ==
    /\ a \in {"settled", "toggle", "toggled"} => Off \/ On
    /\ a = "start" => Off
    /\ a = "stop" => On
    /\ a \notin {"settled", "toggle", "toggled", "start"} => recording
    /\ a \in {"activated", "hooked", "failed", "disarmed", "drained", "cleared",
              "deactivated", "unhooked", "deleted"} => ~armed
    /\ a \in {"activated", "hooked", "armed", "disarmed", "drained", "cleared"} => cpuActive
    /\ a \in {"failed", "deactivated", "unhooked", "deleted"} => ~cpuActive
    /\ a \in {"activated", "unhooked", "deleted"} => ~hooks.cpu
    /\ a \in {"hooked", "armed", "failed", "disarmed", "drained", "cleared", "deactivated"}
          => hooks.cpu
    /\ a \in {"activated", "deleted"} => Fresh
    /\ a = "armed" => armed /\ timer.active
    /\ a \in {"activated", "hooked", "armed"} => WorkDrains
    /\ a \in {"hooked", "failed", "cleared", "deactivated", "unhooked"} => NothingCounted
    /\ a = "drained" => timer.events = <<>>

Staged == \E a \in Stages : StageFits(a) /\ Run(StageSteps, todo, a, "settled")

DrainWaits == \E i \in 1 .. Len(todo) : todo[i].op = "drain"

RecorderInv ==
    /\ Staged
    /\ timer.events # <<>> => pending > 0 \/ DrainWaits
    /\ ~hooks.cpu => pending = 0
    /\ ExpirationsCounted

\* The stage before and after the call that is performed next.
LEMMA StageAt ==
    ASSUME TypeOK, Staged, todo # <<>>
    PROVE  \E a, b \in Stages : /\ StageFits(a) /\ StageStep(a, Head(todo), b)
                                /\ Run(StageSteps, Tail(todo), b, "settled")
<1>1. PICK a \in Stages : StageFits(a) /\ Run(StageSteps, todo, a, "settled")
  BY DEF Staged
<1>2. todo \in Seq(Call)
  BY DEF TypeOK
<1>3. PICK b : <<a, Head(todo), b>> \in StageSteps /\ Run(StageSteps, Tail(todo), b, "settled")
  BY <1>1, <1>2, RunHead
<1>4. b \in Stages /\ StageStep(a, Head(todo), b)
  BY <1>3 DEF StageSteps
<1> QED
  BY <1>1, <1>3, <1>4

\* The timer is made and freed while nothing is published to it.
LEMMA HooksClear ==
    ASSUME TypeOK, Staged, todo # <<>>, Head(todo).op \in {"activate", "delete"}
    PROVE  ~hooks.cpu
<1>1. PICK a \in Stages, b \in Stages : StageFits(a) /\ StageStep(a, Head(todo), b)
  BY StageAt
<1>2. a \in {"start", "unhooked"}
  BY <1>1 DEF StageStep, StageEdges, Neutral, VmOps, Handovers
<1> QED
  BY <1>1, <1>2 DEF StageFits, Off

------------------------------------------------------------------------------
(* The slot: how much of a publication has reached the timer.                 *)

Phases == {"clean", "open", "shut", "begin", "handopen", "handshut", "drain"}
SlotPhase == [phase: Phases, target: Slot]

\* What the timer should show of the lua_State published last: a coroutine that
\* went back to its host has handed the slot to the main thread.
Handing == profileThread # NoState /\ profileThread # Main
           /\ profile[profileThread].vm = "host"
MainsHost == [state |-> Main, vm |-> "host", cfunction |-> NoFunction]
Target == IF Handing THEN MainsHost
          ELSE [state |-> profileThread, vm |-> profile[profileThread].vm,
                cfunction |-> profile[profileThread].cfunction]

Shut(call) == [state |-> call.state, vm |-> call.vm, cfunction |-> call.cfunction]

SlotStep(a, c, b) ==
    \/ a.phase = "clean" /\ c.op \notin {"open", "shut"} /\ b = a
    \/ a.phase = "open" /\ c.op = "open" /\ b = [a EXCEPT !.phase = "shut"]
    \/ a.phase = "shut" /\ c.op = "shut" /\ Shut(c) = a.target /\ b.phase = "clean"
    \/ a.phase = "begin" /\ c.op = "begin" /\ b = [a EXCEPT !.phase = "handopen"]
    \/ a.phase = "handopen" /\ c.op = "open" /\ b = [a EXCEPT !.phase = "handshut"]
    \/ a.phase = "handshut" /\ c.op = "shut" /\ Shut(c) = a.target /\ b.phase = "drain"
    \/ a.phase = "drain" /\ c.op = "drain" /\ b.phase = "clean"
SlotSteps == {t \in SlotPhase \X Call \X SlotPhase : SlotStep(t[1], t[2], t[3])}

Shown == hooks.cpu /\ profileThread # NoState

SlotFits(a) ==
    /\ a.phase \in {"open", "shut"} => Shown /\ ~Handing
    /\ a.phase \in {"begin", "handopen", "handshut", "drain"} => Shown /\ Handing
    /\ a.phase \notin {"clean", "drain"} => a.target = Target
    /\ timer.publishing <=> a.phase \in {"shut", "handshut"}
    /\ a.phase \in {"clean", "drain"} /\ Shown => timer.slot = Target
    /\ a.phase = "clean" /\ hooks.cpu /\ Handing =>
            \A i \in 1 .. Len(timer.events) : timer.events[i].state # profileThread

SlotInv == \E a, e \in SlotPhase : /\ SlotFits(a) /\ Run(SlotSteps, todo, a, e)
                                   /\ e.phase = "clean"

LEMMA SlotAt ==
    ASSUME TypeOK, SlotInv, todo # <<>>
    PROVE  \E a, b, e \in SlotPhase : /\ SlotFits(a) /\ SlotStep(a, Head(todo), b)
                                      /\ Run(SlotSteps, Tail(todo), b, e) /\ e.phase = "clean"
                                      /\ Run(SlotSteps, todo, a, e)
<1>1. PICK a \in SlotPhase, e \in SlotPhase :
            SlotFits(a) /\ Run(SlotSteps, todo, a, e) /\ e.phase = "clean"
  BY DEF SlotInv
<1>2. todo \in Seq(Call)
  BY DEF TypeOK
<1>3. PICK b : <<a, Head(todo), b>> \in SlotSteps /\ Run(SlotSteps, Tail(todo), b, e)
  BY <1>1, <1>2, RunHead
<1>4. b \in SlotPhase /\ SlotStep(a, Head(todo), b)
  BY <1>3 DEF SlotSteps
<1> QED
  BY <1>1, <1>3, <1>4

\* Only a published state reaches the timer.
LEMMA PublishedOnly ==
    ASSUME TypeOK, SlotInv, todo # <<>>, Head(todo).op \in {"open", "shut"}
    PROVE  hooks.cpu
<1>1. PICK a \in SlotPhase, b \in SlotPhase : SlotFits(a) /\ SlotStep(a, Head(todo), b)
  BY SlotAt
<1>2. a.phase \in {"open", "shut", "handopen", "handshut"}
  BY <1>1 DEF SlotStep
<1> QED
  BY <1>1, <1>2 DEF SlotFits, Shown

\* The slot's fields of the timer are the same.
SameSlot(x, y) == y.slot = x.slot /\ y.publishing = x.publishing /\ y.events = x.events

LEMMA SlotFrame ==
    ASSUME NEW a, SlotFits(a), UNCHANGED <<hooks, profile, profileThread>>,
           SameSlot(timer, timer')
    PROVE  SlotFits(a)'
BY DEF SlotFits, SameSlot, Shown, Handing, Target

LEMMA SameSlots ==
    ASSUME NEW x \in Timer
    PROVE  /\ SameSlot(x, x) /\ SameSlot(x, BeginDrain(x)) /\ SameSlot(x, EndDrain(x))
           /\ SameSlot(x, TakeQuality(x))
           /\ \A active \in BOOLEAN : SameSlot(x, [x EXCEPT !.active = active])
           /\ \A overrun \in Nat : SameSlot(x, Discard(x, overrun))
BY DiscardCounts DEF Counted, SameSlot, BeginDrain, EndDrain, Timer, TakeQuality

LEMMA SlotSteady ==
    ASSUME NEW a \in SlotPhase, a.phase = "clean", NEW s \in Seq(AppCall)
    PROVE  Run(SlotSteps, s, a, a)
<1>1. \A c \in AppCall : <<a, c, a>> \in SlotSteps
  BY DEF AppCall, SlotSteps, SlotStep
<1> QED
  BY <1>1, RunSteady

LEMMA SlotStepIn ==
    ASSUME NEW a \in SlotPhase, NEW b \in SlotPhase, NEW c \in Call, SlotStep(a, c, b)
    PROVE  <<a, c, b>> \in SlotSteps
BY DEF SlotSteps

\* A publication, as it is asked for by a call that is performed.
LEMMA SlotPublish ==
    ASSUME TypeOK, NEW L \in States, NEW kind \in VmStates,
           NEW f \in Functions \cup {NoFunction}, NEW rest \in Seq(Call),
           Publish(L, kind, f, rest), UNCHANGED <<hooks, timer>>,
           NEW a \in SlotPhase, SlotFits(a), a.phase = "clean",
           NEW e \in SlotPhase, Run(SlotSteps, rest, a, e), e.phase = "clean"
    PROVE  SlotInv'
<1> DEFINE now == [vm |-> kind, cfunction |-> f]
<1>1. CASE profileThread = L /\ profile[L] = now
  BY <1>1, SlotFrame, SameSlots DEF Publish, TypeOK, SlotInv
<1>2. CASE ~(profileThread = L /\ profile[L] = now)
  <2>1. /\ profile' = [profile EXCEPT ![L] = now] /\ profileThread' = L
        /\ todo' = (IF hooks.cpu THEN StateChange(L, kind, f) ELSE <<>>) \o rest
    BY <1>2 DEF Publish
  <2>2. L # NoState /\ profile'[L] = now
    BY <2>1, NullAssumption DEF TypeOK
  <2>3. ~timer.publishing
    BY DEF SlotFits
  <2>4. CASE ~hooks.cpu
    BY <2>1, <2>4, <2>3 DEF SlotFits, Shown, SlotInv
  <2>5. CASE hooks.cpu /\ kind = "host" /\ L # Main
    <3> DEFINE Begun(phase) == [phase |-> phase, target |-> MainsHost]
               first == <<Do("begin", Main), Do("open", Main), Do("shut", Main), Do("drain", Main)>>
               second == <<Do("quality", Main), Do("end", Main)>>
    <3>1. MainsHost \in Slot
      BY MainAssumption DEF MainsHost, Slot, VmStates
    <3>2. \A phase \in Phases : Begun(phase) \in SlotPhase
      BY <3>1 DEF SlotPhase
    <3>3. /\ first \in Seq(Call) /\ second \in Seq(Call) /\ second \in Seq(AppCall)
          /\ StateChange(L, kind, f) = first \o second
      BY HandoverTypes, <2>5 DEF AppCall, Do, StateChange
    <3>4. /\ <<Begun("begin"), Do("begin", Main), Begun("handopen")>> \in SlotSteps
          /\ <<Begun("handopen"), Do("open", Main), Begun("handshut")>> \in SlotSteps
          /\ <<Begun("handshut"), Do("shut", Main), Begun("drain")>> \in SlotSteps
          /\ <<Begun("drain"), Do("drain", Main), a>> \in SlotSteps
      <4>1. /\ Begun("begin") \in SlotPhase /\ Begun("handopen") \in SlotPhase
            /\ Begun("handshut") \in SlotPhase /\ Begun("drain") \in SlotPhase
        BY <3>2 DEF Phases
      <4>2. SlotStep(Begun("begin"), Do("begin", Main), Begun("handopen"))
        BY DEF SlotStep, Do
      <4>3. SlotStep(Begun("handopen"), Do("open", Main), Begun("handshut"))
        BY DEF SlotStep, Do
      <4>4. SlotStep(Begun("handshut"), Do("shut", Main), Begun("drain"))
        BY DEF SlotStep, Do, Shut, MainsHost
      <4>5. SlotStep(Begun("drain"), Do("drain", Main), a)
        BY DEF SlotStep, Do
      <4> HIDE DEF Begun
      <4> QED
        BY <4>1, <4>2, <4>3, <4>4, <4>5, HandoverTypes, SlotStepIn
    <3>5. Run(SlotSteps, first, Begun("begin"), a)
      BY <3>4, Run4
    <3>6. Run(SlotSteps, second, a, a)
      BY <3>3, SlotSteady
    <3>7. Run(SlotSteps, StateChange(L, kind, f), Begun("begin"), a)
      BY <3>3, <3>5, <3>6, RunCat
    <3>8. Run(SlotSteps, todo', Begun("begin"), e)
      BY <2>1, <2>5, <3>7, StateChangeTypes, RunCat
    <3>9. SlotFits(Begun("begin"))'
      BY <2>1, <2>2, <2>3, <2>5 DEF SlotFits, Shown, Handing, Target
    <3> QED
      BY <3>2, <3>8, <3>9 DEF SlotInv, Phases
  <2>6. CASE hooks.cpu /\ ~(kind = "host" /\ L # Main)
    <3> DEFINE t == [state |-> L, vm |-> kind, cfunction |-> f]
               Begun(phase) == [phase |-> phase, target |-> t]
    <3>1. t \in Slot
      BY DEF Slot
    <3>2. \A phase \in Phases : Begun(phase) \in SlotPhase
      BY <3>1 DEF SlotPhase
    <3>3. StateChange(L, kind, f) = <<Do("open", L), DoAs("shut", L, kind, f)>>
      BY <2>6 DEF StateChange
    <3>4. Do("open", L) \in Call /\ DoAs("shut", L, kind, f) \in Call
      BY CallTypes DEF Ops
    <3>5. /\ <<Begun("open"), Do("open", L), Begun("shut")>> \in SlotSteps
          /\ <<Begun("shut"), DoAs("shut", L, kind, f), a>> \in SlotSteps
      <4>1. Begun("open") \in SlotPhase /\ Begun("shut") \in SlotPhase
        BY <3>2 DEF Phases
      <4>2. SlotStep(Begun("open"), Do("open", L), Begun("shut"))
        BY DEF SlotStep, Do
      <4>3. SlotStep(Begun("shut"), DoAs("shut", L, kind, f), a)
        BY DEF SlotStep, DoAs, Shut
      <4> HIDE DEF Begun
      <4> QED
        BY <3>4, <4>1, <4>2, <4>3, SlotStepIn
    <3>6. Run(SlotSteps, StateChange(L, kind, f), Begun("open"), a)
      BY <3>3, <3>5, Run2
    <3>7. Run(SlotSteps, todo', Begun("open"), e)
      BY <2>1, <2>6, <3>6, StateChangeTypes, RunCat
    <3>8. SlotFits(Begun("open"))'
      BY <2>1, <2>2, <2>3, <2>6 DEF SlotFits, Shown, Handing, Target
    <3> QED
      BY <3>2, <3>7, <3>8 DEF SlotInv, Phases
  <2> QED
    BY <2>4, <2>5, <2>6
<1> QED
  BY <1>1, <1>2

LEMMA SlotPerform ==
    ASSUME TypeOK, todo # <<>>, Ready(Head(todo)), SlotInv, Staged, Perform \/ Disarm
    PROVE  SlotInv'
<1> DEFINE call == Head(todo)
           rest == Tail(todo)
<1>1. call \in Call /\ rest \in Seq(Call) /\ timer \in Timer
  BY TailProperties DEF TypeOK
<1>2. PICK a \in SlotPhase, b \in SlotPhase, e \in SlotPhase :
            /\ SlotFits(a) /\ SlotStep(a, call, b)
            /\ Run(SlotSteps, rest, b, e) /\ e.phase = "clean" /\ Run(SlotSteps, todo, a, e)
  BY SlotAt
<1>3. call.state \in States /\ call.op \in Ops
  BY <1>1 DEF Call
<1>4. call.op \in {"activate", "delete"} => ~hooks.cpu
  BY HooksClear
<1>5. Ready(call)
  OBVIOUS
<1>6. \/ PerformEnter(call, rest) \/ PerformReenter(call, rest)
      \/ PerformLeave(call, rest) \/ PerformPublish(call, rest)
      \/ PerformSync(call, rest) \/ PerformHost(call, rest)
      \/ PerformHooks(call, rest) \/ PerformFree(call, rest)
      \/ PerformBegin(call, rest) \/ PerformEnd(call, rest)
      \/ PerformPublishSlot(call, rest) \/ PerformDrain(call, rest)
      \/ PerformQuality(call, rest) \/ PerformActivate(call, rest)
      \/ PerformArm(call, rest) \/ PerformRelease(call, rest)
      \/ PerformDeactivate(call, rest) \/ PerformDelete(call, rest)
      \/ PerformFinish(call, rest) \/ PerformMemory(call, rest)
      \/ PerformAllocate(call, rest) \/ PerformDisarm(call, rest)
  BY DEF Perform, Disarm
<1> HIDE DEF call, rest
\* A call that neither publishes nor touches the slot, and what it inserts.
<1>7. ASSUME NEW ins \in Seq(AppCall), todo' = ins \o rest, a.phase = "clean", b = a,
             SlotFits(a)'
      PROVE  SlotInv'
  BY SeqWithin, <1>7, SlotSteady, <1>1, <1>2, RunCat DEF AppCall, SlotInv
<1>8. ASSUME todo' = rest, SlotFits(b)' PROVE SlotInv'
  BY <1>2, <1>8 DEF SlotInv
<1>9. call.op \notin {"open", "shut", "begin", "drain"} => a.phase = "clean" /\ b = a
  BY <1>2 DEF SlotStep
<1>10. ASSUME UNCHANGED <<hooks, profile, profileThread>>, SameSlot(timer, timer'),
              NEW x, SlotFits(x)
       PROVE  SlotFits(x)'
  BY <1>10, SlotFrame
<1>11. SameSlot(timer, timer)
  BY DEF SameSlot
<1>12. \A op \in Ops \ {"open", "shut"} : Do(op, call.state) \in AppCall
  BY <1>3, CallTypes DEF AppCall, Do
<1>13. <<>> \in Seq(AppCall) /\ <<>> \o rest = rest
  BY <1>1
<1>14. CASE StackCall(call, rest)
  <2>1. /\ UNCHANGED <<hooks, timer>> /\ call.op \in StackOps
        /\ \/ Quiet(rest) /\ ~hooks.cpu
           \/ \E kind \in VmStates, f \in Functions \cup {NoFunction} :
                Publish(call.state, kind, f, rest)
    BY <1>1, <1>5, <1>14, StackCallDoes
  <2>2. a.phase = "clean" /\ b = a
    BY <1>9, <2>1 DEF StackOps
  <2>3. CASE Quiet(rest)
    BY <1>2, <1>8, <1>10, <1>11, <2>1, <2>2, <2>3 DEF Quiet
  <2>4. ASSUME NEW kind \in VmStates, NEW f \in Functions \cup {NoFunction},
               Publish(call.state, kind, f, rest)
        PROVE  SlotInv'
    BY <1>1, <1>2, <1>3, <2>1, <2>2, <2>4, SlotPublish
  <2> QED
    BY <2>1, <2>3, <2>4
<1>15. CASE PerformHooks(call, rest)
  <2>1. /\ call.op = "hooks" /\ todo' = <<Do("sync", call.state)>> \o rest
        /\ profileThread' = NoState /\ timer' = timer
    BY <1>15 DEF PerformHooks
  <2>2. <<Do("sync", call.state)>> \in Seq(AppCall)
    BY <1>12 DEF Ops
  <2>3. SlotFits(a)'
    BY <1>2, <1>9, <2>1 DEF SlotFits, Shown, Handing
  <2> QED
    BY <1>7, <1>9, <2>1, <2>2, <2>3
<1>16. CASE PerformFree(call, rest) \/ PerformFinish(call, rest) \/ PerformMemory(call, rest)
            \/ PerformDeactivate(call, rest)
  BY <1>16, <1>2, <1>8, <1>9, <1>10, <1>11 DEF PerformFree, PerformFinish, PerformMemory,
     PerformDeactivate, patch
<1>17. CASE PerformAllocate(call, rest)
  <2>1. /\ UNCHANGED <<hooks, profile, profileThread, timer>> /\ call.op = "allocate"
        /\ \/ todo' = <<>> \o rest
           \/ todo' = <<Do("begin", Main), Do("end", Main)>> \o rest
    BY <1>17 DEF PerformAllocate, patch
  <2>2. <<Do("begin", Main), Do("end", Main)>> \in Seq(AppCall)
    BY HandoverTypes DEF AppCall, Do
  <2> QED
    BY <1>2, <1>7, <1>9, <1>10, <1>11, <1>13, <2>1, <2>2
<1>18. CASE PerformBegin(call, rest) \/ PerformEnd(call, rest)
  <2>1. /\ UNCHANGED <<hooks, profile, profileThread>> /\ todo' = rest
        /\ call.op \in {"begin", "guard", "end"}
        /\ timer' \in {timer, BeginDrain(timer), EndDrain(timer)}
    BY <1>18 DEF PerformBegin, PerformEnd, patch
  <2>2. SameSlot(timer, timer') /\ SlotFits(a)'
    BY <1>1, <1>2, <1>10, <2>1, SameSlots
  <2>3. SlotFits(b)'
    <3>1. CASE b = a
      BY <2>2, <3>1
    <3>2. CASE a.phase = "begin" /\ b = [a EXCEPT !.phase = "handopen"]
      BY <3>2, <2>2 DEF SlotPhase, SlotFits
    <3> QED
      BY <1>2, <2>1, <3>1, <3>2 DEF SlotStep
  <2> QED
    BY <1>8, <2>1, <2>3
<1>19. CASE PerformPublishSlot(call, rest)
  <2>1. UNCHANGED <<hooks, profile, profileThread>> /\ todo' = rest
    BY <1>19 DEF PerformPublishSlot, patch
  <2>2. CASE call.op = "open"
    <3>1. timer' = OpenSlot(timer)
      BY <1>19, <2>2 DEF PerformPublishSlot
    <3>2. timer'.publishing /\ timer'.slot = timer.slot /\ timer'.events = timer.events
      BY <1>1, <3>1 DEF OpenSlot, Timer
    <3>3. /\ b.target = a.target
          /\ \/ a.phase = "open" /\ b.phase = "shut"
             \/ a.phase = "handopen" /\ b.phase = "handshut"
      BY <1>2, <2>2 DEF SlotStep, SlotPhase
    <3>4. SlotFits(b)'
      BY <1>2, <2>1, <3>2, <3>3 DEF SlotFits, Shown, Handing, Target
    <3> QED
      BY <1>8, <2>1, <3>4
  <2>3. CASE call.op = "shut"
    <3>1. timer' = CloseSlot(timer, Shut(call))
      BY <1>19, <2>3 DEF PerformPublishSlot, Shut
    <3>2. ~timer'.publishing /\ timer'.slot = Shut(call) /\ timer'.events = timer.events
      BY <1>1, <3>1 DEF CloseSlot, Timer
    <3>3. /\ Shut(call) = a.target
          /\ \/ a.phase = "shut" /\ b.phase = "clean"
             \/ a.phase = "handshut" /\ b.phase = "drain"
      BY <1>2, <2>3 DEF SlotStep
    <3>4. SlotFits(b)'
      BY <1>2, <2>1, <3>2, <3>3 DEF SlotFits, Shown, Handing, Target
    <3> QED
      BY <1>8, <2>1, <3>4
  <2> QED
    BY <1>19, <2>2, <2>3 DEF PerformPublishSlot
<1>20. CASE PerformDrain(call, rest)
  <2>1. UNCHANGED <<hooks, profile, profileThread>> /\ call.op = "drain"
    BY <1>20 DEF PerformDrain, patch
  <2>2. CASE timer.events = <<>>
    BY <1>20, <2>2, <1>2, <2>1, <1>10, <1>11, <1>8 DEF PerformDrain, SlotStep, SlotFits
  <2>3. CASE timer.events # <<>>
    <3>1. timer' = TakeEvent(timer) /\ todo' = todo
      BY <1>20, <2>3 DEF PerformDrain
    <3>2. /\ timer'.slot = timer.slot /\ timer'.publishing = timer.publishing
          /\ timer'.events = Tail(timer.events) /\ timer.events \in Seq(Slot)
      BY <1>1, <3>1 DEF TakeEvent, Timer
    <3>3. \A i \in 1 .. Len(timer'.events) : \E j \in 1 .. Len(timer.events) :
                timer'.events[i] = timer.events[j]
      <4>1. /\ Len(timer.events) \in Nat \ {0} /\ Len(timer'.events) = Len(timer.events) - 1
            /\ \A i \in 1 .. Len(timer'.events) : timer'.events[i] = timer.events[i + 1]
        BY <2>3, <3>2, TailProperties
      <4> QED
        BY <4>1
    <3>4. SlotFits(a)'
      BY <1>2, <2>1, <3>2, <3>3 DEF SlotFits, Shown, Handing, Target
    <3> QED
      BY <1>2, <3>1, <3>4 DEF SlotInv
  <2> QED
    BY <2>2, <2>3
<1>21. CASE PerformQuality(call, rest) \/ PerformRelease(call, rest)
  BY <1>21, <1>1, SameSlots, <1>2, <1>8, <1>9, <1>10 DEF PerformQuality, PerformRelease,
     patch
<1>22. CASE PerformActivate(call, rest) \/ PerformDelete(call, rest)
  BY <1>22, <1>2, <1>4, <1>9, <1>8 DEF PerformActivate, PerformDelete, patch, NewTimer,
     SlotFits, Shown
<1>23. CASE PerformArm(call, rest)
  <2>1. /\ UNCHANGED <<hooks, profile, profileThread>> /\ call.op = "arm"
        /\ \/ timer' = [timer EXCEPT !.active = TRUE]
              /\ todo' = <<Do("release", call.state)>> \o rest
           \/ timer' = timer /\ todo' = <<Do("hooks", call.state), Do("delete", call.state),
                                          Do("finish", call.state)>> \o rest
    BY <1>23 DEF PerformArm, patch
  <2>2. SlotFits(a)'
    BY <1>1, <1>2, <1>10, <2>1, SameSlots
  <2>3. /\ <<Do("release", call.state)>> \in Seq(AppCall)
        /\ <<Do("hooks", call.state), Do("delete", call.state), Do("finish", call.state)>>
              \in Seq(AppCall)
    BY <1>12 DEF Ops
  <2> QED
    BY <1>7, <1>9, <2>1, <2>2, <2>3
<1>24. CASE PerformDisarm(call, rest)
  <2> DEFINE stopped == [timer EXCEPT !.active = FALSE]
  <2>1. /\ UNCHANGED <<hooks, profile, profileThread>> /\ todo' = rest /\ call.op = "disarm"
        /\ timer' = stopped \/ \E n \in 0 .. MaxOverrun : timer' = Discard(stopped, n)
    BY <1>24 DEF PerformDisarm, patch
  <2>a. FALSE \in BOOLEAN /\ \A n \in 0 .. MaxOverrun : n \in Nat
    BY BoundsAssumption
  <2>2. SameSlot(timer, stopped) /\ stopped \in Timer
    BY <1>1, <2>a, SameSlots, TimerTypes
  <2> HIDE DEF stopped
  <2>3. \A n \in 0 .. MaxOverrun : SameSlot(stopped, Discard(stopped, n))
    BY <2>2, <2>a, SameSlots
  <2>4. SameSlot(timer, timer')
    BY <2>1, <2>2, <2>3 DEF SameSlot
  <2> QED
    BY <1>2, <1>8, <1>9, <1>10, <2>1, <2>4
<1> QED
  BY <1>6, <1>14, <1>15, <1>16, <1>17, <1>18, <1>19, <1>20, <1>21, <1>22, <1>23, <1>24
     DEF StackCall

LEMMA SlotTick ==
    ASSUME TypeOK, SlotInv, timer.active, NEW overrun \in 0 .. MaxOverrun, Tick(overrun)
    PROVE  SlotInv'
<1>1. PICK a \in SlotPhase, e \in SlotPhase :
            SlotFits(a) /\ Run(SlotSteps, todo, a, e) /\ e.phase = "clean"
  BY DEF SlotInv
<1>2. /\ timer \in Timer /\ timer.events \in Seq(Slot) /\ overrun \in Nat
      /\ UNCHANGED <<hooks, profile, profileThread, todo>> /\ timer' = Handle(timer, overrun)
  BY BoundsAssumption DEF TypeOK, Timer, Tick
<1>3. /\ timer'.slot = timer.slot /\ timer'.publishing = timer.publishing
      /\ \/ timer'.events = timer.events
         \/ timer'.events = Append(timer.events, timer.slot)
  BY <1>2, HandleCounts DEF Counted
<1>4. CASE timer'.events = timer.events
  BY <1>1, <1>2, <1>3, <1>4, SlotFrame DEF SlotInv, SameSlot
<1>5. CASE timer'.events = Append(timer.events, timer.slot)
  <2>1. \A i \in 1 .. Len(timer'.events) :
            timer'.events[i] = timer.slot
            \/ \E j \in 1 .. Len(timer.events) : timer'.events[i] = timer.events[j]
    BY <1>2, <1>5
  <2>2. Handing => MainsHost.state # profileThread
    BY DEF MainsHost, Handing
  <2>3. SlotFits(a)'
    <3>1. a.phase = "clean" /\ hooks.cpu /\ Handing => timer.slot = MainsHost
      BY <1>1 DEF SlotFits, Shown, Handing, Target
    <3>2. a.phase = "clean" /\ hooks.cpu /\ Handing =>
              \A i \in 1 .. Len(timer'.events) : timer'.events[i].state # profileThread
      BY <1>1, <2>1, <2>2, <3>1 DEF SlotFits
    <3>3. UNCHANGED <<Handing, Shown, Target>>
      BY <1>2 DEF Handing, Shown, Target
    <3> QED
      BY <1>1, <1>2, <1>3, <3>2, <3>3 DEF SlotFits
  <2> QED
    BY <1>1, <1>2, <2>3 DEF SlotInv
<1> QED
  BY <1>3, <1>4, <1>5

\* An action of the application finds nothing published halfway.
LEMMA SlotApplication ==
    ASSUME TypeOK, SlotInv, Application, Shown => Live(profileThread)
    PROVE  SlotInv'
<1>1. Idle /\ UNCHANGED <<hooks, profileThread, timer>>
      /\ (profile' = profile \/ \E co \in States \ {Main} : Create(co))
  BY ApplicationFrame
<1>2. PICK a \in SlotPhase, e \in SlotPhase :
            SlotFits(a) /\ Run(SlotSteps, todo, a, e) /\ e.phase = "clean"
  BY DEF SlotInv
<1>3. a = e
  BY <1>1, <1>2, RunEmpty DEF Idle
<1>4. todo' \in Seq(AppCall)
  BY AppTodo
<1>5. Run(SlotSteps, todo', a, a)
  BY <1>2, <1>3, <1>4, SlotSteady
<1>6. SlotFits(a)'
  <2>1. CASE profile' = profile
    BY <1>1, <1>2, <2>1, SlotFrame DEF SameSlot
  <2>2. ASSUME NEW co \in States \ {Main}, Create(co) PROVE SlotFits(a)'
    BY <2>2, <1>1, <1>2, <1>3 DEF Create, Live, TypeOK, Shown, Handing, Target, SlotFits
  <2> QED
    BY <1>1, <2>1, <2>2
<1> QED
  BY <1>2, <1>3, <1>5, <1>6 DEF SlotInv

------------------------------------------------------------------------------
(* The recorder, step by step.                                                *)

LEMMA ExpirationsMove ==
    ASSUME NEW x \in Timer
    PROVE  /\ x.events # <<>> => Expirations(TakeEvent(x)) = Expirations(x) - 1
           /\ Expirations(x) = Expirations(TakeQuality(x)) + x.dropped + x.unstable
                                  + x.overhead + x.overrunTicks
           /\ TakeQuality(x).events = x.events /\ TakeQuality(x).slot = x.slot
           /\ Expirations(NewTimer) = 0 /\ NewTimer.slot.state = NoState
           /\ x.events = <<>> => Expirations(TakeQuality(x)) = 0
           /\ x.dropped \in Nat /\ x.unstable \in Nat /\ x.overhead \in Nat /\ x.overrunTicks \in Nat
<1>1. /\ x.dropped \in Nat /\ x.unstable \in Nat /\ x.overhead \in Nat
      /\ x.overrunTicks \in Nat /\ x.events \in Seq(Slot) /\ Len(x.events) \in Nat
  BY DEF Timer
<1>2. ASSUME x.events # <<>> PROVE Expirations(TakeEvent(x)) = Expirations(x) - 1
  <2> DEFINE y == TakeEvent(x)
  <2>1. /\ Len(y.events) = Len(x.events) - 1 /\ y.dropped = x.dropped
        /\ y.unstable = x.unstable /\ y.overhead = x.overhead
        /\ y.overrunTicks = x.overrunTicks
    BY <1>1, <1>2, TailProperties DEF TakeEvent, Timer
  <2> DEFINE n == Len(x.events)
             p == x.dropped
             q == x.unstable
             r == x.overhead
             t == x.overrunTicks
  <2>2. n \in Nat /\ p \in Nat /\ q \in Nat /\ r \in Nat /\ t \in Nat
    BY <1>1
  <2>3. Expirations(x) = n + p + q + r + t
    BY DEF Expirations, Deliveries
  <2>4. Expirations(y) = n - 1 + p + q + r + t
    BY <2>1 DEF Expirations, Deliveries
  <2> HIDE DEF y, n, p, q, r, t
  <2>5. Expirations(y) = Expirations(x) - 1
    BY <2>2, <2>3, <2>4
  <2> QED
    BY <2>5 DEF y
<1>3. /\ Expirations(x) = Expirations(TakeQuality(x)) + x.dropped + x.unstable
                             + x.overhead + x.overrunTicks
      /\ TakeQuality(x).events = x.events /\ TakeQuality(x).slot = x.slot
      /\ x.events = <<>> => Expirations(TakeQuality(x)) = 0
  <2> DEFINE y == TakeQuality(x)
  <2>1. /\ y.events = x.events /\ y.slot = x.slot /\ y.dropped = 0 /\ y.unstable = 0 /\ y.overhead = 0
        /\ y.overrunTicks = 0
    BY DEF TakeQuality, Timer
  <2> HIDE DEF y
  <2> QED
    BY <1>1, <2>1 DEF Expirations, Deliveries, y
<1>4. Expirations(NewTimer) = 0 /\ NewTimer.slot.state = NoState
  BY DEF NewTimer, Expirations, Deliveries
<1> QED
  BY <1>1, <1>2, <1>3, <1>4

\* Two timers hold the same counts.
SameCounts(x, y) == Expirations(y) = Expirations(x) /\ y.events = x.events

LEMMA CountsKept ==
    ASSUME NEW x \in Timer
    PROVE  /\ SameCounts(x, BeginDrain(x)) /\ SameCounts(x, EndDrain(x))
           /\ SameCounts(x, OpenSlot(x)) /\ \A s \in Slot : SameCounts(x, CloseSlot(x, s))
           /\ \A active \in BOOLEAN : SameCounts(x, [x EXCEPT !.active = active])
           /\ BeginDrain(x).draining /\ ~EndDrain(x).draining
           /\ BeginDrain(x).active = x.active /\ EndDrain(x).active = x.active
           /\ OpenSlot(x).active = x.active /\ OpenSlot(x).draining = x.draining
           /\ \A s \in Slot : /\ CloseSlot(x, s).active = x.active
                              /\ CloseSlot(x, s).draining = x.draining
           /\ TakeQuality(x).active = x.active /\ TakeQuality(x).draining = x.draining
           /\ TakeEvent(x).active = x.active /\ TakeEvent(x).draining = x.draining
           /\ \A active \in BOOLEAN : /\ [x EXCEPT !.active = active].active = active
                                      /\ [x EXCEPT !.active = active].draining = x.draining
<1> USE DEF SameCounts, Expirations, Deliveries, Timer
<1>1. SameCounts(x, BeginDrain(x)) /\ SameCounts(x, EndDrain(x))
  BY DEF BeginDrain, EndDrain
<1>2. SameCounts(x, OpenSlot(x)) /\ \A s \in Slot : SameCounts(x, CloseSlot(x, s))
  BY DEF OpenSlot, CloseSlot
<1>3. \A active \in BOOLEAN : SameCounts(x, [x EXCEPT !.active = active])
  OBVIOUS
<1>4. /\ BeginDrain(x).draining /\ ~EndDrain(x).draining
      /\ BeginDrain(x).active = x.active /\ EndDrain(x).active = x.active
  BY DEF BeginDrain, EndDrain
<1>5. /\ OpenSlot(x).active = x.active /\ OpenSlot(x).draining = x.draining
      /\ \A s \in Slot : /\ CloseSlot(x, s).active = x.active
                         /\ CloseSlot(x, s).draining = x.draining
  BY DEF OpenSlot, CloseSlot
<1>6. /\ TakeQuality(x).active = x.active /\ TakeQuality(x).draining = x.draining
      /\ TakeEvent(x).active = x.active /\ TakeEvent(x).draining = x.draining
  BY DEF TakeQuality, TakeEvent
<1>7. \A active \in BOOLEAN : /\ [x EXCEPT !.active = active].active = active
                              /\ [x EXCEPT !.active = active].draining = x.draining
  OBVIOUS
<1> QED
  BY <1>1, <1>2, <1>3, <1>4, <1>5, <1>6, <1>7

LEMMA StageFrame ==
    ASSUME NEW a, StageFits(a), UNCHANGED <<recording, armed, cpuActive, hooks, workDepth>>,
           timer'.active = timer.active, timer'.draining = timer.draining,
           SameCounts(timer, timer'), timer'.slot.state = timer.slot.state \/ hooks.cpu
    PROVE  StageFits(a)'
BY DEF StageFits, SameCounts, On, Off, Fresh, NothingCounted, WorkDrains

LEMMA StageSteady ==
    ASSUME NEW a \in Stages, NEW C \in SUBSET Call, \A c \in C : c.op \in Neutral(a),
           NEW s \in Seq(C)
    PROVE  Run(StageSteps, s, a, a)
BY RunSteady DEF StageSteps, StageStep

HandoverCall == {c \in Call : c.op \in Handovers}

LEMMA StateChangeWithin ==
    ASSUME NEW L \in States, NEW kind \in VmStates, NEW f \in Functions \cup {NoFunction}
    PROVE  StateChange(L, kind, f) \in Seq(HandoverCall)
<1>1. /\ Do("begin", Main) \in HandoverCall /\ Do("open", Main) \in HandoverCall
      /\ Do("shut", Main) \in HandoverCall /\ Do("drain", Main) \in HandoverCall
      /\ Do("quality", Main) \in HandoverCall /\ Do("end", Main) \in HandoverCall
  BY HandoverTypes DEF HandoverCall, Handovers, Do
<1>2. Do("open", L) \in HandoverCall /\ DoAs("shut", L, kind, f) \in HandoverCall
  BY CallTypes DEF Ops, HandoverCall, Handovers, Do, DoAs
<1> QED
  BY <1>1, <1>2 DEF StateChange

LEMMA StagedPerform ==
    ASSUME TypeOK, todo # <<>>, Ready(Head(todo)), SlotInv, Staged, Perform \/ Disarm
    PROVE  Staged'
<1> DEFINE call == Head(todo)
           rest == Tail(todo)
<1>1. call \in Call /\ rest \in Seq(Call) /\ timer \in Timer /\ workDepth \in Nat
  BY TailProperties DEF TypeOK
<1>2. PICK a \in Stages, b \in Stages : /\ StageFits(a) /\ StageStep(a, call, b)
                                        /\ Run(StageSteps, rest, b, "settled")
  BY StageAt
<1>3. call.state \in States /\ call.op \in Ops
  BY <1>1 DEF Call
<1>4. call.op \in {"open", "shut"} => hooks.cpu
  BY PublishedOnly
<1>5. Ready(call)
  OBVIOUS
<1>6. \/ PerformEnter(call, rest) \/ PerformReenter(call, rest)
      \/ PerformLeave(call, rest) \/ PerformPublish(call, rest)
      \/ PerformSync(call, rest) \/ PerformHost(call, rest)
      \/ PerformHooks(call, rest) \/ PerformFree(call, rest)
      \/ PerformBegin(call, rest) \/ PerformEnd(call, rest)
      \/ PerformPublishSlot(call, rest) \/ PerformDrain(call, rest)
      \/ PerformQuality(call, rest) \/ PerformActivate(call, rest)
      \/ PerformArm(call, rest) \/ PerformRelease(call, rest)
      \/ PerformDeactivate(call, rest) \/ PerformDelete(call, rest)
      \/ PerformFinish(call, rest) \/ PerformMemory(call, rest)
      \/ PerformAllocate(call, rest) \/ PerformDisarm(call, rest)
  BY DEF Perform, Disarm
<1>t. Run(StageSteps, todo, a, "settled")
  <2>1. todo \in Seq(Call) /\ <<call>> \in Seq(Call) /\ todo = <<call>> \o rest
    BY <1>1 DEF TypeOK
  <2>2. <<a, call, b>> \in StageSteps
    BY <1>1, <1>2 DEF StageSteps
  <2>3. Run(StageSteps, <<call>>, a, b)
    BY <2>2, Run1
  <2> HIDE DEF call, rest
  <2> QED
    BY <1>1, <1>2, <2>1, <2>3, RunCat
<1> HIDE DEF call, rest
<1>7. ASSUME NEW ins \in Seq(Call), todo' = ins \o rest, NEW x \in Stages,
             Run(StageSteps, ins, x, b), StageFits(x)'
      PROVE  Staged'
  BY <1>1, <1>2, <1>7, RunCat DEF Staged
<1>8. ASSUME todo' = rest, StageFits(b)' PROVE Staged'
  BY <1>2, <1>8 DEF Staged
<1>9. Expirations(timer) = 0 => timer.events = <<>>
  BY <1>1, ExpirationsNat
<1>10. CASE StackCall(call, rest)
  <2>1. /\ UNCHANGED <<hooks, timer, armed, bridge, recorder>> /\ call.op \in StackOps
        /\ \/ Quiet(rest)
           \/ \E kind \in VmStates, f \in Functions \cup {NoFunction} :
                Publish(call.state, kind, f, rest)
    BY <1>1, <1>5, <1>10, StackCallDoes
  <2>2. a = b /\ a \in {"settled", "stop", "hooked", "unhooked"}
    BY <1>2, <2>1 DEF StageStep, StageEdges, Neutral, StackOps, Handovers, VmOps
  <2>3. StageFits(a)'
    BY <1>2, <2>1, StageFrame DEF SameCounts, bridge, recorder
  <2>4. CASE todo' = rest
    BY <1>8, <2>2, <2>3, <2>4
  <2>5. ASSUME hooks.cpu, NEW kind \in VmStates, NEW f \in Functions \cup {NoFunction},
               todo' = StateChange(call.state, kind, f) \o rest
        PROVE  Staged'
    <3>1. a \in {"settled", "stop", "hooked"}
      BY <1>2, <2>2, <2>5 DEF StageFits
    <3>2. \A c \in HandoverCall : c.op \in Neutral(a)
      BY <3>1 DEF HandoverCall, Neutral
    <3>3. HandoverCall \in SUBSET Call /\ StateChange(call.state, kind, f) \in Seq(HandoverCall)
      BY <1>3, StateChangeWithin DEF HandoverCall
    <3>4. Run(StageSteps, StateChange(call.state, kind, f), a, b)
      BY <2>2, <3>2, <3>3, StageSteady
    <3> QED
      BY <1>3, <1>7, <2>3, <2>5, <3>4, StateChangeTypes
  <2>6. CASE Quiet(rest)
    BY <2>4, <2>6 DEF Quiet
  <2>7. ASSUME NEW kind \in VmStates, NEW f \in Functions \cup {NoFunction},
               Publish(call.state, kind, f, rest)
        PROVE  Staged'
    <3>1. todo' = rest \/ (hooks.cpu /\ todo' = StateChange(call.state, kind, f) \o rest)
      BY ZenonT(60), <1>1, <1>3, <2>7, PublishDoes
    <3> QED
      BY <2>4, <2>5, <3>1
  <2> QED
    BY <2>1, <2>6, <2>7
<1>11. CASE PerformHooks(call, rest)
  <2>1. /\ call.op = "hooks" /\ hooks'.cpu = cpuActive
        /\ todo' = <<Do("sync", call.state)>> \o rest
        /\ UNCHANGED <<timer, armed, bridge, recorder>>
    BY <1>11 DEF PerformHooks
  <2>2. \/ a = "activated" /\ b = "hooked"
        \/ a = "failed" /\ b = "unhooked"
        \/ a = "deactivated" /\ b = "unhooked"
        \/ a = "toggled" /\ b = "settled"
    BY <1>2, <2>1 DEF StageStep, StageEdges, Neutral, Handovers, VmOps
  <2>3. StageFits(b)'
    BY <1>2, <2>1, <2>2 DEF StageFits, On, Off, Fresh, NothingCounted, WorkDrains, bridge, recorder
  <2>4. Do("sync", call.state) \in Call /\ Do("sync", call.state).op = "sync"
    BY <1>3, CallTypes DEF Ops, Do
  <2>5. Run(StageSteps, <<Do("sync", call.state)>>, b, b)
    BY <2>2, <2>4, Run1 DEF Neutral, VmOps, StageSteps, StageStep
  <2>6. <<Do("sync", call.state)>> \in Seq(Call)
    BY <2>4
  <2> QED
    BY <1>7, <2>1, <2>3, <2>5, <2>6
<1>12. CASE PerformFree(call, rest) \/ PerformAllocate(call, rest)
  <2>1. /\ UNCHANGED <<hooks, timer, armed, bridge, recorder>>
        /\ call.op \in {"free", "allocate"}
        /\ todo' = rest \/ todo' = <<>> \o rest
           \/ todo' = <<Do("begin", Main), Do("end", Main)>> \o rest
    BY <1>12 DEF PerformFree, PerformAllocate, patch
  <2>2. a = b /\ a = "settled"
    BY <1>2, <2>1 DEF StageStep, StageEdges, Neutral, Handovers, VmOps
  <2>3. StageFits(a)'
    BY <1>2, <2>1, StageFrame DEF SameCounts, bridge, recorder
  <2>4. <<Do("begin", Main), Do("end", Main)>> \in Seq(HandoverCall)
    BY HandoverTypes DEF HandoverCall, Handovers, Do
  <2>5. Run(StageSteps, <<Do("begin", Main), Do("end", Main)>>, a, b)
    BY <2>2, <2>4, StageSteady DEF HandoverCall, Neutral
  <2>6. <<Do("begin", Main), Do("end", Main)>> \in Seq(Call)
    BY HandoverTypes
  <2>7. <<>> \o rest = rest
    BY <1>1
  <2> QED
    BY <1>7, <1>8, <2>1, <2>2, <2>3, <2>5, <2>6, <2>7
<1>13. CASE PerformBegin(call, rest) \/ PerformEnd(call, rest)
  <2>1. /\ UNCHANGED <<hooks, armed, cpuActive, recorder>> /\ todo' = rest
        /\ call.op \in {"begin", "guard", "end"}
    BY <1>13 DEF PerformBegin, PerformEnd, patch
  <2>2. a = b /\ a \in {"settled", "stop", "hooked"}
    BY <1>2, <2>1 DEF StageStep, StageEdges, Neutral, Handovers, VmOps
  <2>3. /\ timer' \in {timer, BeginDrain(timer), EndDrain(timer)}
        /\ ~cpuActive => timer' = timer
    BY <1>13 DEF PerformBegin, PerformEnd
  <2>4. SameCounts(timer, timer') /\ timer'.slot = timer.slot /\ timer'.active = timer.active
    BY <1>1, <2>3, CountsKept, SameSlots DEF SameCounts, SameSlot
  <2>5. cpuActive => /\ (timer.draining <=> workDepth > 0)
                            => (timer'.draining <=> workDepth' > 0)
                     /\ WorkDrains => WorkDrains'
    <3>1. BeginDrain(timer).draining /\ ~EndDrain(timer).draining
      BY <1>1, CountsKept
    <3>2. CASE PerformBegin(call, rest)
      BY <1>1, <3>1, <3>2 DEF PerformBegin, WorkDrains
    <3>3. CASE PerformEnd(call, rest)
      BY <1>1, <3>1, <3>3 DEF PerformEnd, WorkDrains
    <3> QED
      BY <1>13, <3>2, <3>3
  <2>6. StageFits(a)'
    <3>1. CASE Off /\ a = "settled"
      BY <2>1, <2>3, <3>1 DEF StageFits, Off, Fresh, recorder
    <3>2. CASE On /\ a \in {"settled", "stop"}
      BY <2>1, <2>4, <2>5, <3>2 DEF StageFits, On, recorder
    <3>3. CASE a = "hooked"
      BY <1>2, <2>1, <2>4, <2>5, <3>3 DEF StageFits, NothingCounted, SameCounts, recorder
    <3> QED
      BY <1>2, <2>2, <3>1, <3>2, <3>3 DEF StageFits
  <2> QED
    BY <1>8, <2>1, <2>2, <2>6
<1>14. CASE PerformPublishSlot(call, rest)
  <2>1. /\ UNCHANGED <<hooks, armed, bridge, recorder>> /\ todo' = rest
        /\ call.op \in {"open", "shut"}
        /\ timer' = OpenSlot(timer) \/ timer' = CloseSlot(timer, Shut(call))
    BY <1>14 DEF PerformPublishSlot, patch, Shut
  <2>2. a = b
    BY <1>2, <2>1 DEF StageStep, StageEdges
  <2>3. Shut(call) \in Slot
    BY <1>1 DEF Shut, Slot, Call
  <2>4. /\ SameCounts(timer, timer') /\ timer'.active = timer.active
        /\ timer'.draining = timer.draining
    BY <1>1, <2>1, <2>3, CountsKept
  <2>5. StageFits(a)'
    BY <1>2, <1>4, <2>1, <2>4, StageFrame DEF bridge, recorder
  <2> QED
    BY <1>8, <2>1, <2>2, <2>5
<1>15. CASE PerformDrain(call, rest)
  <2>1. /\ call.op = "drain" /\ UNCHANGED <<hooks, armed, bridge, recording>>
    BY <1>15 DEF PerformDrain, patch
  <2>2. \/ a = b /\ a \in {"settled", "stop", "hooked"}
        \/ a = "disarmed" /\ b = "drained"
    BY <1>2, <2>1 DEF StageStep, StageEdges, Neutral, Handovers, VmOps
  <2>3. CASE timer.events = <<>>
    BY <1>15, <2>3, <1>2, <2>1, <2>2, <1>8 DEF PerformDrain, StageFits, On, Off, Fresh,
       NothingCounted, WorkDrains, bridge
  <2>4. CASE timer.events # <<>>
    <3>1. todo' = todo /\ timer' = TakeEvent(timer)
      BY <1>15, <2>4 DEF PerformDrain
    <3>2. timer'.active = timer.active /\ timer'.draining = timer.draining
      BY <1>1, <3>1, CountsKept
    <3>3. ~NothingCounted /\ ~Fresh
      BY <1>9, <2>4 DEF NothingCounted, Fresh
    <3>4. StageFits(a)'
      BY <1>2, <2>1, <2>2, <3>2, <3>3 DEF StageFits, On, Off, bridge
    <3> QED
      BY <1>t, <3>1, <3>4 DEF Staged
  <2> QED
    BY <2>3, <2>4
<1>16. CASE PerformQuality(call, rest)
  <2>1. /\ call.op = "quality" /\ UNCHANGED <<hooks, armed, bridge, recording>>
        /\ todo' = rest /\ timer' = TakeQuality(timer)
    BY <1>16 DEF PerformQuality, patch
  <2>2. \/ a = b /\ a \in {"settled", "stop", "hooked"}
        \/ a = "drained" /\ b = "cleared"
    BY <1>2, <2>1 DEF StageStep, StageEdges, Neutral, Handovers, VmOps
  <2>3. /\ timer'.active = timer.active /\ timer'.draining = timer.draining
        /\ timer'.slot = timer.slot
    BY <1>1, <2>1, CountsKept, ExpirationsMove
  <2>4. Expirations(timer) = 0 \/ timer.events = <<>> => Expirations(timer') = 0
    BY <1>1, <1>9, <2>1, ExpirationsMove
  <2>5. StageFits(b)'
    BY <1>2, <2>1, <2>2, <2>3, <2>4
       DEF StageFits, On, Off, Fresh, NothingCounted, WorkDrains, bridge
  <2> QED
    BY <1>8, <2>1, <2>5
<1>17. CASE PerformActivate(call, rest)
  <2>1. a = "start" /\ b = "activated"
    BY <1>2, <1>17 DEF PerformActivate, StageStep, StageEdges, Neutral, Handovers, VmOps
  <2>2. Fresh' /\ timer'.draining
    BY <1>17, <1>1, ExpirationsMove DEF PerformActivate, NewTimer, Fresh
  <2>3. StageFits(b)'
    BY <1>2, <1>17, <2>1, <2>2 DEF PerformActivate, StageFits, Off, WorkDrains, patch
  <2> QED
    BY <1>8, <1>17, <2>3 DEF PerformActivate
<1>18. CASE PerformArm(call, rest)
  <2>1. a = "hooked" /\ b = "settled"
    BY <1>2, <1>18 DEF PerformArm, StageStep, StageEdges, Neutral, Handovers, VmOps
  <2>2. UNCHANGED <<hooks, workDepth, recorder>>
    BY <1>18 DEF PerformArm, patch
  <2>3. /\ Do("release", call.state) \in Call /\ Do("hooks", call.state) \in Call
        /\ Do("delete", call.state) \in Call /\ Do("finish", call.state) \in Call
    BY <1>3, CallTypes DEF Ops
  <2>4. CASE armed' = TRUE /\ timer' = [timer EXCEPT !.active = TRUE]
             /\ todo' = <<Do("release", call.state)>> \o rest /\ cpuActive' = cpuActive
    <3>1. timer'.active /\ timer'.draining = timer.draining
      BY <1>1, <2>4, CountsKept
    <3>2. StageFits("armed")'
      BY <1>2, <2>1, <2>2, <2>4, <3>1 DEF StageFits, WorkDrains, recorder
    <3>3. <<"armed", Do("release", call.state), "settled">> \in StageSteps
      BY <2>3 DEF StageSteps, Stages, StageStep, StageEdges, Do
    <3>4. <<Do("release", call.state)>> \in Seq(Call) /\ "armed" \in Stages
      BY <2>3 DEF Stages
    <3> QED
      BY <1>7, <2>1, <2>4, <3>2, <3>3, <3>4, Run1
  <2>5. CASE cpuActive' = FALSE /\ UNCHANGED <<armed, timer>>
             /\ todo' = <<Do("hooks", call.state), Do("delete", call.state),
                          Do("finish", call.state)>> \o rest
    <3>1. StageFits("failed")'
      BY <1>2, <2>1, <2>2, <2>5 DEF StageFits, NothingCounted, recorder
    <3>2. /\ <<"failed", Do("hooks", call.state), "unhooked">> \in StageSteps
          /\ <<"unhooked", Do("delete", call.state), "deleted">> \in StageSteps
          /\ <<"deleted", Do("finish", call.state), "settled">> \in StageSteps
      BY <2>3 DEF StageSteps, Stages, StageStep, StageEdges, Do
    <3>3. /\ <<Do("hooks", call.state), Do("delete", call.state), Do("finish", call.state)>>
                \in Seq(Call)
          /\ "failed" \in Stages
      BY <2>3 DEF Stages
    <3> QED
      BY <1>7, <2>1, <2>5, <3>1, <3>2, <3>3, Run3
  <2> QED
    BY <1>18, <2>4, <2>5 DEF PerformArm
<1>19. CASE PerformRelease(call, rest)
  <2>1. a = "armed" /\ b = "settled"
    BY <1>2, <1>19 DEF PerformRelease, StageStep, StageEdges, Neutral, Handovers, VmOps
  <2>2. EndDrain(timer).active = timer.active /\ ~EndDrain(timer).draining
    BY <1>1, CountsKept
  <2>3. StageFits(b)'
    BY <1>1, <1>2, <1>19, <2>1, <2>2
       DEF PerformRelease, StageFits, On, WorkDrains, patch, bridge, recorder
  <2> QED
    BY <1>8, <1>19, <2>3 DEF PerformRelease
<1>20. CASE PerformDisarm(call, rest)
  BY <1>2, <1>20, <1>8 DEF PerformDisarm, StageStep, StageEdges, Neutral, Handovers, VmOps,
     StageFits, On, patch, bridge, recorder
<1>21. CASE PerformDeactivate(call, rest)
  BY <1>2, <1>21, <1>8 DEF PerformDeactivate, StageStep, StageEdges, Neutral, Handovers,
     VmOps, StageFits, NothingCounted, patch, recorder
<1>22. CASE PerformDelete(call, rest)
  <2>1. a = "unhooked" /\ b = "deleted"
    BY <1>2, <1>22 DEF PerformDelete, StageStep, StageEdges, Neutral, Handovers, VmOps
  <2>2. Fresh'
    BY <1>1, <1>22, ExpirationsMove DEF PerformDelete, Fresh
  <2>3. StageFits(b)'
    BY <1>2, <1>22, <2>1, <2>2 DEF PerformDelete, StageFits, patch, bridge, recorder
  <2> QED
    BY <1>8, <1>22, <2>3 DEF PerformDelete
<1>23. CASE PerformFinish(call, rest)
  BY <1>2, <1>23, <1>8 DEF PerformFinish, StageStep, StageEdges, Neutral, Handovers, VmOps,
     StageFits, Off, Fresh, patch, bridge
<1>24. CASE PerformMemory(call, rest)
  <2>1. a = "toggle" /\ b = "toggled"
    BY <1>2, <1>24 DEF PerformMemory, StageStep, StageEdges, Neutral, Handovers, VmOps
  <2>2. StageFits(b)'
    BY <1>2, <1>24, <2>1 DEF PerformMemory, StageFits, On, Off, Fresh, patch, recorder
  <2> QED
    BY <1>8, <1>24, <2>2 DEF PerformMemory
<1> QED
  BY <1>6, <1>10, <1>11, <1>12, <1>13, <1>14, <1>15, <1>16, <1>17, <1>18, <1>19, <1>20, <1>21,
     <1>22, <1>23, <1>24 DEF StackCall

\* The timer that runs belongs to the recording.
LEMMA ArmedRecords ==
    ASSUME Staged, armed
    PROVE  /\ timer.active /\ recording /\ cpuActive /\ hooks.cpu
           /\ Idle /\ TypeOK => On
<1>1. PICK a \in Stages : StageFits(a) /\ Run(StageSteps, todo, a, "settled")
  BY DEF Staged
<1>2. timer.active /\ recording /\ cpuActive /\ hooks.cpu
  BY <1>1 DEF StageFits, On, Off, Stages
<1>3. Idle => a = "settled"
  BY <1>1, RunEmpty DEF Idle
<1> QED
  BY <1>1, <1>2, <1>3 DEF StageFits, Off

LEMMA StagedTick ==
    ASSUME TypeOK, Staged, NEW overrun \in 0 .. MaxOverrun, Tick(overrun)
    PROVE  Staged'
<1>1. PICK a \in Stages : StageFits(a) /\ Run(StageSteps, todo, a, "settled")
  BY DEF Staged
<1>2. armed /\ timer.active
  BY ArmedRecords DEF Tick
<1>3. timer \in Timer /\ overrun \in Nat /\ timer' = Handle(timer, overrun)
      /\ UNCHANGED <<todo, hooks, armed, bridge, recorder>>
  BY BoundsAssumption DEF TypeOK, Tick
<1>4. timer'.active = timer.active /\ timer'.draining = timer.draining
  BY <1>2, <1>3, HandleCounts DEF Counted
<1>5. StageFits(a)'
  BY <1>1, <1>2, <1>3, <1>4 DEF StageFits, On, Off, WorkDrains, bridge, recorder
<1> QED
  BY <1>1, <1>3, <1>5 DEF Staged

LEMMA ApiReturnWithin ==
    ASSUME NEW L \in States
    PROVE  ApiReturn(L) \in Seq(VmCall) /\ ApiReturn(L) \in Seq(Call)
BY VmCalls, FunctionFacts, CatProperties, SeqWithin DEF VmOps, CloseGuard, ApiReturn,
   VmCall

LEMMA StagedApplication == ASSUME TypeOK, Staged, Application PROVE Staged'
<1> DEFINE L == Running
<1>1. PICK a \in Stages : StageFits(a) /\ Run(StageSteps, todo, a, "settled")
  BY DEF Staged
<1>2. Idle /\ UNCHANGED <<hooks, timer, armed, bridge, recorder>>
  BY ApplicationFrame
<1>3. a = "settled"
  BY <1>1, <1>2, RunEmpty DEF Idle
<1>4. \A x : StageFits(x) => StageFits(x)'
  BY <1>2, StageFrame DEF SameCounts, bridge, recorder
<1>5. VmCall \in SUBSET Call /\ \A c \in VmCall : c.op \in Neutral("settled")
  BY DEF VmCall, Neutral
<1>6. "settled" \in Stages /\ "stop" \in Stages /\ "start" \in Stages /\ "toggle" \in Stages
  BY DEF Stages
<1>7. \A s \in Seq(VmCall) : s \in Seq(Call) /\ Run(StageSteps, s, "settled", "settled")
  BY <1>5, <1>6, StageSteady, SeqWithin
<1>8. CASE ~RecorderAction
  BY <1>8, AppTodo, <1>1, <1>3, <1>4, <1>6, <1>7 DEF Staged
<1>9. L \in States
  BY ChainStates
<1> HIDE DEF L
<1>10. \A op \in Ops : Do(op, L) \in Call /\ Do(op, L).op = op
  BY <1>9, CallTypes DEF Do
<1>11. ApiReturn(L) \in Seq(Call) /\ Run(StageSteps, ApiReturn(L), "settled", "settled")
  BY <1>7, <1>9, ApiReturnWithin
<1>12. \A x, y \in Stages, op \in Ops :
            <<x, op, y>> \in StageEdges => <<x, Do(op, L), y>> \in StageSteps
  BY <1>10 DEF StageSteps, StageStep
<1>13. StopCpu(L) \in Seq(Call) /\ Run(StageSteps, StopCpu(L), "stop", "settled")
  <2> DEFINE s == <<Do("disarm", L), Do("drain", L), Do("quality", L), Do("deactivate", L)>>
             t == <<Do("hooks", L), Do("delete", L), Do("finish", L)>>
  <2>1. s \in Seq(Call) /\ t \in Seq(Call) /\ StopCpu(L) = s \o t
    BY <1>10 DEF Ops, StopCpu
  <2>2. Run(StageSteps, s, "stop", "deactivated")
    BY <1>12, Run4 DEF StageEdges, Stages, Ops
  <2>3. Run(StageSteps, t, "deactivated", "settled")
    BY <1>12, Run3 DEF StageEdges, Stages, Ops
  <2> HIDE DEF s, t
  <2>4. StopCpu(L) \in Seq(Call)
    BY <2>1, CatProperties
  <2> QED
    BY <2>1, <2>2, <2>3, <2>4, RunCat
<1>14. CASE CpuStart
  <2> DEFINE s == <<Do("activate", L), Do("hooks", L), Do("arm", L)>>
  <2>1. ~recording /\ todo' = s \o ApiReturn(L)
    BY <1>14 DEF CpuStart, L
  <2>2. StageFits("start")
    BY <1>1, <1>3, <2>1 DEF StageFits, On
  <2>3. s \in Seq(Call)
    BY <1>10 DEF Ops
  <2>4. Run(StageSteps, s, "start", "settled")
    BY <1>12, Run3 DEF StageEdges, Stages, Ops
  <2> HIDE DEF s
  <2>5. Run(StageSteps, todo', "start", "settled")
    BY <1>11, <2>1, <2>3, <2>4, RunCat
  <2> QED
    BY <1>4, <1>6, <2>2, <2>5 DEF Staged
<1>15. recording => StageFits("stop")
  BY <1>1, <1>3 DEF StageFits, Off
<1>16. CASE CpuStop
  BY <1>16, <1>11, <1>13, RunCat, <1>4, <1>6, <1>15 DEF CpuStop, L, Staged
<1>17. CASE MemoryToggle
  <2> DEFINE s == <<Do("memory", L), Do("hooks", L)>>
  <2>1. todo' = s \o ApiReturn(L)
    BY <1>17 DEF MemoryToggle, L
  <2>2. StageFits("toggle")
    BY <1>1, <1>3 DEF StageFits
  <2>3. s \in Seq(Call)
    BY <1>10 DEF Ops
  <2>4. Run(StageSteps, s, "toggle", "settled")
    BY <1>12, Run2 DEF StageEdges, Stages, Ops
  <2> HIDE DEF s
  <2>5. Run(StageSteps, todo', "toggle", "settled")
    BY <1>11, <2>1, <2>3, <2>4, RunCat
  <2> QED
    BY <1>4, <1>6, <2>2, <2>5 DEF Staged
<1>18. CASE FinalizeRecorder
  <2> DEFINE s == <<DoAs("enter", L, "gc", NoFunction), DoAs("enter", L, "c", Api), Do("guard", L)>>
             u == <<Do("leave", L)>>
             C == {c \in Call : c.op \in {"enter", "guard"}}
  <2>1. recording /\ todo' = s \o StopCpu(L) \o ApiReturn(L) \o u
    BY <1>18 DEF FinalizeRecorder, L
  <2>2. s \in Seq(C) /\ u \in Seq(VmCall)
    <3>1. DoAs("enter", L, "gc", NoFunction) \in C /\ DoAs("enter", L, "c", Api) \in C
          /\ Do("guard", L) \in C
      BY <1>9, CallTypes, FunctionFacts DEF Ops, Do, DoAs
    <3>2. Do("leave", L) \in VmCall
      BY <1>9, VmCalls DEF VmOps
    <3> QED
      BY <3>1, <3>2
  <2>3. C \in SUBSET Call /\ \A c \in C : c.op \in Neutral("stop")
    BY DEF Neutral
  <2> HIDE DEF s, u, C
  <2>4. s \in Seq(Call) /\ Run(StageSteps, s, "stop", "stop")
    BY <1>6, <2>2, <2>3, StageSteady, SeqWithin
  <2>5. u \in Seq(Call) /\ Run(StageSteps, u, "settled", "settled")
    BY <1>7, <2>2
  <2>6. s \o StopCpu(L) \in Seq(Call) /\ Run(StageSteps, s \o StopCpu(L), "stop", "settled")
    BY <1>13, <2>4, CatProperties, RunCat
  <2>7. /\ s \o StopCpu(L) \o ApiReturn(L) \in Seq(Call)
        /\ Run(StageSteps, s \o StopCpu(L) \o ApiReturn(L), "stop", "settled")
    BY <1>11, <2>6, CatProperties, RunCat
  <2>8. Run(StageSteps, todo', "stop", "settled")
    BY <2>1, <2>5, <2>7, RunCat
  <2> QED
    BY <1>4, <1>6, <1>15, <2>1, <2>8 DEF Staged
<1> QED
  BY <1>8, <1>14, <1>16, <1>17, <1>18 DEF RecorderAction

------------------------------------------------------------------------------
(* What the timer has counted, and what is queued, step by step.              *)

\* The parts of a stage that say when the recorder may lose nothing.
LEMMA StageSays ==
    ASSUME TypeOK, Staged, todo # <<>>
    PROVE  /\ Head(todo).op \in {"drain", "quality"} => recording \/ NothingCounted
           /\ Head(todo).op = "delete" => NothingCounted
           /\ Head(todo).op = "hooks" /\ (~hooks.cpu \/ ~cpuActive) => NothingCounted
<1>1. PICK a \in Stages, b \in Stages : StageFits(a) /\ StageStep(a, Head(todo), b)
  BY StageAt
<1>2. Head(todo).op \in {"drain", "quality"} =>
          a \in {"settled", "stop", "hooked", "disarmed", "drained"}
  BY <1>1 DEF StageStep, StageEdges, Neutral, VmOps, Handovers
<1>3. Head(todo).op = "delete" => a = "unhooked"
  BY <1>1 DEF StageStep, StageEdges, Neutral, VmOps, Handovers
<1>4. Head(todo).op = "hooks" => a \in {"activated", "failed", "deactivated", "toggled"}
  BY <1>1 DEF StageStep, StageEdges, Neutral, VmOps, Handovers
<1> QED
  BY <1>1, <1>2, <1>3, <1>4 DEF StageFits, On, Off, Fresh, NothingCounted

\* Any step but a turn of the drain loop does something of its own before the
\* rest of todo.
LEMMA PerformTodo ==
    ASSUME TypeOK, todo # <<>>, Ready(Head(todo)), Perform \/ Disarm
    PROVE  \/ /\ Head(todo).op = "drain" /\ timer.events # <<>> /\ todo' = todo
           \/ /\ \E ins \in Seq(Call) : todo' = ins \o Tail(todo)
              /\ Head(todo).op = "drain" => timer.events = <<>>
<1> DEFINE call == Head(todo)
           rest == Tail(todo)
           Goal == \E ins \in Seq(Call) : todo' = ins \o rest
<1>0. call \in Call /\ rest \in Seq(Call)
  BY TailProperties DEF TypeOK
<1>1. call \in Call /\ rest \in Seq(Call) /\ call.state \in States
  BY <1>0 DEF Call
<1>2. todo' = rest => Goal
  <2>1. <<>> \in Seq(Call) /\ <<>> \o rest = rest
    BY <1>1
  <2> QED
    BY <2>1
<1>3. Ready(call)
  OBVIOUS
<1>4. \/ StackCall(call, rest) \/ PerformHooks(call, rest) \/ PerformFree(call, rest)
      \/ PerformBegin(call, rest) \/ PerformEnd(call, rest)
      \/ PerformPublishSlot(call, rest) \/ PerformDrain(call, rest)
      \/ PerformQuality(call, rest) \/ PerformActivate(call, rest)
      \/ PerformArm(call, rest) \/ PerformRelease(call, rest)
      \/ PerformDeactivate(call, rest) \/ PerformDelete(call, rest)
      \/ PerformFinish(call, rest) \/ PerformMemory(call, rest)
      \/ PerformAllocate(call, rest) \/ PerformDisarm(call, rest)
  BY DEF Perform, Disarm, StackCall
<1> HIDE DEF call, rest
<1>5. ASSUME StackCall(call, rest) PROVE Goal /\ call.op # "drain"
  <2>1. /\ call.op \in StackOps
        /\ \/ Quiet(rest)
           \/ \E kind \in VmStates, f \in Functions \cup {NoFunction} :
                Publish(call.state, kind, f, rest)
    BY <1>1, <1>3, <1>5, StackCallDoes
  <2>2. call.op # "drain"
    BY <2>1 DEF StackOps
  <2>3. ASSUME NEW kind \in VmStates, NEW f \in Functions \cup {NoFunction},
               Publish(call.state, kind, f, rest)
        PROVE  Goal
    <3>1. StateChange(call.state, kind, f) \in Seq(Call)
      BY <1>1, StateChangeTypes
    <3>2. todo' = rest \/ todo' = StateChange(call.state, kind, f) \o rest
      BY SMTT(30), <1>1, <2>3, PublishDoes
    <3> QED
      BY <1>2, <3>1, <3>2
  <2> QED
    BY <1>2, <2>1, <2>2, <2>3 DEF Quiet
<1>6. ASSUME PerformHooks(call, rest) \/ PerformArm(call, rest) PROVE Goal /\ call.op # "drain"
  <2>1. \A op \in Ops : Do(op, call.state) \in Call
    BY <1>1, CallTypes
  <2>2. /\ <<Do("sync", call.state)>> \in Seq(Call) /\ <<Do("release", call.state)>> \in Seq(Call)
        /\ <<Do("hooks", call.state), Do("delete", call.state), Do("finish", call.state)>>
              \in Seq(Call)
    BY <2>1 DEF Ops
  <2> QED
    BY <1>6, <2>2 DEF PerformHooks, PerformArm
<1>7. ASSUME PerformAllocate(call, rest) PROVE Goal /\ call.op # "drain"
  <2>1. <<Do("begin", Main), Do("end", Main)>> \in Seq(Call)
    BY HandoverTypes
  <2>2. <<>> \in Seq(Call)
    OBVIOUS
  <2>3. /\ \/ todo' = <<Do("begin", Main), Do("end", Main)>> \o rest \/ todo' = <<>> \o rest
        /\ call.op # "drain"
    BY <1>7 DEF PerformAllocate
  <2> QED
    BY <2>1, <2>2, <2>3
<1>8. ASSUME PerformDrain(call, rest)
      PROVE  (call.op = "drain" /\ timer.events # <<>> /\ todo' = todo)
             \/ (Goal /\ timer.events = <<>>)
  BY <1>2, <1>8 DEF PerformDrain
<1>9. ASSUME \/ PerformFree(call, rest) \/ PerformBegin(call, rest) \/ PerformEnd(call, rest)
             \/ PerformPublishSlot(call, rest)
             \/ PerformQuality(call, rest) \/ PerformActivate(call, rest)
             \/ PerformRelease(call, rest) \/ PerformDisarm(call, rest)
             \/ PerformDeactivate(call, rest) \/ PerformDelete(call, rest)
             \/ PerformFinish(call, rest) \/ PerformMemory(call, rest)
      PROVE  Goal /\ call.op # "drain"
  BY <1>9, <1>2 DEF PerformFree, PerformBegin, PerformEnd, PerformPublishSlot,
     PerformQuality, PerformActivate, PerformRelease, PerformDisarm, PerformDeactivate,
     PerformDelete, PerformFinish, PerformMemory
<1>10. (call.op = "drain" /\ timer.events # <<>> /\ todo' = todo)
       \/ (Goal /\ (call.op = "drain" => timer.events = <<>>))
  BY <1>4, <1>5, <1>6, <1>7, <1>8, <1>9
<1> QED
  BY <1>10 DEF call, rest

LEMMA DrainKept ==
    ASSUME TypeOK, todo # <<>>, Ready(Head(todo)), Perform \/ Disarm, DrainWaits,
           timer.events # <<>>
    PROVE  DrainWaits'
<1> DEFINE rest == Tail(todo)
<1>1. PICK i \in 1 .. Len(todo) : todo[i].op = "drain"
  BY DEF DrainWaits
<1>2. todo \in Seq(Call) /\ rest \in Seq(Call) /\ Len(rest) = Len(todo) - 1 /\ Head(todo) = todo[1]
      /\ Len(todo) \in Nat /\ \A j \in 1 .. Len(rest) : rest[j] = todo[j + 1]
  BY TailProperties DEF TypeOK
<1>3. \/ Head(todo).op = "drain" /\ todo' = todo
      \/ Head(todo).op # "drain" /\ \E ins \in Seq(Call) : todo' = ins \o rest
  BY PerformTodo
<1>4. CASE Head(todo).op = "drain" /\ todo' = todo
  BY <1>1, <1>4 DEF DrainWaits
<1>5. ASSUME Head(todo).op # "drain", NEW ins \in Seq(Call), todo' = ins \o rest PROVE DrainWaits'
  <2>1. i # 1 /\ i - 1 \in 1 .. Len(rest) /\ rest[i - 1] = todo[i]
    BY <1>1, <1>2, <1>5
  <2> HIDE DEF rest
  <2>2. /\ Len(ins) + (i - 1) \in 1 .. Len(todo')
        /\ todo'[Len(ins) + (i - 1)] = rest[i - 1]
    BY <1>2, <1>5, <2>1, CatProperties
  <2> QED
    BY <1>1, <2>1, <2>2 DEF DrainWaits
<1> QED
  BY <1>3, <1>4, <1>5

Queued ==
    /\ timer.events # <<>> => pending > 0 \/ DrainWaits
    /\ ~hooks.cpu => pending = 0

LEMMA RecorderParts == RecorderInv <=> Staged /\ Queued /\ ExpirationsCounted
BY DEF RecorderInv, Queued

\* Most steps leave what was counted where it is; these are the others.
LEMMA PerformCounts ==
    ASSUME TypeOK, todo # <<>>, Ready(Head(todo)), Perform \/ Disarm
    PROVE  LET call == Head(todo)
               rest == Tail(todo) IN
           \/ /\ SameCounts(timer, timer')
              /\ UNCHANGED <<hooks, pending, stats, expired>>
           \/ /\ PerformHooks(call, rest) /\ UNCHANGED <<timer, stats, expired>>
           \/ PerformDrain(call, rest) \/ PerformQuality(call, rest)
           \/ PerformActivate(call, rest) \/ PerformDelete(call, rest)
           \/ PerformDisarm(call, rest)
<1> DEFINE call == Head(todo)
           rest == Tail(todo)
           Same == SameCounts(timer, timer') /\ UNCHANGED <<hooks, pending, stats, expired>>
<1>1. call \in Call /\ rest \in Seq(Call)
  BY TailProperties DEF TypeOK
<1>2. timer \in Timer /\ SameCounts(timer, timer)
  BY DEF TypeOK, SameCounts
<1>3. Ready(call)
  OBVIOUS
<1>4. \/ StackCall(call, rest) \/ PerformHooks(call, rest) \/ PerformFree(call, rest)
      \/ PerformBegin(call, rest) \/ PerformEnd(call, rest)
      \/ PerformPublishSlot(call, rest) \/ PerformDrain(call, rest)
      \/ PerformQuality(call, rest) \/ PerformActivate(call, rest)
      \/ PerformArm(call, rest) \/ PerformRelease(call, rest)
      \/ PerformDeactivate(call, rest) \/ PerformDelete(call, rest)
      \/ PerformFinish(call, rest) \/ PerformMemory(call, rest)
      \/ PerformAllocate(call, rest) \/ PerformDisarm(call, rest)
  BY DEF Perform, Disarm, StackCall
<1> HIDE DEF call, rest
<1>5. StackCall(call, rest) => Same
  BY <1>1, <1>2, <1>3, StackCallDoes DEF recorder
<1>6. PerformFree(call, rest) \/ PerformAllocate(call, rest) \/ PerformDeactivate(call, rest)
      \/ PerformFinish(call, rest) \/ PerformMemory(call, rest) => Same
  BY <1>2 DEF PerformFree, PerformAllocate, PerformDeactivate, PerformFinish, PerformMemory,
     recorder, patch
<1>7. PerformBegin(call, rest) \/ PerformEnd(call, rest) \/ PerformRelease(call, rest)
      \/ PerformArm(call, rest) => Same
  <2>1. /\ SameCounts(timer, BeginDrain(timer)) /\ SameCounts(timer, EndDrain(timer))
        /\ SameCounts(timer, [timer EXCEPT !.active = TRUE])
    BY <1>2, CountsKept
  <2>2. PerformBegin(call, rest) \/ PerformEnd(call, rest) => Same
    BY <1>2, <2>1 DEF PerformBegin, PerformEnd, recorder, patch
  <2>3. PerformRelease(call, rest) \/ PerformArm(call, rest) => Same
    BY <1>2, <2>1 DEF PerformRelease, PerformArm, recorder, patch
  <2> QED
    BY <2>2, <2>3
<1>8. PerformPublishSlot(call, rest) => Same
  BY <1>1, <1>2, CountsKept DEF Shut, Slot, Call, PerformPublishSlot, recorder, patch
<1>9. PerformHooks(call, rest) => UNCHANGED <<timer, stats, expired>>
  BY DEF PerformHooks, recorder
<1>10. \/ Same \/ (PerformHooks(call, rest) /\ UNCHANGED <<timer, stats, expired>>)
       \/ PerformDrain(call, rest) \/ PerformQuality(call, rest)
       \/ PerformActivate(call, rest) \/ PerformDelete(call, rest)
       \/ PerformDisarm(call, rest)
  BY <1>4, <1>5, <1>6, <1>7, <1>8, <1>9
<1> QED
  BY <1>10 DEF call, rest

LEMMA StatsTypes ==
    ASSUME TypeOK
    PROVE  stats.samples \in Nat /\ stats.lost \in Nat /\ stats.overrunTicks \in Nat /\ expired \in Nat
BY DEF TypeOK

LEMMA CountedPerform ==
    ASSUME TypeOK, todo # <<>>, Ready(Head(todo)), Staged, ExpirationsCounted, Perform \/ Disarm
    PROVE  ExpirationsCounted'
<1> DEFINE call == Head(todo)
           rest == Tail(todo)
<1>1. timer \in Timer /\ Expirations(timer) \in Nat
  BY ExpirationsNat DEF TypeOK
<1>2. /\ call.op \in {"drain", "quality"} => recording \/ NothingCounted
      /\ call.op = "delete" => NothingCounted
  BY StageSays
<1>3. \/ SameCounts(timer, timer') /\ UNCHANGED <<hooks, pending, stats, expired>>
      \/ UNCHANGED <<timer, stats, expired>>
      \/ PerformDrain(call, rest) \/ PerformQuality(call, rest)
      \/ PerformActivate(call, rest) \/ PerformDelete(call, rest)
      \/ PerformDisarm(call, rest)
  BY PerformCounts
<1> HIDE DEF call, rest
<1> DEFINE p == stats.samples
           q == stats.lost
           r == stats.overrunTicks
           e == Expirations(timer)
<1>4. p \in Nat /\ q \in Nat /\ r \in Nat /\ e \in Nat /\ expired \in Nat /\ expired = p + q + r + e
  BY <1>1, StatsTypes DEF ExpirationsCounted
<1>5. CASE SameCounts(timer, timer') /\ UNCHANGED <<stats, expired>>
  BY <1>4, <1>5 DEF SameCounts, ExpirationsCounted
<1>6. CASE UNCHANGED <<timer, stats, expired>>
  BY <1>4, <1>6 DEF ExpirationsCounted
<1>7. CASE PerformDrain(call, rest)
  <2>1. call.op = "drain" /\ expired' = expired
    BY <1>7 DEF PerformDrain
  <2>2. CASE timer.events = <<>>
    BY <1>4, <1>7, <2>1, <2>2 DEF PerformDrain, ExpirationsCounted
  <2>3. CASE timer.events # <<>>
    <3>1. recording
      BY <1>1, <1>2, <2>1, <2>3, ExpirationsNat DEF NothingCounted
    <3>2. timer' = TakeEvent(timer) /\ stats' = [stats EXCEPT !.samples = @ + 1]
      BY <1>7, <2>3, <3>1 DEF PerformDrain
    <3>3. Expirations(timer') = e - 1
      BY <1>1, <2>3, <3>2, ExpirationsMove
    <3>4. stats'.samples = p + 1 /\ stats'.lost = q /\ stats'.overrunTicks = r
      BY <3>2 DEF TypeOK
    <3> HIDE DEF p, q, r, e
    <3>5. expired = p + 1 + q + r + (e - 1)
      BY <1>4
    <3> QED
      BY <2>1, <3>3, <3>4, <3>5 DEF ExpirationsCounted
  <2> QED
    BY <2>2, <2>3
<1>8. CASE PerformQuality(call, rest)
  <2>1. call.op = "quality" /\ expired' = expired /\ timer' = TakeQuality(timer)
    BY <1>8 DEF PerformQuality
  <2> DEFINE d == timer.dropped
             u == timer.unstable
             o == timer.overhead
             t == timer.overrunTicks
             ee == Expirations(timer')
  <2>2. /\ e = ee + d + u + o + t
        /\ d \in Nat /\ u \in Nat /\ o \in Nat /\ t \in Nat
    BY <1>1, <2>1, ExpirationsMove
  <2>3. ee \in Nat
    BY <1>1, <2>1, TimerTypes, ExpirationsNat
  <2>4. CASE recording
    <3>1. stats' = [stats EXCEPT !.lost = @ + d + u + o, !.overrunTicks = @ + t]
      BY <1>8, <2>4 DEF PerformQuality
    <3>2. stats'.samples = p /\ stats'.lost = q + d + u + o /\ stats'.overrunTicks = r + t
      BY <3>1 DEF TypeOK
    <3> HIDE DEF p, q, r, e, d, u, o, t, ee
    <3>3. expired = p + (q + d + u + o) + (r + t) + ee
      BY <1>4, <2>2, <2>3
    <3> QED
      BY <2>1, <3>2, <3>3 DEF ee, ExpirationsCounted
  <2>5. CASE ~recording
    <3>1. e = 0 /\ stats' = stats
      BY <1>2, <1>8, <2>1, <2>5 DEF NothingCounted, PerformQuality
    <3> HIDE DEF e, d, u, o, t, ee
    <3>2. ee = 0
      BY <2>2, <2>3, <3>1
    <3> QED
      BY <1>4, <2>1, <3>1, <3>2 DEF ee, ExpirationsCounted
  <2> QED
    BY <2>4, <2>5
<1>9. CASE PerformActivate(call, rest)
  BY <1>9, <1>1, ExpirationsMove, <1>4 DEF PerformActivate, ExpirationsCounted
<1>10. CASE PerformDelete(call, rest)
  BY <1>2, <1>10, <1>1, ExpirationsMove, <1>4 DEF PerformDelete, NothingCounted, recorder,
     ExpirationsCounted
<1>11. CASE PerformDisarm(call, rest)
  <2> DEFINE stopped == [timer EXCEPT !.active = FALSE]
  <2>1. stopped \in Timer /\ Expirations(stopped) = e
    BY <1>1, TimerTypes, CountsKept DEF SameCounts
  <2>2. stats' = stats
    BY <1>11 DEF PerformDisarm, recorder
  <2>3. CASE timer' = stopped /\ expired' = expired
    BY <1>4, <2>1, <2>2, <2>3 DEF ExpirationsCounted
  <2>4. ASSUME NEW overrun \in 0 .. MaxOverrun, timer' = Discard(stopped, overrun),
               expired' = expired + 1 + overrun
        PROVE  ExpirationsCounted'
    <3>1. overrun \in Nat
      BY BoundsAssumption
    <3>2. Expirations(timer') = e + (1 + overrun)
      BY <2>1, <2>4, <3>1, DiscardCounts DEF Counted
    <3> HIDE DEF p, q, r, e
    <3>3. expired + 1 + overrun = p + q + r + (e + (1 + overrun))
      BY <1>4, <3>1
    <3> QED
      BY <2>2, <2>4, <3>2, <3>3 DEF p, q, r, ExpirationsCounted
  <2> QED
    BY <1>11, <2>3, <2>4 DEF PerformDisarm
<1> QED
  BY <1>3, <1>5, <1>6, <1>7, <1>8, <1>9, <1>10, <1>11

LEMMA QueuedPerform ==
    ASSUME TypeOK, todo # <<>>, Ready(Head(todo)), Staged, Queued, Perform \/ Disarm
    PROVE  Queued'
<1> DEFINE call == Head(todo)
           rest == Tail(todo)
<1>1. timer \in Timer
  BY DEF TypeOK
<1>2. \/ SameCounts(timer, timer') /\ UNCHANGED <<hooks, pending, stats, expired>>
      \/ PerformHooks(call, rest) /\ UNCHANGED <<timer, stats, expired>>
      \/ PerformDrain(call, rest) \/ PerformQuality(call, rest)
      \/ PerformActivate(call, rest) \/ PerformDelete(call, rest)
      \/ PerformDisarm(call, rest)
  BY PerformCounts
<1>3. DrainWaits /\ timer.events # <<>> => DrainWaits'
  BY DrainKept
<1>4. call.op = "hooks" /\ (~hooks.cpu \/ ~cpuActive) => timer.events = <<>>
  BY <1>1, StageSays, ExpirationsNat DEF NothingCounted
<1> HIDE DEF call, rest
<1>5. ASSUME UNCHANGED <<hooks, pending>>, timer'.events = timer.events \/ timer'.events = <<>>
      PROVE  Queued'
  BY <1>3, <1>5 DEF Queued
<1>6. CASE SameCounts(timer, timer') /\ UNCHANGED <<hooks, pending>>
  BY <1>5, <1>6 DEF SameCounts
<1>7. CASE PerformHooks(call, rest) /\ timer' = timer
  BY <1>7, <1>3, <1>4 DEF PerformHooks, Queued
<1>8. CASE PerformDrain(call, rest)
  <2>1. UNCHANGED <<hooks, pending>>
    BY <1>8 DEF PerformDrain, patch
  <2>2. CASE timer.events = <<>>
    BY <1>5, <1>8, <2>1, <2>2 DEF PerformDrain
  <2>3. CASE timer.events # <<>>
    BY <1>8, <2>3, <2>1 DEF PerformDrain, DrainWaits, Queued
  <2> QED
    BY <2>2, <2>3
<1>9. CASE PerformQuality(call, rest)
  BY <1>1, <1>5, <1>9, ExpirationsMove DEF PerformQuality, patch
<1>10. CASE PerformActivate(call, rest) \/ PerformDelete(call, rest)
  BY <1>10, <1>5 DEF PerformActivate, PerformDelete, patch, NewTimer
<1>11. CASE PerformDisarm(call, rest)
  <2> DEFINE stopped == [timer EXCEPT !.active = FALSE]
  <2>1. stopped \in Timer /\ stopped.events = timer.events
    BY <1>1, TimerTypes, CountsKept DEF SameCounts
  <2>2. ASSUME NEW overrun \in 0 .. MaxOverrun PROVE Discard(stopped, overrun).events = timer.events
    <3>1. overrun \in Nat
      BY BoundsAssumption
    <3> QED
      BY <2>1, <3>1, DiscardCounts
  <2>3. timer'.events = timer.events /\ UNCHANGED <<hooks, pending>>
    BY <1>11, <2>1, <2>2 DEF PerformDisarm, patch
  <2> QED
    BY <1>5, <2>3
<1> QED
  BY <1>2, <1>6, <1>7, <1>8, <1>9, <1>10, <1>11

LEMMA RecorderTick ==
    ASSUME TypeOK, RecorderInv, NEW overrun \in 0 .. MaxOverrun, Tick(overrun)
    PROVE  RecorderInv'
<1>1. Staged /\ Queued /\ ExpirationsCounted
  BY RecorderParts
<1>2. Staged'
  BY <1>1, StagedTick
<1>3. armed /\ timer.active /\ hooks.cpu
  BY <1>1, ArmedRecords DEF Tick
<1>4. /\ timer \in Timer /\ overrun \in Nat /\ timer' = Handle(timer, overrun)
      /\ pending' = IF Attributable(timer) THEN pending + 1 ELSE pending
      /\ expired' = expired + 1 + overrun /\ UNCHANGED <<todo, hooks, stats>>
      /\ pending \in Nat
  BY BoundsAssumption DEF TypeOK, Tick, recorder
<1>5. /\ Expirations(timer') = Expirations(timer) + (1 + overrun)
      /\ \/ timer'.events = timer.events
         \/ Attributable(timer) /\ timer'.events = Append(timer.events, timer.slot)
  BY <1>3, <1>4, HandleCounts DEF Counted
<1>6. Queued'
  BY <1>4, <1>1, <1>3, <1>5 DEF DrainWaits, Queued
<1>7. ExpirationsCounted'
  <2> DEFINE n == stats.samples + stats.lost + stats.overrunTicks
             e == Expirations(timer)
  <2>1. n \in Nat /\ e \in Nat /\ expired = n + e /\ expired \in Nat
    BY SMTT(30), <1>1, <1>4, ExpirationsNat, StatsTypes DEF ExpirationsCounted
  <2>2. (expired' = n + Expirations(timer')) => ExpirationsCounted'
    BY <1>4 DEF ExpirationsCounted
  <2> HIDE DEF n
  <2>3. expired + 1 + overrun = n + (e + (1 + overrun))
    BY <1>4, <2>1
  <2> QED
    BY <1>4, <1>5, <2>2, <2>3
<1> QED
  BY <1>2, <1>6, <1>7, RecorderParts DEF RecorderInv, Queued

LEMMA RecorderApplication ==
    ASSUME TypeOK, RecorderInv, Application
    PROVE  RecorderInv'
<1>1. Staged /\ Queued /\ ExpirationsCounted
  BY RecorderParts
<1>2. Staged'
  BY <1>1, StagedApplication
<1>3. /\ UNCHANGED <<hooks, timer, stats, expired>> /\ Idle
      /\ pending' = pending \/ (SafePoint /\ pending' = 0)
  BY ApplicationFrame DEF recorder
<1>4. ExpirationsCounted'
  BY <1>1, <1>3 DEF ExpirationsCounted
<1>5. ~DrainWaits
  BY <1>3 DEF Idle, DrainWaits
<1>6. CASE pending' = pending
  BY <1>1, <1>2, <1>3, <1>4, <1>5, <1>6 DEF RecorderInv, Queued
<1>7. CASE SafePoint /\ pending' = 0
  BY <1>7, <1>1, <1>2, <1>3, <1>4 DEF SafePoint, Do, DrainWaits, RecorderInv, Queued
<1> QED
  BY <1>3, <1>6, <1>7

LEMMA RecorderPerform ==
    ASSUME TypeOK, todo # <<>>, Ready(Head(todo)), SlotInv, RecorderInv, Perform \/ Disarm
    PROVE  RecorderInv'
BY RecorderParts, StagedPerform, QueuedPerform, CountedPerform DEF RecorderInv, Queued

------------------------------------------------------------------------------
(* The resumed lua_States, and the names that the timer and the patch hold.   *)

Resumed == {Main} \cup {chain[i] : i \in 1 .. Len(chain)}

ChainInv ==
    /\ status[Main] = "running"
    /\ \A i \in 1 .. Len(chain) : /\ status[chain[i]] = "running"
                                  /\ chain[i] = Main => i = 1
    /\ \A i, j \in 1 .. Len(chain) : chain[i] = chain[j] => i = j

\* Names that may be in the slot (s), in the queue (q) and in profileThread (p),
\* and lua_States that nothing in todo frees (l).
NameSets == {a \in [s: SUBSET States, q: SUBSET States, p: SUBSET States, l: SUBSET States] :
                a.s \subseteq a.q /\ a.q \subseteq a.l}

Publishing == {"enter", "leave", "reenter", "publish", "sync", "hooks", "arm"}
Others == Ops \ (Publishing \cup {"host", "shut", "drain", "free"})

NamesStep(a, c, b) ==
    /\ b.l = a.l
    /\ \/ /\ c.op \in Publishing /\ c.state \in a.l
          /\ a.s \subseteq b.s /\ a.q \subseteq b.q /\ c.state \in b.s /\ Main \in b.s
          /\ c.state \in b.p /\ b.p \subseteq a.l /\ (c.op = "arm" => a.p \subseteq b.p)
       \/ /\ c.op = "host" /\ c.state \in a.l /\ Main \in b.s
          /\ \A x \in a.q : x # c.state \/ x = Main => x \in b.q
          /\ \A x \in a.s : x # c.state \/ x = Main => x \in b.s
          /\ c.state \in b.p /\ b.p \subseteq a.l
       \/ /\ c.op = "shut" /\ c.state \in b.s /\ a.q \subseteq b.q /\ b.p = a.p
       \/ /\ c.op = "drain" /\ a.s \subseteq b.s /\ b.p = a.p
       \/ /\ c.op = "free" /\ c.state \notin a.l /\ c.state \notin a.p /\ b = a
       \/ /\ c.op \in Others /\ b = a
NamesSteps == {t \in NameSets \X Call \X NameSets : NamesStep(t[1], t[2], t[3])}

NamesFits(a) ==
    /\ timer.slot.state # NoState => timer.slot.state \in a.s
    /\ \A i \in 1 .. Len(timer.events) : timer.events[i].state \in a.q
    /\ Shown => profileThread \in a.p
    /\ Resumed \subseteq a.l
    /\ \A x \in a.l \cup a.p : Live(x)

NamesInv == \E a, e \in NameSets : /\ NamesFits(a) /\ Run(NamesSteps, todo, a, e)
                                   /\ e.q \subseteq Resumed

LEMMA NamesStepIn ==
    ASSUME NEW a \in NameSets, NEW b \in NameSets, NEW c \in Call, NamesStep(a, c, b)
    PROVE  <<a, c, b>> \in NamesSteps
BY DEF NamesSteps

LEMMA NamesAt ==
    ASSUME TypeOK, NamesInv, todo # <<>>
    PROVE  \E a, b, e \in NameSets : /\ NamesFits(a) /\ NamesStep(a, Head(todo), b)
                                     /\ Run(NamesSteps, Tail(todo), b, e)
                                     /\ e.q \subseteq Resumed
                                     /\ Run(NamesSteps, todo, a, e)
<1>1. PICK a \in NameSets, e \in NameSets :
            NamesFits(a) /\ Run(NamesSteps, todo, a, e) /\ e.q \subseteq Resumed
  BY DEF NamesInv
<1>2. todo \in Seq(Call)
  BY DEF TypeOK
<1>3. PICK b : <<a, Head(todo), b>> \in NamesSteps /\ Run(NamesSteps, Tail(todo), b, e)
  BY <1>1, <1>2, RunHead
<1>4. b \in NameSets /\ NamesStep(a, Head(todo), b)
  BY <1>3 DEF NamesSteps
<1> QED
  BY <1>1, <1>3, <1>4

LEMMA NameTypes ==
    ASSUME NEW a \in NameSets
    PROVE  /\ a.s \in SUBSET States /\ a.q \in SUBSET States /\ a.p \in SUBSET States
           /\ a.l \in SUBSET States /\ a.s \subseteq a.q /\ a.q \subseteq a.l
BY DEF NameSets

LEMMA NameSetIn ==
    ASSUME NEW l \in SUBSET States, NEW q \in SUBSET l, NEW s \in SUBSET q,
           NEW p \in SUBSET States
    PROVE  LET a == [s |-> s, q |-> q, p |-> p, l |-> l]
           IN  a \in NameSets /\ a.s = s /\ a.q = q /\ a.p = p /\ a.l = l
BY DEF NameSets

\* What a publication inserts into todo brings the names to where the
\* publishing call wants them.
LEMMA NamesChange ==
    ASSUME NEW L \in States, NEW kind \in VmStates, NEW f \in Functions \cup {NoFunction},
           NEW a \in NameSets, NEW b \in NameSets, b.l = a.l,
           IF kind = "host" /\ L # Main THEN Main \in b.s
           ELSE L \in b.s /\ a.q \subseteq b.q,
           Main \in a.l
    PROVE  \E x \in NameSets : /\ x.s = a.s /\ x.q = a.q /\ x.p = b.p /\ x.l = a.l
                               /\ Run(NamesSteps, StateChange(L, kind, f), x, b)
<1> DEFINE x == [s |-> a.s, q |-> a.q, p |-> b.p, l |-> a.l]
           y == [s |-> {Main}, q |-> a.q \cup {Main}, p |-> b.p, l |-> a.l]
<1>1. /\ x \in NameSets /\ x.s = a.s /\ x.q = a.q /\ x.p = b.p /\ x.l = a.l
      /\ y \in NameSets /\ y.s = {Main} /\ y.q = a.q \cup {Main} /\ y.p = b.p /\ y.l = a.l
  <2>1. /\ a.s \in SUBSET a.q /\ a.q \in SUBSET a.l /\ b.p \in SUBSET States
        /\ a.l \in SUBSET States
    BY NameTypes
  <2>2. {Main} \in SUBSET (a.q \cup {Main}) /\ a.q \cup {Main} \in SUBSET a.l
    BY <2>1
  <2>3. x \in NameSets /\ x.s = a.s /\ x.q = a.q /\ x.p = b.p /\ x.l = a.l
    BY SMTT(30), <2>1, NameSetIn
  <2>4. /\ y \in NameSets /\ y.s = {Main} /\ y.q = a.q \cup {Main} /\ y.p = b.p
        /\ y.l = a.l
    BY SMTT(30), <2>1, <2>2, NameSetIn
  <2> QED
    BY <2>3, <2>4
<1> HIDE DEF x, y
<1>2. ASSUME NEW op \in {"open", "begin", "end", "quality"}, NEW X \in States, NEW z \in NameSets
      PROVE  <<z, Do(op, X), z>> \in NamesSteps
  BY CallTypes, NamesStepIn DEF Ops, Others, Publishing, Do, NamesStep
<1>3. Main \in States
  BY MainAssumption
<1>4. CASE kind = "host" /\ L # Main
  <2>1. <<x, Do("shut", Main), y>> \in NamesSteps
    BY <1>1, HandoverTypes, NamesStepIn DEF Do, NamesStep
  <2>2. <<y, Do("drain", Main), b>> \in NamesSteps
    BY <1>1, <1>4, HandoverTypes, NamesStepIn DEF Do, NamesStep
  <2> DEFINE first == <<Do("begin", Main), Do("open", Main), Do("shut", Main), Do("drain", Main)>>
             second == <<Do("quality", Main), Do("end", Main)>>
  <2>3. StateChange(L, kind, f) = first \o second
    BY <1>4 DEF StateChange
  <2>4. first \in Seq(Call) /\ second \in Seq(Call)
    BY HandoverTypes
  <2>5. Run(NamesSteps, first, x, b)
    BY <1>1, <1>2, <1>3, <2>1, <2>2, Run4
  <2>6. Run(NamesSteps, second, b, b)
    BY <1>2, <1>3, Run2
  <2> HIDE DEF first, second
  <2>7. Run(NamesSteps, StateChange(L, kind, f), x, b)
    BY <2>4, <2>5, <2>6, RunCat, <2>3
  <2> QED
    BY <1>1, <2>7
<1>5. CASE ~(kind = "host" /\ L # Main)
  <2>1. StateChange(L, kind, f) = <<Do("open", L), DoAs("shut", L, kind, f)>>
    BY <1>5 DEF StateChange
  <2>2. <<x, DoAs("shut", L, kind, f), b>> \in NamesSteps
    BY CallTypes, <1>1, <1>5, NamesStepIn DEF DoAs, Ops, NamesStep
  <2>3. Run(NamesSteps, StateChange(L, kind, f), x, b)
    <3>1. <<x, Do("open", L), x>> \in NamesSteps
      BY <1>1, <1>2
    <3>2. Run(NamesSteps, <<Do("open", L), DoAs("shut", L, kind, f)>>, x, b)
      BY <2>2, <3>1, Run2
    <3> QED
      BY <2>1, <3>2
  <2> QED
    BY <1>1, <2>3
<1> QED
  BY <1>4, <1>5

LEMMA NamesFrame ==
    ASSUME NEW a, NamesFits(a), UNCHANGED <<hooks, profileThread, status, chain>>,
           SameSlot(timer, timer')
    PROVE  NamesFits(a)'
BY DEF NamesFits, SameSlot, Shown, Resumed, Live

\* The link after a publication that has not reached the timer yet.
LEMMA NamesMove ==
    ASSUME NEW a \in NameSets, NamesFits(a), UNCHANGED <<hooks, timer, status, chain>>,
           NEW x \in NameSets, x.l = a.l, a.s \subseteq x.s, a.q \subseteq x.q, x.p \subseteq a.l,
           (Shown)' => profileThread' \in x.p
    PROVE  NamesFits(x)'
BY DEF NamesFits, Resumed, Live

LEMMA NamesPublish ==
    ASSUME TypeOK, NEW L \in States, NEW kind \in VmStates,
           NEW f \in Functions \cup {NoFunction}, NEW rest \in Seq(Call),
           UNCHANGED <<hooks, timer, status, chain>>, profileThread' = L,
           todo' = StateChange(L, kind, f) \o rest,
           NEW a \in NameSets, NEW b \in NameSets, NEW e \in NameSets, NamesFits(a),
           Run(NamesSteps, rest, b, e), e.q \subseteq Resumed,
           b.l = a.l, L \in b.p, b.p \subseteq a.l,
           IF kind = "host" /\ L # Main THEN Main \in b.s
           ELSE L \in b.s /\ a.q \subseteq b.q
    PROVE  NamesInv'
<1>1. Main \in a.l
  BY DEF NamesFits, Resumed
<1>2. PICK x \in NameSets : /\ x.s = a.s /\ x.q = a.q /\ x.p = b.p /\ x.l = a.l
                            /\ Run(NamesSteps, StateChange(L, kind, f), x, b)
  BY <1>1, NamesChange
<1>3. NamesFits(x)'
  BY <1>2, NamesMove
<1>4. Run(NamesSteps, todo', x, e)
  BY <1>2, StateChangeTypes, RunCat
<1>5. Resumed' = Resumed
  BY DEF Resumed
<1> QED
  BY <1>3, <1>4, <1>5 DEF NamesInv

LEMMA NamesPerform ==
    ASSUME TypeOK, todo # <<>>, Ready(Head(todo)), SlotInv, Staged, NamesInv, Perform \/ Disarm
    PROVE  NamesInv'
<1> DEFINE call == Head(todo)
           rest == Tail(todo)
<1>1. call \in Call /\ rest \in Seq(Call) /\ timer \in Timer
  BY TailProperties DEF TypeOK
<1>2. PICK a \in NameSets, b \in NameSets, e \in NameSets :
            /\ NamesFits(a) /\ NamesStep(a, call, b)
            /\ Run(NamesSteps, rest, b, e) /\ e.q \subseteq Resumed
            /\ Run(NamesSteps, todo, a, e)
  BY NamesAt
<1>3. call.state \in States /\ call.op \in Ops
  BY <1>1 DEF Call
<1>4. call.op = "host" /\ ~hooks.cpu => timer.slot.state = NoState /\ timer.events = <<>>
  <2>1. PICK sa \in Stages, sb \in Stages : StageFits(sa) /\ StageStep(sa, call, sb)
    BY StageAt
  <2>2. call.op = "host" => sa = "settled"
    BY <2>1 DEF StageStep, StageEdges, Neutral, VmOps, Handovers
  <2> QED
    BY <1>1, <2>1, <2>2, ExpirationsNat DEF StageFits, Off, On, Fresh
<1>5. call.op = "host" /\ hooks.cpu /\ Handing =>
          /\ timer.slot.state = Main
          /\ \A i \in 1 .. Len(timer.events) : timer.events[i].state # profileThread
  <2>1. PICK sa \in SlotPhase, sb \in SlotPhase : SlotFits(sa) /\ SlotStep(sa, call, sb)
    BY SlotAt
  <2>2. call.op = "host" => sa.phase = "clean"
    BY <2>1 DEF SlotStep
  <2> QED
    BY <2>1, <2>2 DEF SlotFits, Shown, Handing, Target, MainsHost
<1>6. Ready(call)
  OBVIOUS
<1>7. \/ StackCall(call, rest) \/ PerformHooks(call, rest) \/ PerformFree(call, rest)
      \/ PerformBegin(call, rest) \/ PerformEnd(call, rest)
      \/ PerformPublishSlot(call, rest) \/ PerformDrain(call, rest)
      \/ PerformQuality(call, rest) \/ PerformActivate(call, rest)
      \/ PerformArm(call, rest) \/ PerformRelease(call, rest)
      \/ PerformDeactivate(call, rest) \/ PerformDelete(call, rest)
      \/ PerformFinish(call, rest) \/ PerformMemory(call, rest)
      \/ PerformAllocate(call, rest) \/ PerformDisarm(call, rest)
  BY DEF Perform, Disarm, StackCall
<1> HIDE DEF call, rest
<1>8. /\ a.s \in SUBSET States /\ a.q \in SUBSET States /\ a.p \in SUBSET States
      /\ a.l \in SUBSET States /\ a.s \subseteq a.q /\ a.q \subseteq a.l
      /\ b.s \in SUBSET States /\ b.q \in SUBSET States /\ b.p \in SUBSET States
      /\ b.l \in SUBSET States /\ b.s \subseteq b.q /\ b.q \subseteq b.l
  BY <1>2, NameTypes
<1>9. ASSUME todo' = rest, chain' = chain, NamesFits(b)' PROVE NamesInv'
  BY <1>2, <1>9 DEF NamesInv, Resumed
<1>10. ASSUME NEW ins \in Seq(Call), todo' = ins \o rest, chain' = chain,
              NEW x \in NameSets, NamesFits(x)', Run(NamesSteps, ins, x, b)
       PROVE  NamesInv'
  BY <1>1, <1>2, <1>10, RunCat DEF NamesInv, Resumed
<1>11. call.op \in Publishing =>
          /\ b.l = a.l /\ call.state \in a.l /\ a.s \subseteq b.s /\ a.q \subseteq b.q
          /\ call.state \in b.s /\ Main \in b.s /\ call.state \in b.p /\ b.p \subseteq a.l
          /\ (call.op = "arm" => a.p \subseteq b.p)
  BY <1>2 DEF NamesStep, Publishing, Others
<1>12. call.op \in Others => b = a
  BY <1>2 DEF NamesStep, Publishing, Others
<1>13. SameSlot(timer, timer)
  BY DEF SameSlot
<1>14. ASSUME NEW op \in Others PROVE <<b, Do(op, call.state), b>> \in NamesSteps
  BY <1>3, CallTypes, NamesStepIn DEF Others, Do, NamesStep
<1>15. ASSUME NEW op \in {"sync", "hooks"}, call.op \in Publishing
       PROVE  <<a, Do(op, call.state), b>> \in NamesSteps
  BY <1>3, CallTypes, <1>11, <1>15, NamesStepIn DEF Publishing, Ops, Do, NamesStep
<1>16. ASSUME StackCall(call, rest), call.op # "host" PROVE NamesInv'
  <2>1. /\ UNCHANGED <<status, chain, hooks, timer>> /\ call.op \in Publishing
        /\ \/ Quiet(rest) /\ ~hooks.cpu
           \/ \E kind \in VmStates, f \in Functions \cup {NoFunction} :
                Publish(call.state, kind, f, rest)
    BY <1>1, <1>6, <1>16, StackCallDoes DEF StackOps, Publishing
  <2>2. CASE Quiet(rest) /\ ~hooks.cpu
    BY <1>2, <1>11, <2>1, <2>2, NamesMove, <1>9 DEF Shown, Quiet
  <2>3. ASSUME NEW kind \in VmStates, NEW f \in Functions \cup {NoFunction},
               Publish(call.state, kind, f, rest)
        PROVE  NamesInv'
    <3>1. /\ profileThread' = call.state
          /\ todo' = rest \/ todo' = StateChange(call.state, kind, f) \o rest
      BY <1>1, <1>3, <2>3, PublishDoes
    <3>2. CASE todo' = rest
      BY <1>2, <1>11, <2>1, <3>1, NamesMove, <1>9, <3>2
    <3>3. CASE todo' = StateChange(call.state, kind, f) \o rest
      BY <1>1, <1>2, <1>3, <1>11, <2>1, <3>1, <3>3, NamesPublish
    <3> QED
      BY <3>1, <3>2, <3>3
  <2> QED
    BY <2>1, <2>2, <2>3
<1>17. ASSUME StackCall(call, rest), call.op = "host" PROVE NamesInv'
  <2>1. /\ b.l = a.l /\ Main \in b.s /\ call.state \in b.p /\ b.p \subseteq a.l
        /\ \A x \in a.q : x # call.state \/ x = Main => x \in b.q
        /\ \A x \in a.s : x # call.state \/ x = Main => x \in b.s
    BY <1>2, <1>17 DEF NamesStep, Publishing, Others
  <2>2. PerformHost(call, rest)
    BY <1>17 DEF StackCall, PerformEnter, PerformReenter, PerformLeave, PerformPublish,
       PerformSync
  <2>3. UNCHANGED <<status, chain, hooks, timer>>
    BY <2>2 DEF PerformHost, vm
  <2>4. CASE ~hooks.cpu
    BY <1>4, <1>17, <2>4, <1>2, <2>1, <2>3, <1>9, <2>2 DEF NamesFits, Shown, Resumed, Live,
       PerformHost
  <2>5. CASE hooks.cpu
    <3>1. Publish(call.state, "host", NoFunction, rest)
      BY <2>2, <2>5 DEF PerformHost
    <3>2. "host" \in VmStates /\ NoFunction \in Functions \cup {NoFunction}
      BY DEF VmStates
    <3>3. profileThread' = call.state
      BY <1>1, <1>3, <3>1, <3>2, PublishDoes
    <3>4. CASE /\ profileThread = call.state
               /\ profile[call.state] = [vm |-> "host", cfunction |-> NoFunction]
      <4>1. todo' = rest
        BY <3>1, <3>4 DEF Publish
      <4>2. call.state # Main => Handing
        BY <1>3, <3>4, NullAssumption DEF Handing
      <4>3. /\ timer.slot.state # NoState => timer.slot.state \in b.s
            /\ \A i \in 1 .. Len(timer.events) : timer.events[i].state \in b.q
        <5>1. CASE call.state = Main
          BY <1>2, <2>1, <5>1 DEF NamesFits
        <5>2. CASE call.state # Main
          BY <1>5, <1>17, <2>5, <3>4, <4>2, <5>2, <1>2, <2>1 DEF NamesFits
        <5> QED
          BY <5>1, <5>2
      <4>4. NamesFits(b)'
        BY <1>2, <2>1, <2>3, <3>3, <4>3 DEF NamesFits, Resumed, Live
      <4> QED
        BY <1>9, <2>3, <4>1, <4>4
    <3>5. CASE ~(/\ profileThread = call.state
                 /\ profile[call.state] = [vm |-> "host", cfunction |-> NoFunction])
      BY <2>5, <3>1, <3>5, <2>1, <1>1, <1>2, <1>3, <2>3, <3>2, <3>3, NamesPublish DEF
         Publish
    <3> QED
      BY <3>4, <3>5
  <2> QED
    BY <2>4, <2>5
<1>18. CASE PerformHooks(call, rest)
  <2>1. /\ call.op = "hooks" /\ todo' = <<Do("sync", call.state)>> \o rest
        /\ profileThread' = NoState /\ UNCHANGED <<timer, status, chain>>
    BY <1>18 DEF PerformHooks, vm
  <2>2. NamesFits(a)'
    BY <1>2, <2>1 DEF NamesFits, Shown, Resumed, Live
  <2>3. <<a, Do("sync", call.state), b>> \in NamesSteps
    BY <1>15, <2>1 DEF Publishing
  <2>4. <<Do("sync", call.state)>> \in Seq(Call)
    BY <1>3, CallTypes DEF Ops
  <2> QED
    BY <1>10, <2>1, <2>2, <2>3, <2>4, Run1
<1>19. CASE PerformFree(call, rest)
  BY <1>19, <1>2, <1>8, <1>9 DEF PerformFree, patch, NamesStep, Publishing, Others, TypeOK,
     NamesFits, Live, Shown, Resumed
<1>20. CASE PerformPublishSlot(call, rest)
  <2>1. todo' = rest /\ UNCHANGED <<hooks, profileThread, status, chain>>
    BY <1>20 DEF PerformPublishSlot, patch, vm
  <2>2. CASE call.op = "open"
    <3>1. timer' = OpenSlot(timer) /\ b = a
      BY <1>12, <1>20, <2>2 DEF PerformPublishSlot, Others, Publishing, Ops
    <3>2. timer'.slot = timer.slot /\ timer'.events = timer.events
      BY <1>1, <3>1 DEF OpenSlot, Timer
    <3>3. NamesFits(b)'
      BY <1>2, <2>1, <3>1, <3>2 DEF NamesFits, Shown, Resumed, Live
    <3> QED
      BY <1>9, <2>1, <3>3
  <2>3. CASE call.op = "shut"
    <3>1. timer' = CloseSlot(timer, Shut(call))
      BY <1>20, <2>3 DEF PerformPublishSlot, Shut
    <3>2. timer'.slot = Shut(call) /\ timer'.events = timer.events
      BY <1>1, <3>1 DEF CloseSlot, Timer
    <3>3. b.l = a.l /\ call.state \in b.s /\ a.q \subseteq b.q /\ b.p = a.p
      BY <1>2, <2>3 DEF NamesStep, Publishing, Others
    <3>4. timer'.slot.state = call.state
      BY <3>2 DEF Shut
    <3>5. NamesFits(b)'
      BY <1>2, <2>1, <3>2, <3>3, <3>4 DEF NamesFits, Shown, Resumed, Live
    <3> QED
      BY <1>9, <2>1, <3>5
  <2> QED
    BY <1>20, <2>2, <2>3 DEF PerformPublishSlot
<1>21. CASE PerformDrain(call, rest)
  <2>1. UNCHANGED <<hooks, profileThread, status, chain>> /\ call.op = "drain"
    BY <1>21 DEF PerformDrain, patch, vm
  <2>2. CASE timer.events = <<>>
    BY <1>21, <2>2, <1>2, <2>1, <1>9 DEF PerformDrain, NamesStep, Publishing, Others,
       NamesFits, Shown, Resumed, Live
  <2>3. CASE timer.events # <<>>
    <3>1. timer' = TakeEvent(timer) /\ todo' = todo
      BY <1>21, <2>3 DEF PerformDrain
    <3>2. /\ timer'.slot = timer.slot
          /\ timer'.events = Tail(timer.events) /\ timer.events \in Seq(Slot)
      BY <1>1, <3>1 DEF TakeEvent, Timer
    <3>3. \A i \in 1 .. Len(timer'.events) : \E j \in 1 .. Len(timer.events) :
                timer'.events[i] = timer.events[j]
      <4>1. /\ Len(timer.events) \in Nat \ {0} /\ Len(timer'.events) = Len(timer.events) - 1
            /\ \A i \in 1 .. Len(timer'.events) : timer'.events[i] = timer.events[i + 1]
        BY <2>3, <3>2, TailProperties
      <4> QED
        BY <4>1
    <3>4. NamesFits(a)'
      BY <1>2, <2>1, <3>2, <3>3 DEF NamesFits, Shown, Resumed, Live
    <3> QED
      BY <1>2, <2>1, <3>1, <3>4 DEF NamesInv, Resumed
  <2> QED
    BY <2>2, <2>3
<1>22. CASE PerformActivate(call, rest) \/ PerformDelete(call, rest)
  <2>1. /\ UNCHANGED <<hooks, profileThread, status, chain>> /\ todo' = rest
        /\ timer' = NewTimer /\ call.op \in {"activate", "delete"}
    BY <1>22 DEF PerformActivate, PerformDelete, patch, vm
  <2>2. timer'.slot.state = NoState /\ Len(timer'.events) = 0
    BY <2>1 DEF NewTimer
  <2>3. b = a
    BY <1>12, <2>1 DEF Others, Publishing, Ops
  <2>4. NamesFits(b)'
    BY <1>2, <2>1, <2>2, <2>3 DEF NamesFits, Shown, Resumed, Live
  <2> QED
    BY <1>9, <2>1, <2>4
<1>23. CASE PerformArm(call, rest)
  <2>1. /\ UNCHANGED <<hooks, profileThread, status, chain>> /\ call.op = "arm"
        /\ \/ timer' = [timer EXCEPT !.active = TRUE]
              /\ todo' = <<Do("release", call.state)>> \o rest
           \/ timer' = timer /\ todo' = <<Do("hooks", call.state), Do("delete", call.state),
                                          Do("finish", call.state)>> \o rest
    BY <1>23 DEF PerformArm, patch, vm
  <2>2. SameSlot(timer, timer')
    BY <1>1, <1>13, <2>1, SameSlots
  <2>3. NamesFits(a)'
    BY <1>2, <2>1, <2>2, NamesFrame
  <2>4. /\ <<Do("release", call.state)>> \in Seq(Call)
        /\ <<Do("hooks", call.state), Do("delete", call.state), Do("finish", call.state)>>
              \in Seq(Call)
    BY <1>3, CallTypes DEF Ops
  <2>5. CASE todo' = <<Do("release", call.state)>> \o rest
    <3>1. NamesFits(b)'
      BY <1>2, <1>11, <2>1, <2>2 DEF NamesFits, SameSlot, Publishing, Shown, Resumed, Live
    <3>2. <<b, Do("release", call.state), b>> \in NamesSteps
      BY <1>14 DEF Others, Publishing, Ops
    <3> QED
      BY <1>10, <2>1, <2>4, <2>5, <3>1, <3>2, Run1
  <2>6. CASE todo' = <<Do("hooks", call.state), Do("delete", call.state),
                       Do("finish", call.state)>> \o rest
    BY <1>15, <2>1, <1>14, Run3, <1>10, <2>3, <2>4, <2>6 DEF Publishing, Others, Ops
  <2> QED
    BY <2>1, <2>5, <2>6
<1>24. CASE \/ PerformBegin(call, rest) \/ PerformEnd(call, rest) \/ PerformQuality(call, rest)
            \/ PerformRelease(call, rest) \/ PerformDeactivate(call, rest)
            \/ PerformFinish(call, rest) \/ PerformMemory(call, rest)
            \/ PerformDisarm(call, rest)
  <2>1. /\ UNCHANGED <<hooks, profileThread, status, chain>> /\ todo' = rest
        /\ call.op \in Others
    BY <1>3, <1>24 DEF PerformBegin, PerformEnd, PerformQuality, PerformRelease,
       PerformDeactivate, PerformFinish, PerformMemory, PerformDisarm, patch, vm, Others,
       Publishing
  <2>2. SameSlot(timer, timer')
    <3>1. CASE PerformDisarm(call, rest)
      <4> DEFINE stopped == [timer EXCEPT !.active = FALSE]
      <4>1. timer' = stopped \/ \E n \in 0 .. MaxOverrun : timer' = Discard(stopped, n)
        BY <3>1 DEF PerformDisarm
      <4>2. FALSE \in BOOLEAN /\ \A n \in 0 .. MaxOverrun : n \in Nat
        BY BoundsAssumption
      <4>3. SameSlot(timer, stopped) /\ stopped \in Timer
        BY <1>1, <4>2, SameSlots, TimerTypes
      <4> HIDE DEF stopped
      <4>4. \A n \in 0 .. MaxOverrun : SameSlot(stopped, Discard(stopped, n))
        BY <4>2, <4>3, SameSlots
      <4> QED
        BY <4>1, <4>3, <4>4 DEF SameSlot
    <3>2. CASE ~PerformDisarm(call, rest)
      BY <1>24, <3>2, <1>1, SameSlots DEF PerformBegin, PerformEnd, PerformQuality,
         PerformRelease, PerformDeactivate, PerformFinish, PerformMemory
    <3> QED
      BY <3>1, <3>2
  <2> QED
    BY <1>2, <1>9, <1>12, <2>1, <2>2, NamesFrame
<1>25. CASE PerformAllocate(call, rest)
  <2>1. /\ UNCHANGED <<hooks, profileThread, status, chain, timer>> /\ call.op \in Others
        /\ \/ todo' = <<>> \o rest
           \/ todo' = <<Do("begin", Main), Do("end", Main)>> \o rest
    BY <1>3, <1>25 DEF PerformAllocate, patch, vm, Others, Publishing
  <2>2. NamesFits(b)'
    BY <1>2, <1>12, <1>13, <2>1, NamesFrame
  <2>3. CASE todo' = <<>> \o rest
    BY <1>1, <1>9, <2>1, <2>2, <2>3
  <2>4. CASE todo' = <<Do("begin", Main), Do("end", Main)>> \o rest
    <3>1. "begin" \in Others /\ "end" \in Others
      BY DEF Others, Publishing, Ops
    <3>2. Do("begin", Main).op = "begin" /\ Do("end", Main).op = "end"
      BY DEF Do
    <3>3. NamesStep(b, Do("begin", Main), b) /\ NamesStep(b, Do("end", Main), b)
      BY <3>1, <3>2 DEF NamesStep
    <3>4. Run(NamesSteps, <<Do("begin", Main), Do("end", Main)>>, b, b)
      BY <3>3, HandoverTypes, NamesStepIn, Run2
    <3>5. <<Do("begin", Main), Do("end", Main)>> \in Seq(Call)
      BY HandoverTypes
    <3> QED
      BY <1>10, <2>1, <2>2, <2>4, <3>4, <3>5
  <2> QED
    BY <2>1, <2>3, <2>4
<1> QED
  BY <1>7, <1>16, <1>17, <1>18, <1>19, <1>20, <1>21, <1>22, <1>23, <1>24, <1>25

LEMMA NamesTick ==
    ASSUME TypeOK, NamesInv, timer.active, NEW overrun \in 0 .. MaxOverrun, Tick(overrun)
    PROVE  NamesInv'
<1>1. PICK a \in NameSets, e \in NameSets :
            NamesFits(a) /\ Run(NamesSteps, todo, a, e) /\ e.q \subseteq Resumed
  BY DEF NamesInv
<1>2. /\ timer \in Timer /\ timer.events \in Seq(Slot) /\ overrun \in Nat
      /\ UNCHANGED <<hooks, profileThread, todo, status, chain>> /\ timer' = Handle(timer, overrun)
  BY BoundsAssumption DEF TypeOK, Timer, Tick, vm
<1>3. timer'.slot = timer.slot
  BY <1>2, HandleCounts DEF Counted
<1>4. \/ timer'.events = timer.events
      \/ timer.slot.state # NoState /\ timer'.events = Append(timer.events, timer.slot)
  BY <1>2, HandleCounts DEF Attributable, Usable
<1>5. a.s \subseteq a.q
  BY NameTypes
<1>6. \A i \in 1 .. Len(timer'.events) : timer'.events[i].state \in a.q
  <2>1. CASE timer'.events = timer.events
    BY <1>1, <2>1 DEF NamesFits
  <2>2. CASE timer.slot.state # NoState /\ timer'.events = Append(timer.events, timer.slot)
    BY <1>2, <2>2, <1>1, <1>5 DEF NamesFits
  <2> QED
    BY <1>4, <2>1, <2>2
<1>7. NamesFits(a)'
  BY <1>1, <1>2, <1>3, <1>6 DEF NamesFits, Shown, Resumed, Live
<1> QED
  BY <1>1, <1>2, <1>7 DEF NamesInv, Resumed

------------------------------------------------------------------------------
(* The chain, and the names, when the application acts.                       *)

\* The calls of an action that neither gives up a lua_State nor takes one up are
\* made on the one that runs or on the main thread.
CallsOn(Q) == {c \in Call : c.op # "free" /\ c.state \in Q}

PlainAction ==
    \/ HostCall \/ CallLua \/ (\E f \in Work \cup {PCall, Api} : CallC(f))
    \/ Allocate \/ SafePoint \/ (\E co \in States \ {Main} : Create(co))
    \/ CpuStart \/ CpuStop \/ MemoryToggle \/ ApiOther \/ FinalizeRecorder

LEMMA CallOn ==
    ASSUME NEW Q \in SUBSET States, NEW L \in Q
    PROVE  /\ \A op \in Ops \ {"free"} : Do(op, L) \in CallsOn(Q)
           /\ \A op \in Ops \ {"free"}, kind \in VmStates, f \in Functions \cup {NoFunction} :
                DoAs(op, L, kind, f) \in CallsOn(Q)
BY CallTypes DEF Do, DoAs, CallsOn

LEMMA CloseGuardsOn ==
    ASSUME NEW Q \in SUBSET States, NEW L \in Q, NEW stack \in Seq(Frame)
    PROVE  CloseGuards(L, stack) \in Seq(CallsOn(Q)) /\ CloseGuard(L) \in Seq(CallsOn(Q))
BY CallOn, FunctionFacts, CloseGuardsWithin DEF Ops, CloseGuard

LEMMA PlainCalls ==
    ASSUME TypeOK, PlainAction
    PROVE  todo' \in Seq(CallsOn({Running, Main}))
<1> DEFINE L == Running
           C == CallsOn({L, Main})
<1>1. L \in States /\ Main \in States /\ {L, Main} \in SUBSET States
  BY ChainStates
<1> HIDE DEF L
<1>2. /\ \A op \in Ops \ {"free"} : Do(op, L) \in C /\ Do(op, Main) \in C
      /\ \A kind \in VmStates, f \in Functions \cup {NoFunction} :
            DoAs("enter", L, kind, f) \in C /\ DoAs("enter", Main, kind, f) \in C
  BY <1>1, CallOn DEF Ops
<1>3. <<>> \in Seq(Frame)
  OBVIOUS
<1>4. CloseGuard(L) \in Seq(C)
  BY <1>1, <1>3, CloseGuardsOn
<1> HIDE DEF C
<1>5. ApiReturn(L) \in Seq(C) /\ <<Do("leave", L)>> \in Seq(C)
  BY <1>2, <1>4, CatProperties DEF Ops, ApiReturn
<1>6. StopCpu(L) \in Seq(C)
  BY <1>2 DEF StopCpu, Ops
<1>7. ASSUME HostCall PROVE todo' \in Seq(C)
  BY <1>2, <1>7, FunctionFacts DEF HostCall
<1>8. ASSUME CallLua PROVE todo' \in Seq(C)
  BY <1>2, <1>8, FunctionFacts DEF CallLua, L
<1>9. ASSUME NEW f \in Work \cup {PCall, Api}, CallC(f) PROVE todo' \in Seq(C)
  BY <1>9, <1>2, FunctionFacts, CatProperties DEF CallC, L, Ops
<1>10. ASSUME Allocate \/ (\E co \in States \ {Main} : Create(co)) PROVE todo' \in Seq(C)
  <2>1. todo' = <<Do("allocate", L)>>
    BY <1>10 DEF Allocate, Create, L
  <2> QED
    BY <1>2, <2>1 DEF Ops
<1>11. ASSUME SafePoint PROVE todo' \in Seq(C)
  BY <1>2, <1>11 DEF SafePoint, Ops
<1>12. ASSUME CpuStart PROVE todo' \in Seq(C)
  BY <1>12, <1>2, <1>5, CatProperties DEF CpuStart, L, Ops
<1>13. ASSUME CpuStop PROVE todo' \in Seq(C)
  BY <1>5, <1>6, <1>13, CatProperties DEF CpuStop, L
<1>14. ASSUME MemoryToggle PROVE todo' \in Seq(C)
  BY <1>14, <1>2, <1>5, CatProperties DEF MemoryToggle, L, Ops
<1>15. ASSUME ApiOther PROVE todo' \in Seq(C)
  BY <1>15, <1>2, <1>5, CatProperties DEF ApiOther, L, Ops
<1>16. ASSUME FinalizeRecorder PROVE todo' \in Seq(C)
  BY <1>16, <1>2, FunctionFacts, <1>5, <1>6, CatProperties DEF FinalizeRecorder, L, Ops
<1>17. todo' \in Seq(C)
  BY <1>7, <1>8, <1>9, <1>10, <1>11, <1>12, <1>13, <1>14, <1>15, <1>16 DEF PlainAction
<1> QED
  BY <1>17 DEF C, L

LEMMA PlainChain ==
    ASSUME TypeOK, PlainAction
    PROVE  /\ \/ status' = status
              \/ \E co \in States : /\ status[co] = "free"
                                    /\ status' = [status EXCEPT ![co] = "suspended"]
           /\ \/ chain' = chain
              \/ (chain = <<>> /\ chain' = <<Main>>)
           /\ Idle
<1> USE DEF AfterVm, vm
<1>1. CASE HostCall \/ CallLua \/ (\E f \in Work \cup {PCall, Api} : CallC(f))
  BY <1>1 DEF HostCall, CallLua, CallC
<1>2. CASE Allocate \/ SafePoint
  BY <1>2 DEF Allocate, SafePoint
<1>3. ASSUME NEW co \in States \ {Main}, Create(co)
      PROVE  /\ status[co] = "free" /\ status' = [status EXCEPT ![co] = "suspended"]
             /\ chain' = chain /\ Idle
  BY <1>3 DEF Create
<1>4. CASE CpuStart \/ CpuStop \/ MemoryToggle \/ ApiOther \/ FinalizeRecorder
  BY <1>4 DEF CpuStart, CpuStop, MemoryToggle, ApiOther, FinalizeRecorder, InApi
<1> QED
  BY <1>1, <1>2, <1>3, <1>4 DEF PlainAction

\* What the other actions do to the status of coroutines and to the chain.
LEMMA TurnChain ==
    ASSUME TypeOK, Application, ~PlainAction
    PROVE  LET L == Running IN
           /\ Idle
           /\ \/ (UNCHANGED <<status, chain>> /\ chain # <<>>)
              \/ (chain # <<>> /\ L = Main /\ chain' = Front(chain) /\ status' = status)
              \/ /\ chain # <<>> /\ L # Main /\ chain' = Front(chain)
                 /\ \/ status' = [status EXCEPT ![L] = "dead"]
                    \/ status' = [status EXCEPT ![L] = "suspended"]
              \/ \E co \in States \ {Main} :
                    /\ status[co] = "suspended" /\ chain' = Append(chain, co)
                    /\ status' = [status EXCEPT ![co] = "running"]
              \/ \E co \in States \ {Main} :
                    /\ status[co] \in {"suspended", "dead"} /\ chain' = chain
                    /\ (status' = [status EXCEPT ![co] = "dead"] \/ status' = status)
<1> USE DEF AfterVm, vm
<1>1. CASE Return
  BY <1>1 DEF Return
<1>2. CASE YieldCoroutine
  BY <1>2 DEF YieldCoroutine, RunsLua
<1>3. CASE Throw
  BY <1>3 DEF Throw
<1>4. ASSUME NEW co \in States \ {Main}, ResumeCoroutine(co)
      PROVE  /\ Idle /\ status[co] = "suspended" /\ chain' = Append(chain, co)
             /\ status' = [status EXCEPT ![co] = "running"]
  BY <1>4 DEF ResumeCoroutine
<1>5. ASSUME NEW co \in States \ {Main}, CloseCoroutine(co)
      PROVE  /\ Idle /\ status[co] \in {"suspended", "dead"} /\ chain' = chain
             /\ status' = [status EXCEPT ![co] = "dead"]
  BY <1>5 DEF CloseCoroutine
<1>6. ASSUME NEW co \in States \ {Main}, Collect(co)
      PROVE  /\ Idle /\ status[co] \in {"suspended", "dead"} /\ UNCHANGED <<status, chain>>
  BY <1>6 DEF Collect
<1> QED
  BY <1>1, <1>2, <1>3, <1>4, <1>5, <1>6 DEF Application, PlainAction

LEMMA ChainApplication == ASSUME TypeOK, ChainInv, Application PROVE ChainInv'
<1> DEFINE L == Running
           n == Len(chain)
<1>1. chain \in Seq(States) /\ n \in Nat /\ Main \in States
      /\ status \in [States -> {"free", "suspended", "running", "dead"}]
      /\ \A i \in 1 .. n : chain[i] \in States
  BY MainAssumption DEF TypeOK
<1>2. chain # <<>> => /\ L = chain[n] /\ n # 0 /\ Front(chain) \in Seq(States)
                      /\ Len(Front(chain)) = n - 1
                      /\ \A i \in 1 .. n - 1 : Front(chain)[i] = chain[i]
  BY ChainStates
<1> HIDE DEF L
<1>3. \A x \in States : status[x] # "running" => x # Main /\ \A i \in 1 .. n : chain[i] # x
  BY <1>1 DEF ChainInv
<1>4. ASSUME chain' = chain, NEW x \in States, status[x] # "running", NEW s, s # "running",
             (status' = [status EXCEPT ![x] = s] \/ status' = status)
      PROVE  ChainInv'
  BY <1>1, <1>4, <1>3 DEF ChainInv
<1>5. ASSUME UNCHANGED <<status, chain>> PROVE ChainInv'
  BY <1>5 DEF ChainInv
<1>6. ASSUME chain # <<>>, chain' = Front(chain), (L # Main \/ status' = status), NEW s,
             (status' = [status EXCEPT ![L] = s] \/ status' = status)
      PROVE  ChainInv'
  BY <1>1, <1>2, <1>6 DEF ChainInv
<1>7. ASSUME NEW co \in States \ {Main}, status[co] = "suspended", chain' = Append(chain, co),
             status' = [status EXCEPT ![co] = "running"]
      PROVE  ChainInv'
  <2>1. /\ Len(chain') = n + 1 /\ chain'[n + 1] = co
        /\ \A i \in 1 .. n : chain'[i] = chain[i]
    BY <1>1, <1>7
  <2>2. \A i \in 1 .. n : chain[i] # co
    BY <1>3, <1>7
  <2>3. /\ status'[Main] = "running" /\ status'[co] = "running"
        /\ \A i \in 1 .. n : status'[chain[i]] = "running"
    BY <1>1, <1>7, <2>2 DEF ChainInv
  <2>4. \A i \in 1 .. n + 1 : i \in 1 .. n \/ i = n + 1
    BY <1>1
  <2> HIDE DEF n
  <2>5. \A i \in 1 .. n + 1 : status'[chain'[i]] = "running" /\ (chain'[i] = Main => i = 1)
    BY <1>7, <2>1, <2>3, <2>4 DEF ChainInv, n
  <2>6. \A i, j \in 1 .. n + 1 : chain'[i] = chain'[j] => i = j
    BY <2>1, <2>2, <2>4 DEF ChainInv, n
  <2> QED
    BY <2>1, <2>3, <2>5, <2>6 DEF ChainInv
<1>8. CASE PlainAction
  <2>1. CASE chain = <<>> /\ chain' = <<Main>>
    BY <2>1, <1>1, <1>8, PlainChain DEF ChainInv
  <2>2. CASE chain' = chain
    BY <1>4, <1>5, <1>8, <2>2, PlainChain
  <2> QED
    BY <1>8, <2>1, <2>2, PlainChain
<1>9. CASE ~PlainAction
  BY <1>9, TurnChain, <1>4, <1>5, <1>6, <1>7 DEF L
<1> QED
  BY <1>8, <1>9

LEMMA ChainPerform ==
    ASSUME TypeOK, todo # <<>>, ChainInv, NamesInv, Perform \/ Disarm
    PROVE  ChainInv'
<1> DEFINE call == Head(todo)
           rest == Tail(todo)
<1>1. PICK a \in NameSets, b \in NameSets : NamesFits(a) /\ NamesStep(a, call, b)
  BY NamesAt
<1>2. /\ chain' = chain
      /\ \/ status' = status
         \/ (call.op = "free" /\ status' = [status EXCEPT ![call.state] = "free"])
  BY DEF Perform, Disarm, PerformEnter, PerformReenter, PerformLeave, PerformPublish,
     PerformSync, PerformHost, PerformHooks, PerformFree, PerformBegin, PerformEnd,
     PerformPublishSlot, PerformDrain, PerformQuality, PerformActivate, PerformArm,
     PerformRelease, PerformDeactivate, PerformDelete, PerformFinish, PerformMemory,
     PerformAllocate, PerformDisarm, vm
<1> HIDE DEF call, rest
<1>3. call.op = "free" => call.state \notin Resumed
  BY <1>1 DEF NamesStep, NamesFits, Publishing, Others
<1>4. Main \in States /\ status \in [States -> {"free", "suspended", "running", "dead"}]
      /\ \A i \in 1 .. Len(chain) : chain[i] \in States
  BY MainAssumption DEF TypeOK
<1>5. \A x \in Resumed : status'[x] = status[x]
  BY <1>2, <1>3, <1>4 DEF Resumed
<1> QED
  BY <1>2, <1>5 DEF ChainInv, Resumed

LEMMA FrontResumed ==
    ASSUME TypeOK, ChainInv, chain # <<>>, chain' = Front(chain)
    PROVE  /\ Resumed' \subseteq Resumed
           /\ \A x \in Resumed : x # Running \/ x = Main => x \in Resumed'
           /\ Front(chain) # <<>> => Last(Front(chain)) \in Resumed'
<1> DEFINE n == Len(chain)
<1>1. /\ n \in Nat \ {0} /\ Running = chain[n] /\ chain' \in Seq(States) /\ Len(chain') = n - 1
      /\ \A i \in 1 .. n - 1 : chain'[i] = chain[i]
      /\ chain' # <<>> => n - 1 \in 1 .. n - 1 /\ Last(Front(chain)) = chain[n - 1]
  BY ChainStates
<1> HIDE DEF n
<1>2. Resumed' = {Main} \cup {chain[i] : i \in 1 .. n - 1}
  BY <1>1 DEF Resumed
<1>3. Resumed = {Main} \cup {chain[i] : i \in 1 .. n}
  BY DEF Resumed, n
<1>4. \A i \in 1 .. n : i \in 1 .. n - 1 \/ i = n
  BY <1>1
<1>5. \A i \in 1 .. n - 1 : i \in 1 .. n
  BY <1>1
<1> QED
  BY <1>1, <1>2, <1>3, <1>4, <1>5

\* The names while the application runs: all of Q may be queued and shown.
Names(Q, P, D) == [s |-> Q, q |-> Q, p |-> P, l |-> D]
LiveStates == {x \in States : Live(x)}

LEMMA NamesSteady ==
    ASSUME NEW D \in SUBSET States, NEW Q \in SUBSET D, Main \in Q,
           NEW s \in Seq(CallsOn(Q))
    PROVE  Run(NamesSteps, s, Names(Q, D, D), Names(Q, D, D))
<1> DEFINE a == Names(Q, D, D)
<1>1. a \in NameSets /\ a.s = Q /\ a.q = Q /\ a.p = D /\ a.l = D
  BY NameSetIn DEF Names
<1> HIDE DEF a
<1>2. ASSUME NEW c \in CallsOn(Q) PROVE <<a, c, a>> \in NamesSteps
  BY <1>2, <1>1, NamesStepIn DEF CallsOn, Call, Others, NamesStep
<1>3. Run(NamesSteps, s, a, a)
  BY <1>2, RunSteady
<1> QED
  BY <1>3 DEF a

LEMMA NamesTurn ==
    ASSUME NEW D \in SUBSET States, NEW Q \in SUBSET D, NEW Q2 \in SUBSET D,
           Main \in Q, Main \in Q2, NEW L \in D,
           \A x \in Q : x # L \/ x = Main => x \in Q2,
           NEW s \in Seq(CallsOn(Q)), NEW t \in Seq(CallsOn(Q2))
    PROVE  Run(NamesSteps, (s \o <<Do("host", L)>>) \o t, Names(Q, D, D), Names(Q2, D, D))
<1> DEFINE a == Names(Q, D, D)
           b == Names(Q2, D, D)
<1>1. /\ a \in NameSets /\ a.s = Q /\ a.q = Q /\ a.p = D /\ a.l = D
      /\ b \in NameSets /\ b.s = Q2 /\ b.q = Q2 /\ b.p = D /\ b.l = D
  BY NameSetIn DEF Names
<1>2. Run(NamesSteps, s, a, a) /\ Run(NamesSteps, t, b, b)
  BY NamesSteady
<1> HIDE DEF a, b
<1>3. Do("host", L) \in Call /\ Do("host", L).op = "host" /\ Do("host", L).state = L
  BY CallTypes DEF Do, Ops
<1>4. NamesStep(a, Do("host", L), b)
  BY <1>1, <1>3 DEF NamesStep
<1>5. Run(NamesSteps, <<Do("host", L)>>, a, b)
  BY <1>1, <1>3, <1>4, NamesStepIn, Run1
<1>6. s \in Seq(Call) /\ t \in Seq(Call) /\ <<Do("host", L)>> \in Seq(Call)
  BY <1>3 DEF CallsOn
<1>7. s \o <<Do("host", L)>> \in Seq(Call)
  BY <1>6, CatProperties
<1>8. Run(NamesSteps, s \o <<Do("host", L)>>, a, b)
  BY <1>2, <1>5, <1>6, RunCat
<1>9. Run(NamesSteps, (s \o <<Do("host", L)>>) \o t, a, b)
  BY <1>2, <1>6, <1>7, <1>8, RunCat
<1> QED
  BY <1>9 DEF a, b

\* What an idle VM leaves in the timer and in the patch.
LEMMA NamesIdle ==
    ASSUME TypeOK, NamesInv, todo = <<>>
    PROVE  /\ timer.slot.state # NoState => timer.slot.state \in Resumed
           /\ \A i \in 1 .. Len(timer.events) : timer.events[i].state \in Resumed
           /\ Shown => profileThread \in LiveStates
           /\ Resumed \subseteq LiveStates
<1>1. PICK a \in NameSets, e \in NameSets :
            NamesFits(a) /\ Run(NamesSteps, todo, a, e) /\ e.q \subseteq Resumed
  BY DEF NamesInv
<1>2. a = e
  BY <1>1, RunEmpty
<1>3. /\ a.s \subseteq Resumed /\ a.q \subseteq Resumed /\ a.l \subseteq LiveStates
      /\ a.p \subseteq LiveStates
  BY <1>1, <1>2, NameTypes DEF NamesFits, LiveStates
<1> QED
  BY <1>1, <1>3 DEF NamesFits

LEMMA LiveApplication ==
    ASSUME TypeOK, ChainInv, Application PROVE \A x \in LiveStates : Live(x)'
<1>1. status \in [States -> {"free", "suspended", "running", "dead"}]
  BY DEF TypeOK
<1>2. CASE PlainAction
  BY <1>1, <1>2, PlainChain DEF LiveStates, Live
<1>3. CASE ~PlainAction
  <2> DEFINE L == Running
  <2>1. \/ status' = status
        \/ \E x \in States, s \in {"dead", "suspended", "running"} : status' = [status EXCEPT ![x] = s]
    BY ChainStates, <1>3, TurnChain
  <2> QED
    BY <1>1, <2>1 DEF LiveStates, Live
<1> QED
  BY <1>2, <1>3

LEMMA NamesStart ==
    ASSUME TypeOK, ChainInv, NamesInv, Application, NEW D \in SUBSET LiveStates,
           NEW P \in SUBSET LiveStates, NEW Q \in SUBSET D, Resumed \subseteq Q,
           Resumed' \subseteq D, Shown => profileThread \in P,
           NEW e \in NameSets, e.q \subseteq Resumed', Run(NamesSteps, todo', Names(Q, P, D), e)
    PROVE  NamesInv'
<1> DEFINE a == Names(Q, P, D)
<1>1. a \in NameSets /\ a.s = Q /\ a.q = Q /\ a.p = P /\ a.l = D
  BY NameSetIn DEF Names, LiveStates
<1> HIDE DEF a
<1>2. UNCHANGED <<hooks, profileThread, timer>> /\ todo = <<>>
  BY ApplicationFrame DEF Idle
<1>3. /\ timer.slot.state # NoState => timer.slot.state \in Resumed
      /\ \A i \in 1 .. Len(timer.events) : timer.events[i].state \in Resumed
  BY <1>2, NamesIdle
<1>4. \A x \in a.l \cup a.p : Live(x)'
  BY <1>1, LiveApplication
<1>5. NamesFits(a)'
  BY <1>1, <1>2, <1>3, <1>4 DEF NamesFits, Shown
<1>6. Run(NamesSteps, todo', a, e)
  BY DEF a
<1> QED
  BY <1>1, <1>5, <1>6 DEF NamesInv

LEMMA NamesApplication ==
    ASSUME TypeOK, ChainInv, NamesInv, Application PROVE NamesInv'
<1> DEFINE L == Running
           D == LiveStates
           R == Resumed
<1>1. L \in States /\ Main \in States /\ L \in R /\ Main \in R /\ todo = <<>>
  BY ChainStates, ApplicationFrame DEF Running, Resumed, Idle
<1>2. /\ R \subseteq D /\ (Shown => profileThread \in D) /\ D \in SUBSET States
      /\ L \in D /\ Main \in D
  BY <1>1, NamesIdle DEF LiveStates
<1>3. chain' = chain => Resumed' = R
  BY DEF Resumed
<1> HIDE DEF L, D, R
\* A run that stays with the same names, and one that gives a lua_State back.
<1>4. ASSUME NEW Q \in SUBSET D, R \subseteq Q, Q \subseteq Resumed', Resumed' \subseteq D,
             todo' \in Seq(CallsOn(Q))
      PROVE  NamesInv'
  <2>1. Run(NamesSteps, todo', Names(Q, D, D), Names(Q, D, D))
    BY <1>1, <1>2, <1>4, NamesSteady
  <2>2. Names(Q, D, D) \in NameSets /\ Names(Q, D, D).q = Q
    BY <1>2, NameSetIn DEF Names
  <2> QED
    BY <1>2, <1>4, <2>1, <2>2, NamesStart DEF D, R
<1>5. ASSUME NEW Q \in SUBSET D, R \subseteq Q, NEW Q2 \in SUBSET D, Main \in Q2,
             Q2 \subseteq Resumed', Resumed' \subseteq D, NEW X \in D,
             \A x \in Q : x # X \/ x = Main => x \in Q2,
             NEW s \in Seq(CallsOn(Q)), NEW t \in Seq(CallsOn(Q2)),
             todo' = (s \o <<Do("host", X)>>) \o t
      PROVE  NamesInv'
  <2>1. Run(NamesSteps, todo', Names(Q, D, D), Names(Q2, D, D))
    BY <1>1, <1>2, <1>5, NamesTurn
  <2>2. Names(Q2, D, D) \in NameSets /\ Names(Q2, D, D).q = Q2
    BY <1>2, <1>5, NameSetIn DEF Names
  <2> QED
    BY <1>2, <1>5, <2>1, <2>2, NamesStart DEF D, R
<1>6. CASE PlainAction
  <2>1. todo' \in Seq(CallsOn({L, Main}))
    BY <1>6, PlainCalls DEF L
  <2>2. CallsOn({L, Main}) \subseteq CallsOn(R)
    BY <1>1 DEF CallsOn
  <2>3. todo' \in Seq(CallsOn(R))
    BY <2>1, <2>2, SeqWithin
  <2>4. Resumed' = R
    <3>1. CASE chain' = chain
      BY <1>3, <3>1
    <3>2. CASE chain = <<>> /\ chain' = <<Main>>
      BY <3>2 DEF Resumed, R
    <3> QED
      BY <1>6, <3>1, <3>2, PlainChain
  <2> QED
    BY <1>2, <1>4, <2>3, <2>4
\* The lua_State that runs gives way to the one that resumed it.
<1>7. \A x \in R : \A op \in Ops \ {"free"} : Do(op, x) \in CallsOn(R)
  BY <1>2, CallOn
<1>8. \A x \in R : \A op \in Ops \ {"free"}, kind \in VmStates, f \in Functions \cup {NoFunction} :
          DoAs(op, x, kind, f) \in CallsOn(R)
  BY <1>2, CallOn
<1>9. ASSUME chain # <<>>, chain' = Front(chain), NEW s \in Seq(CallsOn(R)),
             todo' = s \o <<Do("host", L)>>
                       \o (IF Front(chain) = <<>> THEN <<>> ELSE <<Do("sync", Last(Front(chain)))>>)
      PROVE  NamesInv'
  <2> DEFINE t == IF Front(chain) = <<>> THEN <<>> ELSE <<Do("sync", Last(Front(chain)))>>
  <2>1. /\ Resumed' \subseteq R /\ \A x \in R : x # L \/ x = Main => x \in Resumed'
        /\ Front(chain) # <<>> => Last(Front(chain)) \in Resumed'
    BY <1>9, FrontResumed DEF R, L
  <2>2. Resumed' \in SUBSET States /\ Main \in Resumed'
    BY <1>1, <1>2, <2>1
  <2>3. t \in Seq(CallsOn(Resumed'))
    <3>1. CASE Front(chain) = <<>>
      BY <3>1
    <3>2. CASE Front(chain) # <<>>
      BY <2>1, <2>2, <3>2, CallOn DEF Ops
    <3> QED
      BY <3>1, <3>2
  <2>4. todo' = (s \o <<Do("host", L)>>) \o t
    BY <1>9
  <2> HIDE DEF t
  <2> QED
    BY <1>2, <1>5, <2>1, <2>2, <2>3, <2>4
<1>10. ASSUME chain # <<>>, chain' = Front(chain), L = Main, todo' \in Seq(CallsOn(R))
       PROVE  NamesInv'
  BY <1>10, FrontResumed, <1>2, <1>4 DEF R, L
<1>11. CASE Return
  <2> DEFINE rest == Front(frames[L])
             from == Front(chain)
  <2>1. /\ chain # <<>>
        /\ \/ /\ todo' = <<Do("leave", L)>>
                           \o (IF Last(rest).attached THEN <<>> ELSE <<Do("reenter", L)>>)
              /\ chain' = chain
           \/ L = Main /\ todo' = <<Do("leave", L), Do("sync", L)>> /\ chain' = from
           \/ /\ todo' = <<Do("leave", L), Do("host", L)>>
                           \o (IF from = <<>> THEN <<>> ELSE <<Do("sync", Last(from))>>)
              /\ chain' = from
    BY <1>11 DEF Return, L
  <2> HIDE DEF rest
  <2>2. /\ <<Do("leave", L)>> \in Seq(CallsOn(R)) /\ <<Do("reenter", L)>> \in Seq(CallsOn(R))
        /\ <<Do("leave", L), Do("sync", L)>> \in Seq(CallsOn(R))
    BY <1>1, <1>7 DEF Ops
  <2>3. CASE /\ todo' = <<Do("leave", L)>>
                          \o (IF Last(rest).attached THEN <<>> ELSE <<Do("reenter", L)>>)
             /\ chain' = chain
    BY <2>2, <2>3, CatProperties, <1>2, <1>3, <1>4
  <2>4. CASE L = Main /\ todo' = <<Do("leave", L), Do("sync", L)>> /\ chain' = from
    BY <1>10, <2>1, <2>2, <2>4
  <2>5. CASE /\ todo' = <<Do("leave", L), Do("host", L)>>
                          \o (IF from = <<>> THEN <<>> ELSE <<Do("sync", Last(from))>>)
             /\ chain' = from
    <3>1. <<Do("leave", L), Do("host", L)>> = <<Do("leave", L)>> \o <<Do("host", L)>>
      OBVIOUS
    <3> QED
      BY <1>9, <2>1, <2>2, <2>5, <3>1
  <2> QED
    BY <2>1, <2>3, <2>4, <2>5
<1>12. CASE YieldCoroutine
  <2>1. /\ chain # <<>> /\ chain' = Front(chain)
        /\ todo' = <<DoAs("publish", L, "c", Yield), Do("host", L)>>
                     \o (IF Front(chain) = <<>> THEN <<>> ELSE <<Do("sync", Last(Front(chain)))>>)
    BY <1>12 DEF YieldCoroutine, RunsLua, L
  <2>2. <<DoAs("publish", L, "c", Yield)>> \in Seq(CallsOn(R))
    BY <1>1, <1>8, FunctionFacts DEF Ops
  <2>3. <<DoAs("publish", L, "c", Yield), Do("host", L)>>
            = <<DoAs("publish", L, "c", Yield)>> \o <<Do("host", L)>>
    OBVIOUS
  <2> QED
    BY <1>9, <2>1, <2>2, <2>3
<1>13. CASE Throw
  <2> DEFINE C == CloseGuards(L, Unwound(L))
  <2>1. C \in Seq(CallsOn(R)) /\ <<Do("host", L)>> \in Seq(CallsOn(R))
        /\ <<Do("sync", L)>> \in Seq(CallsOn(R)) /\ <<Do("reenter", L)>> \in Seq(CallsOn(R))
    <3>1. Unwound(L) \in Seq(Frame)
      BY <1>1, ThrowSplits
    <3> QED
      BY <1>1, <1>2, <1>7, <3>1, CloseGuardsOn DEF Ops
  <2>2. /\ chain # <<>>
        /\ \/ /\ L = Main /\ (chain' = Front(chain) \/ chain' = chain)
              /\ todo' = <<Do("host", L)>> \o C \o <<Do("sync", L)>>
           \/ /\ chain' = chain /\ todo' = <<Do("host", L)>> \o C \o <<Do("reenter", L)>>
           \/ /\ chain' = Front(chain)
              /\ todo' = <<Do("host", L), Do("host", L)>>
                           \o (IF Front(chain) = <<>> THEN <<>>
                               ELSE <<Do("sync", Last(Front(chain)))>>)
    BY <1>13, ThrowDoes DEF L
  <2> HIDE DEF C
  <2>3. /\ <<Do("host", L)>> \o C \o <<Do("sync", L)>> \in Seq(CallsOn(R))
        /\ <<Do("host", L)>> \o C \o <<Do("reenter", L)>> \in Seq(CallsOn(R))
    BY <2>1, CatProperties
  <2>4. CASE /\ L = Main /\ (chain' = Front(chain) \/ chain' = chain)
             /\ todo' = <<Do("host", L)>> \o C \o <<Do("sync", L)>>
    BY <1>2, <1>3, <1>4, <1>10, <2>2, <2>3, <2>4
  <2>5. CASE chain' = chain /\ todo' = <<Do("host", L)>> \o C \o <<Do("reenter", L)>>
    BY <1>2, <1>3, <1>4, <2>3, <2>5
  <2>6. CASE /\ chain' = Front(chain)
             /\ todo' = <<Do("host", L), Do("host", L)>>
                           \o (IF Front(chain) = <<>> THEN <<>>
                               ELSE <<Do("sync", Last(Front(chain)))>>)
    <3>1. <<Do("host", L), Do("host", L)>> = <<Do("host", L)>> \o <<Do("host", L)>>
      OBVIOUS
    <3> QED
      BY <1>9, <2>1, <2>2, <2>6, <3>1
  <2> QED
    BY <2>2, <2>4, <2>5, <2>6
<1>14. ASSUME NEW co \in States \ {Main}, ResumeCoroutine(co) PROVE NamesInv'
  <2> DEFINE Q == R \cup {co}
  <2>1. /\ status[co] = "suspended" /\ chain' = Append(chain, co)
        /\ todo' = (IF chain = <<>> THEN <<>> ELSE <<DoAs("enter", L, "c", Resume)>>)
                     \o (IF frames[co] = <<>> THEN <<DoAs("enter", co, "lua", NoFunction)>>
                         ELSE <<Do("reenter", co)>>)
    BY <1>14 DEF ResumeCoroutine, L
  <2>2. co \in D /\ Q \in SUBSET D /\ Q \in SUBSET States /\ L \in Q /\ co \in Q
    BY <1>1, <1>2, <2>1 DEF D, LiveStates, Live
  <2>3. Resumed' = Q
    <3>1. chain \in Seq(States) /\ Len(chain) \in Nat
      BY DEF TypeOK
    <3>2. Len(chain') = Len(chain) + 1 /\ chain'[Len(chain) + 1] = co
          /\ \A i \in 1 .. Len(chain) : chain'[i] = chain[i]
      BY <2>1, <3>1
    <3>3. 1 .. Len(chain) + 1 = 1 .. Len(chain) \cup {Len(chain) + 1}
      BY <3>1
    <3>4. {chain'[i] : i \in 1 .. Len(chain')} = {chain[i] : i \in 1 .. Len(chain)} \cup {co}
      BY <3>2, <3>3
    <3> QED
      BY <3>4 DEF Resumed, R
  <2> HIDE DEF Q
  <2>4. /\ <<DoAs("enter", L, "c", Resume)>> \in Seq(CallsOn(Q))
        /\ <<DoAs("enter", co, "lua", NoFunction)>> \in Seq(CallsOn(Q))
        /\ <<Do("reenter", co)>> \in Seq(CallsOn(Q)) /\ <<>> \in Seq(CallsOn(Q))
    BY <2>2, CallOn, FunctionFacts DEF Ops
  <2>5. todo' \in Seq(CallsOn(Q))
    BY <2>1, <2>4, CatProperties
  <2> QED
    BY <1>4, <2>2, <2>3, <2>5 DEF Q
<1>15. ASSUME NEW co \in States \ {Main}, CloseCoroutine(co) PROVE NamesInv'
  <2> DEFINE Q == R \cup {co}
             C == CloseGuards(co, frames[co])
             s == <<DoAs("enter", L, "c", CloseThread)>> \o C
             t == <<Do("sync", L), Do("leave", L)>>
  <2>1. /\ status[co] \in {"suspended", "dead"} /\ chain' = chain
        /\ todo' = <<DoAs("enter", L, "c", CloseThread)>> \o C
                     \o <<Do("host", co), Do("sync", L), Do("leave", L)>>
    BY <1>15 DEF CloseCoroutine, L
  <2>2. co \in D /\ Q \in SUBSET D /\ Q \in SUBSET States /\ L \in Q /\ co \in Q /\ R \subseteq Q
    BY <1>1, <1>2, <2>1 DEF D, LiveStates, Live
  <2>3. C \in Seq(CallsOn(Q))
    BY <2>2, CloseGuardsOn DEF TypeOK
  <2>4. s \in Seq(CallsOn(Q))
    <3> HIDE DEF Q, C, t
    <3>1. <<DoAs("enter", L, "c", CloseThread)>> \in Seq(CallsOn(Q))
      BY <2>2, CallOn, FunctionFacts DEF Ops
    <3> QED
      BY <2>3, <3>1, CatProperties
  <2>5. t \in Seq(CallsOn(R))
    BY <1>1, <1>7 DEF Ops
  <2>6. todo' = (s \o <<Do("host", co)>>) \o t
    <3>1. s \in Seq(Call)
      BY <2>4, SeqWithin DEF CallsOn
    <3>2. Do("host", co) \in Call /\ Do("sync", L) \in Call /\ Do("leave", L) \in Call
      BY <1>1, CallTypes DEF Do, Ops
    <3> HIDE DEF s
    <3>3. s \o <<Do("host", co), Do("sync", L), Do("leave", L)>> = (s \o <<Do("host", co)>>) \o t
      BY <3>1, <3>2
    <3> QED
      BY <2>1, <3>3 DEF s
  <2> HIDE DEF s, t
  <2>7. \A x \in Q : x # co \/ x = Main => x \in R
    BY <1>1
  <2> HIDE DEF Q
  <2> QED
    BY <1>1, <1>2, <1>3, <1>5, <2>1, <2>2, <2>4, <2>5, <2>6, <2>7
<1>16. ASSUME NEW co \in States \ {Main}, Collect(co) PROVE NamesInv'
  <2> DEFINE E == D \ {co}
             a == Names(R, D, E)
             b == Names(R, {L}, E)
  <2>1. /\ status[co] \in {"suspended", "dead"} /\ chain' = chain
        /\ todo' = <<DoAs("enter", L, "gc", NoFunction), Do("free", co), Do("allocate", L),
                     Do("leave", L)>>
    BY <1>16 DEF Collect, L, vm
  <2>2. co \notin R
    BY <2>1 DEF R, Resumed, ChainInv
  <2>3. R \subseteq E /\ E \in SUBSET D /\ E \in SUBSET States /\ L \in E /\ L # co
    BY <1>1, <1>2, <2>2
  <2>4. /\ a \in NameSets /\ a.s = R /\ a.q = R /\ a.p = D /\ a.l = E
        /\ b \in NameSets /\ b.s = R /\ b.q = R /\ b.p = {L} /\ b.l = E
    BY SMTT(30), <1>1, <1>2, <2>3, NameSetIn DEF Names
  <2>5. co \notin E
    OBVIOUS
  <2> HIDE DEF a, b, E
  <2>6. <<a, DoAs("enter", L, "gc", NoFunction), b>> \in NamesSteps
    BY <1>1, CallTypes, FunctionFacts, <2>3, <2>4, NamesStepIn DEF DoAs, Ops, NamesStep,
       Publishing
  <2>7. <<b, Do("free", co), b>> \in NamesSteps
    BY CallTypes, <2>3, <2>4, <2>5, NamesStepIn DEF Do, Ops, NamesStep
  <2>8. \A op \in {"allocate", "leave"} : <<b, Do(op, L), b>> \in NamesSteps
    <3> SUFFICES ASSUME NEW op \in {"allocate", "leave"} PROVE <<b, Do(op, L), b>> \in NamesSteps
      OBVIOUS
    <3>1. op \in Ops /\ op \in Publishing \cup Others
      BY DEF Ops, Others, Publishing
    <3>2. Do(op, L) \in Call /\ Do(op, L).op = op /\ Do(op, L).state = L
      BY <1>1, <3>1, CallTypes DEF Do
    <3>3. NamesStep(b, Do(op, L), b)
      BY <1>1, <2>3, <2>4, <3>1, <3>2 DEF NamesStep
    <3> QED
      BY <2>4, <3>2, <3>3, NamesStepIn
  <2>9. Run(NamesSteps, todo', a, b)
    BY <2>6, <2>7, <2>8, Run4, <2>1
  <2> QED
    BY <1>2, <1>3, <2>1, <2>3, <2>4, <2>9, NamesStart DEF D, R, a
<1> QED
  BY <1>6, <1>11, <1>12, <1>13, <1>14, <1>15, <1>16 DEF Application, PlainAction

------------------------------------------------------------------------------
(* The stacks: what each frame is marked with, and whether the patch shows    *)
(* the innermost frame of a lua_State.                                        *)

\* A frame is attached, runs a GC step or a luaprof function, and is good when
\* the state its guard saved is what the frames below it say.
Marks == SUBSET {"attached", "good", "gc", "api"}
Shapes == [stack: [States -> Seq(Marks)], shown: States \cup {NoState}]
Shape(k, x) == [stack |-> k, shown |-> x]

ShapeOthers == Ops \ (StackOps \cup {"hooks", "arm", "free", "guard"})

Marked(m, kind, f) ==
    /\ m \in Marks /\ "attached" \in m
    /\ "gc" \in m <=> kind = "gc"
    /\ "api" \in m <=> f = Api

ShapeStep(a, c, b) ==
    LET L == c.state
        s == a.stack[L]
    IN  \/ /\ c.op = "enter" /\ c.vm # "host" /\ (c.vm = "lua" => c.cfunction # Api)
           /\ \E m \in Marks : /\ Marked(m, c.vm, c.cfunction)
                               /\ "good" \in m => a.shown = L
                               /\ b.stack = [a.stack EXCEPT ![L] = Append(s, m)]
                               /\ b.shown = NoState \/ (b.shown = L /\ "gc" \notin m)
        \/ /\ c.op = "leave" /\ s # <<>>
           /\ b.stack = [a.stack EXCEPT ![L] = Front(s)]
           /\ b.shown = NoState \/ (b.shown = L /\ "good" \in Last(s))
        \/ /\ c.op = "reenter" /\ s # <<>>
           /\ b.stack = [a.stack EXCEPT ![L] =
                            Append(Front(s), (Last(s) \cup {"attached"}) \ {"good"})]
           /\ b.shown = NoState \/ (b.shown = L /\ "gc" \notin Last(s))
        \/ c.op \in {"publish", "host"} /\ b.stack = a.stack /\ b.shown = NoState
        \/ c.op \in {"sync", "hooks"} /\ b.stack = a.stack /\ b.shown \in {L, NoState}
        \/ c.op = "arm" /\ a.shown \in {L, NoState} /\ b = a
        \/ /\ c.op = "free" /\ a.shown # L
           /\ b.stack = [a.stack EXCEPT ![L] = <<>>] /\ b.shown = a.shown
        \/ c.op = "guard" /\ s # <<>> /\ b = a
        \/ c.op \in ShapeOthers /\ b = a
ShapeSteps == {t \in Shapes \X Call \X Shapes : ShapeStep(t[1], t[2], t[3])}

StackFits(s, t) ==
    /\ Len(s) = Len(t)
    /\ \A i \in 1 .. Len(t) :
            /\ "attached" \in s[i] <=> t[i].attached
            /\ "gc" \in s[i] <=> t[i].vm = "gc"
            /\ "api" \in s[i] <=> t[i].cfunction = Api
            /\ t[i].vm = "lua" => "api" \notin s[i]
            /\ ("good" \in s[i] /\ t[i].guarded) => t[i].saved = StateBelow(t, i - 1)

ShownFits(x) == (x # NoState /\ hooks.cpu) =>
                    profileThread = x /\ profile[x] = StateFromCi(frames[x])

ShapeFits(a) == /\ \A L \in States : StackFits(a.stack[L], frames[L])
                /\ ShownFits(a.shown)

\* An idle VM: nothing is collecting, a frame on the C stack has its caller
\* there and gives back what it found, and a luaprof function is innermost.
StackSettled(s) ==
    \A i \in 1 .. Len(s) :
        /\ "gc" \notin s[i]
        /\ (i > 1 /\ "attached" \in s[i - 1]) => "attached" \in s[i] /\ "good" \in s[i]
        /\ "api" \in s[i] => i = Len(s) /\ i > 1 /\ "attached" \in s[i - 1]

OnChain(L) == \E j \in 1 .. Len(chain) : chain[j] = L

StackOk(L, s) ==
    /\ StackSettled(s)
    /\ status[L] = "suspended" => \A i \in 1 .. Len(s) : "attached" \notin s[i]
    /\ OnChain(L) => Len(s) # 0 /\ "attached" \in s[Len(s)]
    /\ L = Main => /\ \A i \in 1 .. Len(s) : "attached" \in s[i]
                   /\ ~OnChain(Main) => Len(s) = 0

Settled(e) == /\ \A L \in States : StackOk(L, e.stack[L])
              /\ chain # <<>> => e.shown = Running

ShapeInv == \E a, e \in Shapes : ShapeFits(a) /\ Run(ShapeSteps, todo, a, e) /\ Settled(e)

LEMMA ShapeStepIn ==
    ASSUME NEW a \in Shapes, NEW b \in Shapes, NEW c \in Call, ShapeStep(a, c, b)
    PROVE  <<a, c, b>> \in ShapeSteps
BY DEF ShapeSteps

LEMMA ShapeTypes ==
    ASSUME NEW a \in Shapes
    PROVE  /\ a.stack \in [States -> Seq(Marks)] /\ a.shown \in States \cup {NoState}
           /\ \A L \in States : a.stack[L] \in Seq(Marks)
           /\ a = Shape(a.stack, a.shown)
BY DEF Shapes, Shape

LEMMA ShapeIn ==
    ASSUME NEW k \in [States -> Seq(Marks)], NEW x \in States \cup {NoState}
    PROVE  Shape(k, x) \in Shapes /\ Shape(k, x).stack = k /\ Shape(k, x).shown = x
BY DEF Shapes, Shape

LEMMA ShapeAt ==
    ASSUME TypeOK, ShapeInv, todo # <<>>
    PROVE  \E a, b, e \in Shapes : /\ ShapeFits(a) /\ ShapeStep(a, Head(todo), b)
                                   /\ Run(ShapeSteps, Tail(todo), b, e) /\ Settled(e)
                                   /\ Run(ShapeSteps, todo, a, e)
<1>1. PICK a \in Shapes, e \in Shapes : ShapeFits(a) /\ Run(ShapeSteps, todo, a, e) /\ Settled(e)
  BY DEF ShapeInv
<1>2. todo \in Seq(Call)
  BY DEF TypeOK
<1>3. PICK b : <<a, Head(todo), b>> \in ShapeSteps /\ Run(ShapeSteps, Tail(todo), b, e)
  BY <1>1, <1>2, RunHead
<1>4. b \in Shapes /\ ShapeStep(a, Head(todo), b)
  BY <1>3 DEF ShapeSteps
<1> QED
  BY <1>1, <1>3, <1>4

LEMMA ShapeIdle ==
    ASSUME ShapeInv, todo = <<>> PROVE \E a \in Shapes : ShapeFits(a) /\ Settled(a)
BY RunEmpty DEF ShapeInv

\* A call is made on a stack that has the frame it needs.
LEMMA ShapeReady == ASSUME TypeOK, ShapeInv, todo # <<>> PROVE Ready(Head(todo))
<1>1. PICK a \in Shapes, b \in Shapes : ShapeFits(a) /\ ShapeStep(a, Head(todo), b)
  BY ShapeAt
<1>2. Head(todo) \in Call /\ Head(todo).state \in States
  <2>1. Head(todo) \in Call
    BY TailProperties DEF TypeOK
  <2> QED
    BY <2>1 DEF Call
<1> DEFINE c == Head(todo)
           L == c.state
<1>3. Len(a.stack[L]) = Len(frames[L]) /\ a.stack[L] \in Seq(Marks) /\ frames[L] \in Seq(Frame)
  BY <1>1, <1>2, ShapeTypes DEF ShapeFits, StackFits, TypeOK
<1> HIDE DEF c, L
<1>4. a.stack[L] # <<>> => frames[L] # <<>>
  BY <1>3
<1>5. c.op \in {"leave", "reenter", "guard"} => a.stack[L] # <<>>
  BY <1>1 DEF ShapeStep, c, L, ShapeOthers, StackOps
<1>6. c.op = "enter" => c.vm # "host"
  BY <1>1 DEF ShapeStep, c, L, ShapeOthers, StackOps
<1> QED
  BY <1>4, <1>5, <1>6 DEF Ready, c, L

------------------------------------------------------------------------------
(* Marks of a stack that grows and shrinks. *)

LEMMA FitsPush ==
    ASSUME NEW s \in Seq(Marks), NEW t \in Seq(Frame), StackFits(s, t), NEW m \in Marks,
           NEW x \in Frame, "attached" \in m <=> x.attached, "gc" \in m <=> x.vm = "gc",
           "api" \in m <=> x.cfunction = Api, x.vm = "lua" => "api" \notin m,
           ("good" \in m /\ x.guarded) => x.saved = StateBelow(t, Len(t))
    PROVE  StackFits(Append(s, m), Append(t, x))
<1> DEFINE n == Len(t)
           u == Append(t, x)
           v == Append(s, m)
<1>1. /\ n \in Nat /\ Len(s) = n /\ Len(u) = n + 1 /\ Len(v) = n + 1
      /\ u[n + 1] = x /\ v[n + 1] = m
      /\ \A i \in 1 .. n : u[i] = t[i] /\ v[i] = s[i]
  BY DEF StackFits
<1> HIDE DEF n, u, v
<1>2. \A k \in 0 .. n : StateBelow(u, k) = StateBelow(t, k)
  <2> SUFFICES ASSUME NEW k \in 0 .. n PROVE StateBelow(u, k) = StateBelow(t, k)
    OBVIOUS
  <2>1. k \in Nat /\ \A i \in 1 .. k : u[i] = t[i]
    BY <1>1
  <2> QED
    BY <2>1, StateBelowCongruent
<1>3. ASSUME NEW i \in 1 .. n + 1
      PROVE  /\ "attached" \in v[i] <=> u[i].attached
             /\ "gc" \in v[i] <=> u[i].vm = "gc"
             /\ "api" \in v[i] <=> u[i].cfunction = Api
             /\ u[i].vm = "lua" => "api" \notin v[i]
             /\ ("good" \in v[i] /\ u[i].guarded) => u[i].saved = StateBelow(u, i - 1)
  <2>1. CASE i = n + 1
    BY <1>1, <2>1, <1>2 DEF n
  <2>2. CASE i # n + 1
    BY <1>1, <2>2, <1>2 DEF StackFits, n
  <2> QED
    BY <2>1, <2>2
<1> QED
  BY <1>1, <1>3 DEF StackFits, u, v

LEMMA FitsPrefix ==
    ASSUME NEW s \in Seq(Marks), NEW t \in Seq(Frame), StackFits(s, t), NEW n \in Nat,
           n <= Len(t)
    PROVE  StackFits(SubSeq(s, 1, n), SubSeq(t, 1, n))
<1> DEFINE u == SubSeq(t, 1, n)
           v == SubSeq(s, 1, n)
<1>1. /\ Len(s) = Len(t) /\ Len(t) \in Nat /\ Len(u) = n /\ Len(v) = n
      /\ \A i \in 1 .. n : u[i] = t[i] /\ v[i] = s[i]
  BY PrefixProperties DEF StackFits
<1> HIDE DEF u, v
<1>2. \A k \in 0 .. n : StateBelow(u, k) = StateBelow(t, k)
  <2> SUFFICES ASSUME NEW k \in 0 .. n PROVE StateBelow(u, k) = StateBelow(t, k)
    OBVIOUS
  <2>1. k \in Nat /\ \A i \in 1 .. k : u[i] = t[i]
    BY <1>1
  <2> QED
    BY <2>1, StateBelowCongruent
<1>3. \A i \in 1 .. n : i \in 1 .. Len(t) /\ StateBelow(u, i - 1) = StateBelow(t, i - 1)
  <2> SUFFICES ASSUME NEW i \in 1 .. n
               PROVE  i \in 1 .. Len(t) /\ StateBelow(u, i - 1) = StateBelow(t, i - 1)
    OBVIOUS
  <2>1. i \in 1 .. Len(t) /\ i - 1 \in 0 .. n
    BY <1>1
  <2> QED
    BY <1>2, <2>1
<1> QED
  BY <1>1, <1>3 DEF StackFits, u, v

LEMMA FitsFront ==
    ASSUME NEW s \in Seq(Marks), NEW t \in Seq(Frame), StackFits(s, t), s # <<>>
    PROVE  /\ t # <<>> /\ StackFits(Front(s), Front(t))
           /\ "attached" \in Last(s) <=> Last(t).attached
           /\ "gc" \in Last(s) <=> Last(t).vm = "gc"
           /\ "api" \in Last(s) <=> Last(t).cfunction = Api
           /\ Last(t).vm = "lua" => "api" \notin Last(s)
           /\ ("good" \in Last(s) /\ Last(t).guarded) => Last(t).saved = StateFromCi(Front(t))
<1> DEFINE n == Len(t)
<1>1. n \in Nat \ {0} /\ Len(s) = n /\ t # <<>>
  BY DEF StackFits
<1>2. n - 1 \in Nat /\ n - 1 <= n /\ n \in 1 .. n
  BY <1>1
<1>3. Front(s) = SubSeq(s, 1, n - 1) /\ Front(t) = SubSeq(t, 1, n - 1)
  BY <1>1 DEF Front
<1>4. StackFits(Front(s), Front(t))
  BY <1>1, <1>2, <1>3, FitsPrefix
<1>5. Last(s) = s[n] /\ Last(t) = t[n]
  BY <1>1 DEF Last
<1>6. StateBelow(t, n - 1) = StateFromCi(Front(t))
  <2>1. Front(t) \in Seq(Frame) /\ Len(Front(t)) = n - 1
        /\ \A i \in 1 .. n - 1 : Front(t)[i] = t[i]
    BY <1>1, FrontProperties
  <2>2. StateFromCi(Front(t)) = StateBelow(Front(t), n - 1)
    BY <2>1, StateOfStack
  <2> HIDE DEF n
  <2>3. StateBelow(Front(t), n - 1) = StateBelow(t, n - 1)
    BY <1>2, <2>1, StateBelowCongruent
  <2> QED
    BY <2>2, <2>3
<1> QED
  BY <1>1, <1>2, <1>4, <1>5, <1>6 DEF StackFits

\* Only the guard of work, or the place on the C stack, of some frames changes.
LEMMA FitsSame ==
    ASSUME NEW s, NEW t, NEW u, Len(u) = Len(t), Len(t) \in Nat, StackFits(s, t),
           \A i \in 1 .. Len(t) : /\ u[i].vm = t[i].vm /\ u[i].cfunction = t[i].cfunction
                                  /\ u[i].guarded = t[i].guarded /\ u[i].saved = t[i].saved,
           NEW v, Len(v) = Len(s),
           \A i \in 1 .. Len(t) : /\ "attached" \in v[i] <=> u[i].attached
                                  /\ v[i] \ {"attached"} = s[i] \ {"attached"}
    PROVE  StackFits(v, u)
<1> DEFINE n == Len(t)
<1>1. \A i \in 1 .. n, mark \in {"good", "gc", "api"} : mark \in v[i] <=> mark \in s[i]
  <2> SUFFICES ASSUME NEW i \in 1 .. n, NEW mark \in {"good", "gc", "api"}
               PROVE  mark \in v[i] <=> mark \in s[i]
    OBVIOUS
  <2>1. mark \in v[i] \ {"attached"} <=> mark \in s[i] \ {"attached"}
    OBVIOUS
  <2> QED
    BY <2>1
<1>2. \A i \in 1 .. n : StateBelow(u, i - 1) = StateBelow(t, i - 1)
  <2> SUFFICES ASSUME NEW i \in 1 .. n PROVE StateBelow(u, i - 1) = StateBelow(t, i - 1)
    OBVIOUS
  <2>1. i - 1 \in Nat /\ \A j \in 1 .. i - 1 : j \in 1 .. n
    OBVIOUS
  <2>2. \A j \in 1 .. i - 1 : u[j].vm = t[j].vm /\ u[j].cfunction = t[j].cfunction
    BY <2>1
  <2> HIDE DEF n
  <2> QED
    BY <2>1, <2>2, StateBelowCongruent
<1>3. \A i \in 1 .. n : u[i].saved = t[i].saved /\ u[i].guarded = t[i].guarded
  OBVIOUS
<1> QED
  BY <1>1, <1>2, <1>3 DEF StackFits

\* The innermost frame is what runs, unless it is a GC step.
LEMMA StateBelowTop ==
    ASSUME NEW s, NEW n \in Nat \ {0}, s[n].vm # "gc"
    PROVE  StateBelow(s, n) = [vm |-> s[n].vm, cfunction |-> s[n].cfunction]
<1> DEFINE calls == {i \in 1 .. n : s[i].vm # "gc"}
           ci == CHOOSE i \in calls : \A j \in calls : j <= i
<1>1. n \in calls /\ (\A j \in calls : j <= n) /\ \A j \in calls : j \in Nat
  OBVIOUS
<1>2. ci \in calls /\ \A j \in calls : j <= ci
  <2> HIDE DEF calls
  <2> QED
    BY <1>1
<1>3. ci = n
  <2> HIDE DEF calls, ci
  <2> QED
    BY <1>1, <1>2
<1>4. calls # {}
  BY <1>1
<1>5. StateBelow(s, n) = [vm |-> s[ci].vm, cfunction |-> s[ci].cfunction]
  BY <1>4 DEF StateBelow
<1> HIDE DEF ci
<1> QED
  BY <1>3, <1>5

LEMMA StateOfPush ==
    ASSUME NEW t \in Seq(Frame), NEW x \in Frame, x.vm # "gc"
    PROVE  StateFromCi(Append(t, x)) = [vm |-> x.vm, cfunction |-> x.cfunction]
<1> DEFINE u == Append(t, x)
           n == Len(t) + 1
<1>1. u \in Seq(Frame) /\ Len(u) = n /\ u[n] = x /\ n \in Nat \ {0}
  OBVIOUS
<1> HIDE DEF u, n
<1>2. StateFromCi(u) = StateBelow(u, n)
  BY <1>1, StateOfStack
<1>3. StateBelow(u, n) = [vm |-> x.vm, cfunction |-> x.cfunction]
  BY <1>1, StateBelowTop
<1> QED
  BY <1>2, <1>3 DEF u

ShapeNeutral == {c \in Call : c.op \in ShapeOthers}

LEMMA ShapeInserted ==
    ASSUME NEW a \in Shapes, NEW s \in Seq(ShapeNeutral), NEW rest \in Seq(Call), NEW e,
           Run(ShapeSteps, rest, a, e)
    PROVE  Run(ShapeSteps, s \o rest, a, e)
<1>1. \A c \in ShapeNeutral : <<a, c, a>> \in ShapeSteps
  BY DEF ShapeNeutral, ShapeSteps, ShapeStep
<1>2. Run(ShapeSteps, s, a, a)
  BY <1>1, RunSteady
<1>3. s \in Seq(Call)
  BY DEF ShapeNeutral
<1> QED
  BY <1>2, <1>3, RunCat

LEMMA HandoversNeutral == HandoverCall \subseteq ShapeNeutral
BY DEF HandoverCall, ShapeNeutral, ShapeOthers, Handovers, StackOps, Ops

\* A stack other than those that a step pushes to or pops keeps its marks.
LEMMA StacksFit ==
    ASSUME NEW a \in Shapes, \A x \in States : StackFits(a.stack[x], frames[x]),
           frames \in [States -> Seq(Frame)],
           NEW L \in States, NEW s \in Seq(Marks), NEW t \in Seq(Frame), StackFits(s, t),
           NEW k, k = [a.stack EXCEPT ![L] = s], frames' = [frames EXCEPT ![L] = t]
    PROVE  \A x \in States : StackFits(k[x], frames'[x])
BY ShapeTypes

\* What is published of the lua_State that a call is about.
LEMMA ShownPublished ==
    ASSUME TypeOK, NEW L \in States, NEW kind \in VmStates,
           NEW f \in Functions \cup {NoFunction}, NEW rest \in Seq(Call),
           IF hooks.cpu THEN Publish(L, kind, f, rest) ELSE Quiet(rest), UNCHANGED hooks,
           StateFromCi(frames[L])' = [vm |-> kind, cfunction |-> f]
    PROVE  ShownFits(L)'
<1>1. CASE hooks.cpu
  <2>1. profile' = [profile EXCEPT ![L] = [vm |-> kind, cfunction |-> f]] /\ profileThread' = L
    BY <1>1, PublishDoes
  <2>2. profile'[L] = [vm |-> kind, cfunction |-> f]
    BY <2>1 DEF TypeOK
  <2> QED
    BY <2>1, <2>2 DEF ShownFits
<1>2. CASE ~hooks.cpu
  BY <1>2 DEF ShownFits
<1> QED
  BY <1>1, <1>2

LEMMA NothingShown == ShownFits(NoState) /\ ShownFits(NoState)'
BY DEF ShownFits

LEMMA ShapeEnter ==
    ASSUME TypeOK, NEW call \in Call, NEW rest \in Seq(Call), PerformEnter(call, rest),
           NEW a \in Shapes, NEW b \in Shapes, ShapeFits(a), ShapeStep(a, call, b)
    PROVE  ShapeFits(b)'
<1> DEFINE L == call.state
           t == frames[L]
           s == a.stack[L]
           x == Entered(L, call.vm, call.cfunction)
<1>1. /\ L \in States /\ call.vm \in VmStates /\ call.cfunction \in Functions \cup {NoFunction}
      /\ frames \in [States -> Seq(Frame)] /\ t \in Seq(Frame) /\ call.op = "enter"
      /\ s \in Seq(Marks) /\ StackFits(s, t) /\ a.shown \in States \cup {NoState}
  BY ShapeTypes DEF TypeOK, Call, PerformEnter, ShapeFits
<1>2. /\ call.vm # "host" /\ (call.vm = "lua" => call.cfunction # Api)
      /\ \E m \in Marks : /\ Marked(m, call.vm, call.cfunction)
                          /\ "good" \in m => a.shown = L
                          /\ b.stack = [a.stack EXCEPT ![L] = Append(s, m)]
                          /\ b.shown = NoState \/ (b.shown = L /\ "gc" \notin m)
  BY <1>1 DEF ShapeStep, ShapeOthers, StackOps
<1>3. call.vm \in {"lua", "c", "gc"}
  BY <1>1, <1>2 DEF VmStates
<1>4. PICK m \in Marks : /\ Marked(m, call.vm, call.cfunction)
                         /\ "good" \in m => a.shown = L
                         /\ b.stack = [a.stack EXCEPT ![L] = Append(s, m)]
                         /\ b.shown = NoState \/ (b.shown = L /\ "gc" \notin m)
  BY <1>2
<1>5. /\ x \in Frame /\ frames' = [frames EXCEPT ![L] = Append(t, x)]
      /\ IF hooks.cpu THEN Publish(L, call.vm, call.cfunction, rest) ELSE Quiet(rest)
      /\ UNCHANGED hooks
  <2>1. EnterState(L, t, call.vm, call.cfunction, rest) /\ UNCHANGED hooks
    BY DEF PerformEnter
  <2> HIDE DEF t, L, x, s
  <2>4. /\ L \in States /\ t \in Seq(Frame) /\ call.vm \in {"lua", "c", "gc"}
        /\ call.cfunction \in Functions \cup {NoFunction}
    BY <1>1, <1>3
  <2>2. /\ Entered(L, call.vm, call.cfunction) \in Frame
        /\ frames' = [frames EXCEPT ![L] = Append(t, Entered(L, call.vm, call.cfunction))]
    BY <2>4, <2>1, EnterDoes
  <2>3. IF hooks.cpu THEN Publish(L, call.vm, call.cfunction, rest) ELSE Quiet(rest)
    BY <2>4, <2>1, EnterDoes
  <2> QED
    BY <2>1, <2>2, <2>3 DEF x
<1>6. /\ x.vm = call.vm /\ x.cfunction = call.cfunction /\ x.attached
      /\ x.guarded => hooks.cpu /\ x.saved = profile[L]
  BY DEF Entered
<1>7. ("good" \in m /\ x.guarded) => x.saved = StateBelow(t, Len(t))
  BY <1>1, NullAssumption, StateOfStack, <1>4, <1>6 DEF ShapeFits, ShownFits
<1>8. /\ "attached" \in m <=> x.attached
      /\ "gc" \in m <=> x.vm = "gc"
      /\ "api" \in m <=> x.cfunction = Api
      /\ x.vm = "lua" => "api" \notin m
  BY <1>2, <1>4, <1>6 DEF Marked
<1> HIDE DEF x, s, t, L
<1>9. StackFits(Append(s, m), Append(t, x))
  BY <1>1, <1>5, <1>7, <1>8, FitsPush
<1>10. Append(s, m) \in Seq(Marks) /\ Append(t, x) \in Seq(Frame)
  BY <1>1, <1>5
<1>11. \A y \in States : StackFits(b.stack[y], frames'[y])
  BY <1>1, <1>4, <1>5, <1>9, <1>10, StacksFit DEF ShapeFits
<1>12. ShownFits(b.shown)'
  <2>1. CASE b.shown = NoState
    BY <2>1, NothingShown
  <2>2. CASE b.shown = L /\ "gc" \notin m
    BY <1>1, <1>5, <1>8, <2>2, StateOfPush, <1>6, ShownPublished
  <2> QED
    BY <1>4, <2>1, <2>2
<1> QED
  BY <1>11, <1>12 DEF ShapeFits

LEMMA ShapeReenter ==
    ASSUME TypeOK, NEW call \in Call, NEW rest \in Seq(Call), PerformReenter(call, rest),
           NEW a \in Shapes, NEW b \in Shapes, ShapeFits(a), ShapeStep(a, call, b)
    PROVE  ShapeFits(b)'
<1> DEFINE L == call.state
           t == frames[L]
           s == a.stack[L]
           m == (Last(s) \cup {"attached"}) \ {"good"}
           x == Entered(L, Top(L).vm, Top(L).cfunction)
<1>1. /\ L \in States
      /\ frames \in [States -> Seq(Frame)] /\ t \in Seq(Frame) /\ call.op = "reenter"
      /\ s \in Seq(Marks) /\ StackFits(s, t)
  BY ShapeTypes DEF TypeOK, Call, PerformReenter, ShapeFits
<1>2. /\ s # <<>> /\ b.stack = [a.stack EXCEPT ![L] = Append(Front(s), m)]
      /\ b.shown = NoState \/ (b.shown = L /\ "gc" \notin Last(s))
  BY <1>1 DEF ShapeStep, ShapeOthers, StackOps
<1>3. /\ t # <<>> /\ StackFits(Front(s), Front(t))
      /\ "gc" \in Last(s) <=> Last(t).vm = "gc"
      /\ "api" \in Last(s) <=> Last(t).cfunction = Api
      /\ Last(t).vm = "lua" => "api" \notin Last(s)
  BY <1>1, <1>2, FitsFront
<1>4. /\ Last(s) \in Marks /\ Front(s) \in Seq(Marks)
      /\ Front(t) \in Seq(Frame) /\ Top(L) \in Frame /\ Top(L) = Last(t)
  BY <1>1, <1>2, <1>3, FrontProperties DEF Top
<1>5. Top(L).vm \in {"lua", "c", "gc"} /\ Top(L).cfunction \in Functions \cup {NoFunction}
      /\ Top(L).vm \in VmStates
  BY <1>4 DEF Frame, VmStates
<1>6. /\ x \in Frame /\ frames' = [frames EXCEPT ![L] = Append(Front(t), x)]
      /\ IF hooks.cpu THEN Publish(L, Top(L).vm, Top(L).cfunction, rest) ELSE Quiet(rest)
      /\ UNCHANGED hooks
  <2>1. EnterState(L, Front(t), Top(L).vm, Top(L).cfunction, rest) /\ UNCHANGED hooks
    BY DEF PerformReenter
  <2> HIDE DEF t, L, x, s
  <2>4. /\ L \in States /\ Front(t) \in Seq(Frame) /\ Top(L).vm \in {"lua", "c", "gc"}
        /\ Top(L).cfunction \in Functions \cup {NoFunction}
    BY <1>1, <1>4, <1>5
  <2>2. /\ Entered(L, Top(L).vm, Top(L).cfunction) \in Frame
        /\ frames' = [frames EXCEPT ![L] = Append(Front(t), Entered(L, Top(L).vm, Top(L).cfunction))]
    BY SMTT(30), <2>4, <2>1, EnterDoes
  <2>3. IF hooks.cpu THEN Publish(L, Top(L).vm, Top(L).cfunction, rest) ELSE Quiet(rest)
    BY <2>4, <2>1, EnterDoes
  <2> QED
    BY <2>1, <2>2, <2>3 DEF x
<1>7. x.vm = Top(L).vm /\ x.cfunction = Top(L).cfunction /\ x.attached
  BY DEF Entered
<1>8. m \in Marks /\ "attached" \in m /\ "good" \notin m
      /\ ("gc" \in m <=> "gc" \in Last(s)) /\ ("api" \in m <=> "api" \in Last(s))
  BY <1>4 DEF Marks
<1> HIDE DEF x, s, t, m, L
<1>9. StackFits(Append(Front(s), m), Append(Front(t), x))
  BY <1>3, <1>4, <1>6, <1>7, <1>8, FitsPush
<1>10. Append(Front(s), m) \in Seq(Marks) /\ Append(Front(t), x) \in Seq(Frame)
  BY <1>4, <1>6, <1>8
<1>11. \A y \in States : StackFits(b.stack[y], frames'[y])
  BY <1>1, <1>2, <1>6, <1>9, <1>10, StacksFit DEF ShapeFits
<1>12. ShownFits(b.shown)'
  <2>1. CASE b.shown = NoState
    BY <2>1, NothingShown
  <2>2. CASE b.shown = L /\ "gc" \notin Last(s)
    BY <1>3, <1>4, <1>6, <1>7, <2>2, StateOfPush, <1>1, <1>5, ShownPublished
  <2> QED
    BY <1>2, <2>1, <2>2
<1> QED
  BY <1>11, <1>12 DEF ShapeFits

LEMMA ShapeLeave ==
    ASSUME TypeOK, NEW call \in Call, NEW rest \in Seq(Call), PerformLeave(call, rest),
           NEW a \in Shapes, NEW b \in Shapes, ShapeFits(a), ShapeStep(a, call, b)
    PROVE  ShapeFits(b)'
<1> DEFINE L == call.state
           t == frames[L]
           s == a.stack[L]
<1>1. /\ L \in States
      /\ frames \in [States -> Seq(Frame)] /\ t \in Seq(Frame) /\ call.op = "leave"
      /\ s \in Seq(Marks) /\ StackFits(s, t)
  BY ShapeTypes DEF TypeOK, Call, PerformLeave, ShapeFits
<1>2. /\ s # <<>> /\ b.stack = [a.stack EXCEPT ![L] = Front(s)]
      /\ b.shown = NoState \/ (b.shown = L /\ "good" \in Last(s))
  BY <1>1 DEF ShapeStep, ShapeOthers, StackOps
<1>3. /\ t # <<>> /\ StackFits(Front(s), Front(t))
      /\ ("good" \in Last(s) /\ Last(t).guarded) => Last(t).saved = StateFromCi(Front(t))
  BY <1>1, <1>2, FitsFront
<1>4. /\ Front(t) \in Seq(Frame) /\ Back(L) \in Executions
      /\ frames' = [frames EXCEPT ![L] = Front(t)]
      /\ IF Top(L).guarded \/ hooks.cpu THEN Publish(L, Back(L).vm, Back(L).cfunction, rest)
         ELSE Quiet(rest)
      /\ UNCHANGED hooks
  BY <1>3, LeaveDoes DEF PerformLeave
<1>5. Front(s) \in Seq(Marks) /\ Top(L) = Last(t)
  BY <1>1, <1>2, FrontProperties DEF Top
<1>6. "good" \in Last(s) => Back(L) = StateFromCi(Front(t))
  BY <1>3, <1>5 DEF Back
<1>7. /\ Back(L).vm \in VmStates /\ Back(L).cfunction \in Functions \cup {NoFunction}
      /\ Back(L) = [vm |-> Back(L).vm, cfunction |-> Back(L).cfunction]
  BY <1>4 DEF Executions
<1> HIDE DEF s, t, L
<1>8. \A y \in States : StackFits(b.stack[y], frames'[y])
  BY <1>1, <1>2, <1>3, <1>4, <1>5, StacksFit DEF ShapeFits
<1>9. ShownFits(b.shown)'
  <2>1. CASE b.shown = NoState
    BY <2>1, NothingShown
  <2>2. CASE b.shown = L /\ "good" \in Last(s) /\ hooks.cpu
    BY <1>1, <1>4, <1>6, <1>7, <2>2, ShownPublished
  <2>3. CASE ~hooks.cpu
    BY <1>4, <2>3 DEF ShownFits
  <2> QED
    BY <1>2, <2>1, <2>2, <2>3
<1> QED
  BY <1>8, <1>9 DEF ShapeFits

\* The other publications change no stack.
LEMMA ShapePublish ==
    ASSUME TypeOK, NEW call \in Call, NEW rest \in Seq(Call),
           PerformPublish(call, rest) \/ PerformSync(call, rest) \/ PerformHost(call, rest),
           NEW a \in Shapes, NEW b \in Shapes, ShapeFits(a), ShapeStep(a, call, b)
    PROVE  ShapeFits(b)'
<1> DEFINE L == call.state
<1>1. /\ L \in States /\ frames \in [States -> Seq(Frame)] /\ frames[L] \in Seq(Frame)
      /\ UNCHANGED <<frames, hooks>>
  BY DEF TypeOK, Call, PerformPublish, PerformSync, PerformHost, vm
<1>2. \A y \in States : StackFits(b.stack[y], frames'[y])
  BY <1>1 DEF ShapeStep, ShapeOthers, StackOps, PerformPublish, PerformSync, PerformHost,
     ShapeFits
<1>3. CASE PerformPublish(call, rest) \/ PerformHost(call, rest)
  BY <1>3, <1>2, NothingShown DEF ShapeStep, ShapeOthers, StackOps, PerformPublish,
     PerformHost, ShapeFits
<1>4. CASE PerformSync(call, rest)
  <2>1. b.shown \in {L, NoState}
    BY <1>4 DEF ShapeStep, ShapeOthers, StackOps, PerformSync
  <2> DEFINE now == StateFromCi(frames[L])
  <2>2. now \in Executions
    <3>1. Len(frames[L]) \in Nat
      BY <1>1
    <3> QED
      BY <1>1, <3>1, StateOfStack, StateBelowType
  <2>3. IF hooks.cpu THEN Publish(L, now.vm, now.cfunction, rest) ELSE Quiet(rest)
    BY <1>4 DEF PerformSync, Quiet
  <2>4. /\ now.vm \in VmStates /\ now.cfunction \in Functions \cup {NoFunction}
        /\ now = [vm |-> now.vm, cfunction |-> now.cfunction]
    BY <2>2 DEF Executions
  <2>5. StateFromCi(frames[L])' = now
    BY <1>1
  <2> HIDE DEF now
  <2>6. ShownFits(L)'
    BY <1>1, <2>3, <2>4, <2>5, ShownPublished
  <2>7. ShownFits(b.shown)'
    BY <2>1, <2>6, NothingShown
  <2> QED
    BY <1>2, <2>7 DEF ShapeFits
<1> QED
  BY <1>3, <1>4

\* push_profiler_work_guard marks the innermost frame.
LEMMA GuardDoes ==
    ASSUME TypeOK, NEW call \in Call, NEW rest, call.op = "guard", frames[call.state] # <<>>,
           PerformBegin(call, rest)
    PROVE  \E t \in Seq(Frame) :
                LET s == frames[call.state] IN
                /\ frames' = [frames EXCEPT ![call.state] = t]
                /\ Len(t) = Len(s) /\ Len(s) \in Nat \ {0} /\ t[Len(s)].work
                /\ \A i \in 1 .. Len(s) - 1 : t[i] = s[i]
                /\ \A i \in 1 .. Len(s) :
                      /\ t[i].vm = s[i].vm /\ t[i].cfunction = s[i].cfunction
                      /\ t[i].guarded = s[i].guarded /\ t[i].saved = s[i].saved
                      /\ t[i].attached = s[i].attached
<1> DEFINE s == frames[call.state]
           top == [s[Len(s)] EXCEPT !.work = TRUE]
           t == [s EXCEPT ![Len(s)].work = TRUE]
           u == [s EXCEPT ![Len(s)] = top]
<1>1. call.state \in States /\ frames \in [States -> Seq(Frame)] /\ s \in Seq(Frame) /\ s # <<>>
  BY DEF Call, TypeOK
<1>2. frames' = [frames EXCEPT ![call.state] = t]
  BY <1>1 DEF PerformBegin
<1>3. t = u
  OBVIOUS
<1>4. Len(s) \in Nat \ {0} /\ Len(s) \in 1 .. Len(s) /\ s[Len(s)] \in Frame
  <2> HIDE DEF s
  <2> QED
    BY <1>1
<1>5. /\ top \in Frame /\ top.work
      /\ top.vm = s[Len(s)].vm /\ top.cfunction = s[Len(s)].cfunction
      /\ top.guarded = s[Len(s)].guarded /\ top.saved = s[Len(s)].saved
      /\ top.attached = s[Len(s)].attached
  <2> HIDE DEF s
  <2> QED
    BY <1>4 DEF Frame
<1> HIDE DEF s, top
<1>6. /\ u \in Seq(Frame) /\ Len(u) = Len(s) /\ u[Len(s)] = top
      /\ \A i \in 1 .. Len(s) - 1 : u[i] = s[i]
  BY <1>1, <1>4, <1>5
<1> HIDE DEF t, u
<1>7. \A i \in 1 .. Len(s) : i \in 1 .. Len(s) - 1 \/ i = Len(s)
  BY <1>4
<1>8. \A i \in 1 .. Len(s) : /\ u[i].vm = s[i].vm /\ u[i].cfunction = s[i].cfunction
                             /\ u[i].guarded = s[i].guarded /\ u[i].saved = s[i].saved
                             /\ u[i].attached = s[i].attached
  BY <1>5, <1>6, <1>7
<1>9. u[Len(s)].work
  BY <1>5, <1>6
<1> QED
  BY <1>2, <1>3, <1>4, <1>6, <1>8, <1>9 DEF s

LEMMA SettledKept ==
    ASSUME TypeOK, NEW e, Settled(e), chain' = chain, NEW L,
           (status' = status \/ status' = [status EXCEPT ![L] = "free"])
    PROVE  Settled(e)'
BY DEF TypeOK, Running, StackOk, OnChain, Settled

LEMMA ShapeFrame ==
    ASSUME NEW a, ShapeFits(a), UNCHANGED <<frames, hooks, profile, profileThread>>
    PROVE  ShapeFits(a)'
BY DEF ShapeFits, ShownFits

LEMMA ShapePerform ==
    ASSUME TypeOK, todo # <<>>, ShapeInv, Perform \/ Disarm
    PROVE  ShapeInv'
<1> DEFINE call == Head(todo)
           rest == Tail(todo)
           L == call.state
<1>1. call \in Call /\ rest \in Seq(Call)
  BY TailProperties DEF TypeOK
<1>2. L \in States /\ call.op \in Ops
  BY <1>1 DEF Call
<1>3. PICK a \in Shapes, b \in Shapes, e \in Shapes :
            /\ ShapeFits(a) /\ ShapeStep(a, call, b) /\ Run(ShapeSteps, rest, b, e) /\ Settled(e)
            /\ Run(ShapeSteps, todo, a, e)
  BY ShapeAt
<1>4. Ready(call)
  BY ShapeReady
<1>5. \/ StackCall(call, rest) \/ PerformHooks(call, rest) \/ PerformFree(call, rest)
      \/ PerformBegin(call, rest) \/ PerformEnd(call, rest)
      \/ PerformPublishSlot(call, rest) \/ PerformDrain(call, rest)
      \/ PerformQuality(call, rest) \/ PerformActivate(call, rest)
      \/ PerformArm(call, rest) \/ PerformRelease(call, rest)
      \/ PerformDeactivate(call, rest) \/ PerformDelete(call, rest)
      \/ PerformFinish(call, rest) \/ PerformMemory(call, rest)
      \/ PerformAllocate(call, rest) \/ PerformDisarm(call, rest)
  BY DEF Perform, Disarm, StackCall
<1>6. todo \in Seq(Call)
  BY DEF TypeOK
<1> HIDE DEF call, rest, L
<1>7. /\ \A op \in Ops : Do(op, L) \in Call /\ Do(op, L).op = op /\ Do(op, L).state = L
      /\ \A op \in ShapeOthers : Do(op, L) \in ShapeNeutral
      /\ <<>> \in Seq(ShapeNeutral) /\ <<>> \o rest = rest
  BY <1>1, <1>2, CallTypes DEF Do, ShapeNeutral, ShapeOthers
<1>8. ASSUME NEW s \in Seq(ShapeNeutral), todo' = s \o rest, ShapeFits(b)', Settled(e)'
      PROVE  ShapeInv'
  BY <1>1, <1>3, <1>8, ShapeInserted DEF ShapeInv
<1>9. ASSUME todo' = rest, ShapeFits(b)', Settled(e)' PROVE ShapeInv'
  BY <1>3, <1>9 DEF ShapeInv
<1>10. UNCHANGED <<status, chain>> => Settled(e)'
  BY <1>3, SettledKept
<1>11. CASE StackCall(call, rest)
  <2>1. ShapeFits(b)'
    BY <1>1, <1>3, <1>11, ShapeEnter, ShapeReenter, ShapeLeave, ShapePublish DEF StackCall
  <2>2. /\ UNCHANGED <<status, chain>>
        /\ \/ Quiet(rest)
           \/ \E kind \in VmStates, f \in Functions \cup {NoFunction} : Publish(L, kind, f, rest)
    BY <1>1, <1>4, <1>11, StackCallDoes DEF L
  <2>3. CASE Quiet(rest)
    BY <1>9, <1>10, <2>1, <2>2, <2>3 DEF Quiet
  <2>4. ASSUME NEW kind \in VmStates, NEW f \in Functions \cup {NoFunction},
               Publish(L, kind, f, rest)
        PROVE  ShapeInv'
    BY <1>1, <1>2, <2>4, PublishDoes, StateChangeWithin, HandoversNeutral, SeqWithin, <1>8,
       <1>9, <1>10, <2>1, <2>2
  <2> QED
    BY <2>2, <2>3, <2>4
<1>12. CASE PerformHooks(call, rest)
  <2> DEFINE x == Shape(a.stack, NoState)
  <2>1. /\ call.op = "hooks" /\ todo' = <<Do("sync", L)>> \o rest
        /\ UNCHANGED <<status, chain, frames>>
    BY <1>12 DEF PerformHooks, vm, L
  <2>2. b.stack = a.stack /\ b.shown \in {L, NoState}
    BY <1>3, <2>1 DEF ShapeStep, ShapeOthers, StackOps, L
  <2>3. x \in Shapes /\ x.stack = a.stack /\ x.shown = NoState
    BY <1>3, ShapeTypes, ShapeIn
  <2> HIDE DEF x
  <2>4. ShapeFits(x)'
    BY <1>3, <2>1, <2>3, NothingShown DEF ShapeFits
  <2>5. "sync" \in Ops
    BY DEF Ops
  <2>6. ShapeStep(x, Do("sync", L), b)
    BY <1>7, <2>2, <2>3, <2>5 DEF ShapeStep
  <2>9. <<x, Do("sync", L), b>> \in ShapeSteps /\ <<Do("sync", L)>> \in Seq(Call)
    BY <1>3, <1>7, <2>3, <2>5, <2>6, ShapeStepIn
  <2>7. Run(ShapeSteps, <<Do("sync", L)>>, x, b)
    BY <2>9, Run1
  <2>8. Run(ShapeSteps, todo', x, e)
    BY <1>1, <1>3, <2>1, <2>7, <2>9, RunCat
  <2> QED
    BY <1>10, <2>1, <2>3, <2>4, <2>8 DEF ShapeInv
<1>13. CASE PerformArm(call, rest)
  <2>1. /\ call.op = "arm" /\ UNCHANGED <<status, chain, frames, hooks, profile, profileThread>>
        /\ \/ todo' = <<Do("release", L)>> \o rest
           \/ todo' = <<Do("hooks", L), Do("delete", L), Do("finish", L)>> \o rest
    BY <1>13 DEF PerformArm, vm, patch, L
  <2>2. b = a /\ a.shown \in {L, NoState}
    BY <1>3, <2>1 DEF ShapeStep, ShapeOthers, StackOps, L
  <2>3. ShapeFits(b)'
    BY <1>3, <2>1, <2>2, ShapeFrame
  <2>4. CASE todo' = <<Do("release", L)>> \o rest
    <3>1. "release" \in ShapeOthers
      BY DEF ShapeOthers, Ops, StackOps
    <3>2. <<Do("release", L)>> \in Seq(ShapeNeutral)
      BY <1>7, <3>1
    <3> QED
      BY <1>8, <1>10, <2>1, <2>3, <2>4, <3>2
  <2>5. CASE todo' = <<Do("hooks", L), Do("delete", L), Do("finish", L)>> \o rest
    <3>1. "hooks" \in Ops /\ "delete" \in ShapeOthers /\ "finish" \in ShapeOthers
          /\ "delete" \in Ops /\ "finish" \in Ops
      BY DEF ShapeOthers, Ops, StackOps
    <3>2. /\ ShapeStep(b, Do("hooks", L), b) /\ ShapeStep(b, Do("delete", L), b)
          /\ ShapeStep(b, Do("finish", L), b)
      BY <1>7, <2>2, <3>1 DEF ShapeStep
    <3>3. /\ <<b, Do("hooks", L), b>> \in ShapeSteps /\ <<b, Do("delete", L), b>> \in ShapeSteps
          /\ <<b, Do("finish", L), b>> \in ShapeSteps
      BY <1>3, <1>7, <3>1, <3>2, ShapeStepIn
    <3>4. <<Do("hooks", L), Do("delete", L), Do("finish", L)>> \in Seq(Call)
      BY <1>7, <3>1
    <3>5. Run(ShapeSteps, <<Do("hooks", L), Do("delete", L), Do("finish", L)>>, b, b)
      BY <3>3, Run3
    <3>6. Run(ShapeSteps, todo', b, e)
      BY <1>1, <1>3, <2>5, <3>4, <3>5, RunCat
    <3> QED
      BY <1>3, <1>10, <2>1, <2>3, <3>6 DEF ShapeInv
  <2> QED
    BY <2>1, <2>4, <2>5
<1>14. CASE PerformFree(call, rest)
  <2>1. /\ call.op = "free" /\ todo' = rest /\ UNCHANGED <<chain, hooks, profile, profileThread>>
        /\ status' = [status EXCEPT ![L] = "free"] /\ frames' = [frames EXCEPT ![L] = <<>>]
    BY <1>14 DEF PerformFree, patch, L
  <2>2. /\ a.shown # L /\ b.stack = [a.stack EXCEPT ![L] = <<>>] /\ b.shown = a.shown
    BY <1>3, <2>1 DEF ShapeStep, ShapeOthers, StackOps, L
  <2>3. Settled(e)'
    BY <1>3, <2>1, SettledKept
  <2>4. StackFits(<<>>, <<>>) /\ <<>> \in Seq(Marks) /\ <<>> \in Seq(Frame)
    BY DEF StackFits
  <2>5. frames \in [States -> Seq(Frame)] /\ \A y \in States : StackFits(a.stack[y], frames[y])
    BY <1>3 DEF TypeOK, ShapeFits
  <2>6. \A y \in States : StackFits(b.stack[y], frames'[y])
    BY <1>2, <1>3, <2>1, <2>2, <2>4, <2>5, StacksFit
  <2>7. ShownFits(b.shown)'
    BY <1>3, ShapeTypes, <2>1, <2>2, <2>5 DEF ShapeFits, ShownFits
  <2>8. ShapeFits(b)'
    BY <2>6, <2>7 DEF ShapeFits
  <2> QED
    BY <1>9, <2>1, <2>3, <2>8
<1>15. CASE PerformBegin(call, rest)
  <2>1. /\ todo' = rest /\ call.op \in {"begin", "guard"}
        /\ UNCHANGED <<status, chain, hooks, profile, profileThread>>
    BY <1>15 DEF PerformBegin, patch
  <2>2. b = a
    BY <1>3, <2>1 DEF ShapeStep, ShapeOthers, StackOps
  <2>3. CASE call.op = "begin"
    BY <1>15, <2>3, <1>3, <1>9, <1>10, <2>1, <2>2, ShapeFrame DEF PerformBegin
  <2>4. CASE call.op = "guard"
    <3> DEFINE s == frames[L]
    <3>1. s # <<>> /\ s \in Seq(Frame) /\ frames \in [States -> Seq(Frame)]
      BY <1>2, <1>4, <2>4 DEF Ready, TypeOK, L
    <3>2. PICK t \in Seq(Frame) :
                /\ frames' = [frames EXCEPT ![L] = t]
                /\ Len(t) = Len(s) /\ Len(s) \in Nat
                /\ \A i \in 1 .. Len(s) :
                      /\ t[i].vm = s[i].vm /\ t[i].cfunction = s[i].cfunction
                      /\ t[i].guarded = s[i].guarded /\ t[i].saved = s[i].saved
                      /\ t[i].attached = s[i].attached
      BY <1>1, <1>15, <2>4, <3>1, GuardDoes DEF L
    <3> HIDE DEF s
    <3>3. StackFits(a.stack[L], s) /\ a.stack[L] \in Seq(Marks) /\ Len(a.stack[L]) = Len(s)
      BY <1>2, <1>3, ShapeTypes DEF ShapeFits, StackFits, s
    <3>4. \A i \in 1 .. Len(s) : "attached" \in a.stack[L][i] <=> t[i].attached
      BY <3>2, <3>3 DEF StackFits
    <3>5. StackFits(a.stack[L], t)
      <4> DEFINE v == a.stack[L]
      <4>1. Len(v) = Len(v) /\ \A i \in 1 .. Len(s) : v[i] \ {"attached"} = v[i] \ {"attached"}
        OBVIOUS
      <4>2. StackFits(v, s) /\ \A i \in 1 .. Len(s) : "attached" \in v[i] <=> t[i].attached
        BY <3>3, <3>4
      <4> HIDE DEF v
      <4>3. StackFits(v, t)
        BY <3>2, <4>1, <4>2, FitsSame
      <4> QED
        BY <4>3 DEF v
    <3>6. \A y \in States : StackFits(a.stack[y], frames'[y])
      BY <1>2, <1>3, ShapeTypes, <3>1, <3>2, <3>3, <3>5, StacksFit DEF ShapeFits
    <3>7. ShownFits(a.shown)'
      <4>1. StateFromCi(t) = StateFromCi(s)
        BY <3>1, <3>2, StateOfStack, StateBelowCongruent
      <4>2. a.shown \in States \cup {NoState}
        BY <1>3, ShapeTypes
      <4>3. frames'[L] = t /\ \A y \in States : y # L => frames'[y] = frames[y]
        BY <1>2, <3>1, <3>2
      <4>4. \A y \in States : StateFromCi(frames'[y]) = StateFromCi(frames[y])
        BY <4>1, <4>3 DEF s
      <4> QED
        BY <1>3, <2>1, <4>2, <4>4 DEF ShapeFits, ShownFits
    <3>8. ShapeFits(b)'
      BY <2>2, <3>6, <3>7 DEF ShapeFits
    <3> QED
      BY <1>9, <1>10, <2>1, <3>8
  <2> QED
    BY <2>1, <2>3, <2>4
<1>16. CASE PerformAllocate(call, rest)
  <2>1. /\ call.op = "allocate" /\ UNCHANGED <<status, chain, frames, hooks, profile, profileThread>>
        /\ todo' = <<Do("begin", Main), Do("end", Main)>> \o rest \/ todo' = <<>> \o rest
    BY <1>16 DEF PerformAllocate, vm, patch
  <2>2. b = a
    BY <1>3, <2>1 DEF ShapeStep, ShapeOthers, StackOps
  <2>3. ShapeFits(b)'
    BY <1>3, <2>1, <2>2, ShapeFrame
  <2>4. <<Do("begin", Main), Do("end", Main)>> \in Seq(ShapeNeutral)
    BY HandoverTypes, HandoversNeutral DEF HandoverCall, Handovers, Do
  <2> QED
    BY <1>7, <1>8, <1>10, <2>1, <2>3, <2>4
<1>17. CASE PerformDrain(call, rest) /\ timer.events # <<>>
  BY <1>17, <1>3, ShapeFrame, <1>10 DEF PerformDrain, vm, patch, ShapeInv
<1>18. CASE \/ PerformEnd(call, rest) \/ PerformPublishSlot(call, rest)
            \/ (PerformDrain(call, rest) /\ timer.events = <<>>)
            \/ PerformQuality(call, rest) \/ PerformActivate(call, rest)
            \/ PerformRelease(call, rest) \/ PerformDisarm(call, rest)
            \/ PerformDeactivate(call, rest) \/ PerformDelete(call, rest)
            \/ PerformFinish(call, rest) \/ PerformMemory(call, rest)
  <2>1. /\ todo' = rest
        /\ UNCHANGED <<status, chain, frames, hooks, profile, profileThread>>
        /\ call.op \in {"end", "open", "shut", "drain", "quality", "activate", "release", "disarm",
                        "deactivate", "delete", "finish", "memory"}
    BY <1>18 DEF PerformEnd, PerformPublishSlot, PerformDrain, PerformQuality,
       PerformActivate, PerformRelease, PerformDisarm, PerformDeactivate, PerformDelete,
       PerformFinish, PerformMemory, vm, patch
  <2>2. b = a
    BY <1>3, <2>1 DEF ShapeStep, ShapeOthers, StackOps
  <2>3. ShapeFits(b)'
    BY <1>3, <2>1, <2>2, ShapeFrame
  <2> QED
    BY <1>9, <1>10, <2>1, <2>3
<1> QED
  BY <1>5, <1>11, <1>12, <1>13, <1>14, <1>15, <1>16, <1>17, <1>18

LEMMA ShapeTick ==
    ASSUME TypeOK, ShapeInv, NEW overrun \in 0 .. MaxOverrun, Tick(overrun)
    PROVE  ShapeInv'
<1>1. UNCHANGED <<status, chain, frames, hooks, profile, profileThread, todo>>
  BY DEF Tick, vm
<1>2. PICK a \in Shapes, e \in Shapes : ShapeFits(a) /\ Run(ShapeSteps, todo, a, e) /\ Settled(e)
  BY DEF ShapeInv
<1>3. ShapeFits(a)' /\ Settled(e)'
  BY <1>1, <1>2, ShapeFrame, SettledKept
<1> QED
  BY <1>1, <1>2, <1>3 DEF ShapeInv

------------------------------------------------------------------------------
(* Settled stacks, and the calls that an idle VM makes on them. *)

LEMMA SettledPush ==
    ASSUME NEW s \in Seq(Marks), StackSettled(s), NEW m \in Marks, "gc" \notin m,
           (Len(s) # 0 /\ "attached" \in s[Len(s)]) => "attached" \in m /\ "good" \in m,
           \A i \in 1 .. Len(s) : "api" \notin s[i],
           "api" \in m => Len(s) # 0 /\ "attached" \in s[Len(s)]
    PROVE  /\ Append(s, m) \in Seq(Marks) /\ StackSettled(Append(s, m))
           /\ Len(Append(s, m)) = Len(s) + 1 /\ Append(s, m)[Len(s) + 1] = m
           /\ \A i \in 1 .. Len(s) : Append(s, m)[i] = s[i]
<1> DEFINE n == Len(s)
           v == Append(s, m)
<1>1. /\ n \in Nat /\ v \in Seq(Marks) /\ Len(v) = n + 1 /\ v[n + 1] = m
      /\ \A i \in 1 .. n : v[i] = s[i]
  OBVIOUS
<1> HIDE DEF v
<1>2. ASSUME NEW i \in 1 .. n + 1
      PROVE  /\ "gc" \notin v[i]
             /\ (i > 1 /\ "attached" \in v[i - 1]) => "attached" \in v[i] /\ "good" \in v[i]
             /\ "api" \in v[i] => i = n + 1 /\ i > 1 /\ "attached" \in v[i - 1]
  <2>1. CASE i = n + 1
    BY <1>1, <2>1
  <2>2. CASE i # n + 1
    <3>1. i \in 1 .. n /\ v[i] = s[i] /\ (i > 1 => i - 1 \in 1 .. n /\ v[i - 1] = s[i - 1])
      BY <1>1, <2>2
    <3> QED
      BY <3>1 DEF StackSettled
  <2> QED
    BY <2>1, <2>2
<1>3. StackSettled(v)
  BY <1>1, <1>2 DEF StackSettled
<1> QED
  BY <1>1, <1>3 DEF v

LEMMA SettledPrefix ==
    ASSUME NEW s \in Seq(Marks), StackSettled(s), NEW n \in Nat, n <= Len(s)
    PROVE  StackSettled(SubSeq(s, 1, n))
<1> DEFINE v == SubSeq(s, 1, n)
<1>1. Len(v) = n /\ Len(s) \in Nat /\ \A i \in 1 .. n : v[i] = s[i]
  BY PrefixProperties
<1> HIDE DEF v
<1>2. ASSUME NEW i \in 1 .. n
      PROVE  /\ "gc" \notin v[i]
             /\ (i > 1 /\ "attached" \in v[i - 1]) => "attached" \in v[i] /\ "good" \in v[i]
             /\ "api" \in v[i] => i = n /\ i > 1 /\ "attached" \in v[i - 1]
  BY <1>1 DEF StackSettled
<1>3. StackSettled(v)
  BY <1>1, <1>2 DEF StackSettled
<1> QED
  BY <1>3 DEF v

\* Leaving the innermost frame.
LEMMA SettledFront ==
    ASSUME NEW s \in Seq(Marks), StackSettled(s), s # <<>>
    PROVE  /\ Front(s) \in Seq(Marks) /\ StackSettled(Front(s)) /\ Len(Front(s)) = Len(s) - 1
           /\ \A i \in 1 .. Len(s) - 1 : Front(s)[i] = s[i] /\ "api" \notin Front(s)[i]
           /\ Last(s) = s[Len(s)] /\ Last(s) \in Marks /\ Len(s) \in Nat \ {0}
<1> DEFINE n == Len(s)
<1>1. /\ Front(s) \in Seq(Marks) /\ Len(Front(s)) = n - 1 /\ n \in Nat \ {0}
      /\ \A i \in 1 .. n - 1 : Front(s)[i] = s[i]
      /\ Last(s) = s[n] /\ Last(s) \in Marks
  BY FrontProperties
<1>2. Front(s) = SubSeq(s, 1, n - 1) /\ n - 1 \in Nat /\ n - 1 <= n
  BY <1>1 DEF Front
<1>3. StackSettled(Front(s))
  BY <1>1, <1>2, SettledPrefix
<1>4. \A i \in 1 .. n - 1 : "api" \notin s[i]
  BY <1>1 DEF StackSettled
<1> QED
  BY <1>1, <1>3, <1>4

\* Off the C stack.
Detached(s) == [i \in 1 .. Len(s) |-> s[i] \ {"attached"}]

LEMMA SettledDetached ==
    ASSUME NEW s \in Seq(Marks), StackSettled(s), \A i \in 1 .. Len(s) : "api" \notin s[i]
    PROVE  /\ Detached(s) \in Seq(Marks) /\ StackSettled(Detached(s))
           /\ Len(Detached(s)) = Len(s)
           /\ \A i \in 1 .. Len(s) : /\ "attached" \notin Detached(s)[i]
                                     /\ "api" \notin Detached(s)[i]
                                     /\ Detached(s)[i] \ {"attached"} = s[i] \ {"attached"}
BY DEF Detached, Marks, StackSettled

\* The innermost of some detached frames is entered again.
LEMMA SettledAgain ==
    ASSUME NEW s \in Seq(Marks), StackSettled(s), s # <<>>, "attached" \notin Last(s),
           "api" \notin Last(s)
    PROVE  LET m == (Last(s) \cup {"attached"}) \ {"good"}
               v == Append(Front(s), m) IN
           /\ v \in Seq(Marks) /\ StackSettled(v) /\ Len(v) = Len(s) /\ Len(v) # 0
           /\ "attached" \in v[Len(v)] /\ "gc" \notin Last(s)
<1> DEFINE n == Len(s)
           m == (Last(s) \cup {"attached"}) \ {"good"}
           v == Append(Front(s), m)
<1>1. /\ Front(s) \in Seq(Marks) /\ StackSettled(Front(s)) /\ Len(Front(s)) = n - 1
      /\ \A i \in 1 .. n - 1 : Front(s)[i] = s[i] /\ "api" \notin Front(s)[i]
      /\ Last(s) = s[n] /\ Last(s) \in Marks /\ n \in Nat \ {0}
  BY SettledFront
<1>2. n \in 1 .. n /\ (n # 1 => n - 1 \in 1 .. n - 1 /\ n > 1)
  BY <1>1
<1>3. "gc" \notin s[n] /\ (n # 1 => "attached" \notin s[n - 1])
  BY <1>1, <1>2 DEF StackSettled
<1>4. m \in Marks /\ "gc" \notin m /\ "attached" \in m /\ "api" \notin m
  BY <1>1, <1>3 DEF Marks
<1>5. Len(Front(s)) # 0 => "attached" \notin Front(s)[Len(Front(s))]
  BY <1>1, <1>2, <1>3
<1>6. /\ v \in Seq(Marks) /\ StackSettled(v) /\ Len(v) = (n - 1) + 1 /\ v[(n - 1) + 1] = m
  <2> HIDE DEF m, n
  <2> QED
    BY <1>1, <1>4, <1>5, SettledPush
<1>7. (n - 1) + 1 = n
  BY <1>1
<1> HIDE DEF m, v, n
<1> QED
  BY <1>1, <1>3, <1>4, <1>6, <1>7 DEF m, v, n

\* Where the other stacks are as they were.
LEMMA SettledUpdate ==
    ASSUME TypeOK, NEW a \in Shapes, Settled(a), NEW L \in States, NEW s \in Seq(Marks),
           StackOk(L, s)',
           \A y \in States \ {L} : OnChain(y)' <=> OnChain(y),
           \A y \in States \ {L} : status'[y] = "suspended" => status[y] = "suspended",
           NEW x, chain' # <<>> => x = Running'
    PROVE  Settled(Shape([a.stack EXCEPT ![L] = s], x))'
<1> DEFINE k == [a.stack EXCEPT ![L] = s]
           e == Shape(k, x)
<1>1. e.stack = k /\ e.shown = x
  BY DEF Shape
<1>2. k[L] = s /\ \A y \in States \ {L} : k[y] = a.stack[y]
  BY ShapeTypes
<1>3. \A y \in States \ {L} : StackOk(y, a.stack[y])
  BY DEF Settled
<1> HIDE DEF k, e
<1>4. \A y \in States \ {L} : StackOk(y, k[y])'
  <2> SUFFICES ASSUME NEW y \in States \ {L} PROVE StackOk(y, k[y])'
    OBVIOUS
  <2>1. StackOk(y, k[y]) /\ (OnChain(y)' <=> OnChain(y))
        /\ (status'[y] = "suspended" => status[y] = "suspended")
    BY <1>2, <1>3
  <2> QED
    BY <2>1 DEF StackOk
<1>5. \A y \in States : StackOk(y, k[y])'
  BY <1>2, <1>4
<1>6. Settled(e)'
  BY <1>1, <1>5 DEF Settled
<1> QED
  BY <1>6 DEF e, k

\* The steps of the stacks' automaton, from stacks k with x shown.
LEMMA CallIs ==
    ASSUME NEW op \in Ops, NEW L \in States
    PROVE  /\ Do(op, L) \in Call /\ Do(op, L).op = op /\ Do(op, L).state = L
           /\ \A kind \in VmStates, f \in Functions \cup {NoFunction} :
                /\ DoAs(op, L, kind, f) \in Call /\ DoAs(op, L, kind, f).op = op
                /\ DoAs(op, L, kind, f).state = L /\ DoAs(op, L, kind, f).vm = kind
                /\ DoAs(op, L, kind, f).cfunction = f
BY CallTypes DEF Do, DoAs

LEMMA PushEnds ==
    ASSUME NEW S, NEW s \in Seq(S), NEW m \in S
    PROVE  Append(s, m) # <<>> /\ Last(Append(s, m)) = m /\ Front(Append(s, m)) = s
BY DEF Last, Front

LEMMA EnterStep ==
    ASSUME NEW k \in [States -> Seq(Marks)], NEW x \in States \cup {NoState}, NEW L \in States,
           NEW kind \in VmStates, kind # "host", NEW f \in Functions \cup {NoFunction},
           kind = "lua" => f # Api, NEW m \in Marks, Marked(m, kind, f), "good" \in m => x = L,
           NEW h, h = [k EXCEPT ![L] = Append(k[L], m)],
           NEW y \in {NoState, L}, y = L => kind # "gc"
    PROVE  /\ <<Shape(k, x), DoAs("enter", L, kind, f), Shape(h, y)>> \in ShapeSteps
           /\ h \in [States -> Seq(Marks)] /\ h[L] = Append(k[L], m) /\ h[L] # <<>>
           /\ Last(h[L]) = m /\ Front(h[L]) = k[L] /\ [h EXCEPT ![L] = k[L]] = k
<1> DEFINE c == DoAs("enter", L, kind, f)
           a == Shape(k, x)
           b == Shape(h, y)
<1>1. /\ c \in Call /\ c.op = "enter" /\ c.state = L /\ c.vm = kind /\ c.cfunction = f
      /\ c.vm # "host"
  BY CallIs DEF Ops
<1>2. k[L] \in Seq(Marks) /\ Append(k[L], m) \in Seq(Marks)
  OBVIOUS
<1>3. h \in [States -> Seq(Marks)] /\ h[L] = Append(k[L], m)
  BY <1>2
<1>4. /\ a \in Shapes /\ a.stack = k /\ a.shown = x
      /\ b \in Shapes /\ b.stack = h /\ b.shown = y
  <2>1. y \in States \cup {NoState}
    OBVIOUS
  <2> QED
    BY <1>3, <2>1, ShapeIn
<1> HIDE DEF a, b, c
<1>5. ShapeStep(a, c, b)
  BY <1>4, NullAssumption, <1>1 DEF Marked, ShapeStep
<1>6. <<a, c, b>> \in ShapeSteps
  BY <1>1, <1>4, <1>5, ShapeStepIn
<1>7. LET v == Append(k[L], m) IN v # <<>> /\ Last(v) = m /\ Front(v) = k[L]
  BY <1>2, PushEnds
<1>8. [h EXCEPT ![L] = k[L]] = k
  BY <1>3
<1> QED
  BY <1>3, <1>6, <1>7, <1>8 DEF a, b, c

LEMMA LeaveStep ==
    ASSUME NEW k \in [States -> Seq(Marks)], NEW x \in States \cup {NoState}, NEW L \in States,
           k[L] # <<>>, NEW h, h = [k EXCEPT ![L] = Front(k[L])],
           NEW y \in {NoState, L}, y = NoState \/ "good" \in Last(k[L])
    PROVE  /\ <<Shape(k, x), Do("leave", L), Shape(h, y)>> \in ShapeSteps
           /\ h \in [States -> Seq(Marks)] /\ h[L] = Front(k[L])
<1> DEFINE c == Do("leave", L)
           a == Shape(k, x)
           b == Shape(h, y)
<1>1. c \in Call /\ c.op = "leave" /\ c.state = L
  BY CallIs DEF Ops
<1>2. k[L] \in Seq(Marks) /\ Front(k[L]) \in Seq(Marks)
  BY FrontProperties
<1>3. h \in [States -> Seq(Marks)] /\ h[L] = Front(k[L])
  BY <1>2
<1>4. /\ a \in Shapes /\ a.stack = k /\ a.shown = x
      /\ b \in Shapes /\ b.stack = h /\ b.shown = y
  <2>1. y \in States \cup {NoState}
    OBVIOUS
  <2> QED
    BY <1>3, <2>1, ShapeIn
<1> HIDE DEF a, b, c
<1>5. ShapeStep(a, c, b)
  BY <1>1, <1>4 DEF ShapeStep
<1>6. <<a, c, b>> \in ShapeSteps
  BY <1>1, <1>4, <1>5, ShapeStepIn
<1> QED
  BY <1>3, <1>6 DEF a, b, c

LEMMA ReenterStep ==
    ASSUME NEW k \in [States -> Seq(Marks)], NEW x \in States \cup {NoState}, NEW L \in States,
           k[L] # <<>>, NEW h,
           h = [k EXCEPT ![L] = Append(Front(k[L]), (Last(k[L]) \cup {"attached"}) \ {"good"})],
           NEW y \in {NoState, L}, y = NoState \/ "gc" \notin Last(k[L])
    PROVE  /\ <<Shape(k, x), Do("reenter", L), Shape(h, y)>> \in ShapeSteps
           /\ h \in [States -> Seq(Marks)]
<1> DEFINE c == Do("reenter", L)
           a == Shape(k, x)
           b == Shape(h, y)
           m == (Last(k[L]) \cup {"attached"}) \ {"good"}
<1>1. c \in Call /\ c.op = "reenter" /\ c.state = L
  BY CallIs DEF Ops
<1>2. k[L] \in Seq(Marks) /\ Front(k[L]) \in Seq(Marks) /\ Last(k[L]) \in Marks
  BY FrontProperties
<1>3. m \in Marks
  BY <1>2 DEF Marks
<1>4. h \in [States -> Seq(Marks)] /\ h = [k EXCEPT ![L] = Append(Front(k[L]), m)]
  <2>1. h = [k EXCEPT ![L] = Append(Front(k[L]), m)]
    OBVIOUS
  <2>2. Append(Front(k[L]), m) \in Seq(Marks)
    <3> HIDE DEF m
    <3> QED
      BY <1>2, <1>3
  <2> HIDE DEF m
  <2> QED
    BY <2>1, <2>2
<1>5. /\ a \in Shapes /\ a.stack = k /\ a.shown = x
      /\ b \in Shapes /\ b.stack = h /\ b.shown = y
  BY ZenonT(60), <1>4, ShapeIn
<1> HIDE DEF a, b, c
<1>6. ShapeStep(a, c, b)
  BY <1>1, <1>5 DEF ShapeStep
<1>7. <<a, c, b>> \in ShapeSteps
  BY <1>1, <1>5, <1>6, ShapeStepIn
<1> QED
  BY <1>4, <1>7 DEF a, b, c

\* The steps that leave the stacks alone.
LEMMA PublishStep ==
    ASSUME NEW k \in [States -> Seq(Marks)], NEW x \in States \cup {NoState}, NEW L \in States
    PROVE  /\ <<Shape(k, x), Do("host", L), Shape(k, NoState)>> \in ShapeSteps
           /\ \A f \in Functions \cup {NoFunction} :
                <<Shape(k, x), DoAs("publish", L, "c", f), Shape(k, NoState)>> \in ShapeSteps
           /\ \A op \in {"sync", "hooks"} : /\ <<Shape(k, x), Do(op, L), Shape(k, L)>> \in ShapeSteps
                                            /\ <<Shape(k, x), Do(op, L), Shape(k, NoState)>> \in ShapeSteps
           /\ \A op \in ShapeOthers : \A y \in States :
                <<Shape(k, x), Do(op, y), Shape(k, x)>> \in ShapeSteps
           /\ k[L] # <<>> => <<Shape(k, x), Do("guard", L), Shape(k, x)>> \in ShapeSteps
           /\ x \in {L, NoState} => <<Shape(k, x), Do("arm", L), Shape(k, x)>> \in ShapeSteps
<1> DEFINE a == Shape(k, x)
           b == Shape(k, L)
           n == Shape(k, NoState)
<1>1. /\ a \in Shapes /\ a.stack = k /\ a.shown = x
      /\ b \in Shapes /\ b.stack = k /\ b.shown = L
      /\ n \in Shapes /\ n.stack = k /\ n.shown = NoState
  BY ShapeIn
<1> HIDE DEF a, b, n
<1>2. \A op \in Ops : \A y \in States : Do(op, y) \in Call /\ Do(op, y).op = op /\ Do(op, y).state = y
  BY CallIs
<1>3. /\ {"host", "sync", "hooks", "guard", "arm", "publish"} \subseteq Ops
      /\ ShapeOthers \subseteq Ops /\ "c" \in VmStates
  BY DEF Ops, ShapeOthers, VmStates
<1>4. <<a, Do("host", L), n>> \in ShapeSteps
  <2>1. ShapeStep(a, Do("host", L), n)
    BY <1>1, <1>2, <1>3 DEF ShapeStep
  <2> QED
    BY <1>1, <1>2, <1>3, <2>1, ShapeStepIn
<1>5. ASSUME NEW f \in Functions \cup {NoFunction}
      PROVE  <<a, DoAs("publish", L, "c", f), n>> \in ShapeSteps
  <2>1. DoAs("publish", L, "c", f) \in Call /\ DoAs("publish", L, "c", f).op = "publish"
    BY <1>3, CallIs
  <2>2. ShapeStep(a, DoAs("publish", L, "c", f), n)
    BY <1>1, <2>1 DEF ShapeStep
  <2> QED
    BY <1>1, <2>1, <2>2, ShapeStepIn
<1>6. ASSUME NEW op \in {"sync", "hooks"}
      PROVE  <<a, Do(op, L), b>> \in ShapeSteps /\ <<a, Do(op, L), n>> \in ShapeSteps
  <2>1. ShapeStep(a, Do(op, L), b) /\ ShapeStep(a, Do(op, L), n)
    BY <1>1, <1>2, <1>3 DEF ShapeStep
  <2> QED
    BY <1>1, <1>2, <1>3, <2>1, ShapeStepIn
<1>7. ASSUME NEW op \in ShapeOthers, NEW y \in States PROVE <<a, Do(op, y), a>> \in ShapeSteps
  <2>1. ShapeStep(a, Do(op, y), a)
    BY <1>1, <1>2, <1>3 DEF ShapeStep
  <2> QED
    BY <1>1, <1>2, <1>3, <2>1, ShapeStepIn
<1>8. ASSUME k[L] # <<>> PROVE <<a, Do("guard", L), a>> \in ShapeSteps
  <2>1. ShapeStep(a, Do("guard", L), a)
    BY <1>1, <1>2, <1>3, <1>8 DEF ShapeStep
  <2> QED
    BY <1>1, <1>2, <1>3, <2>1, ShapeStepIn
<1>9. ASSUME x \in {L, NoState} PROVE <<a, Do("arm", L), a>> \in ShapeSteps
  <2>1. ShapeStep(a, Do("arm", L), a)
    BY <1>1, <1>2, <1>3, <1>9 DEF ShapeStep
  <2> QED
    BY <1>1, <1>2, <1>3, <2>1, ShapeStepIn
<1> QED
  BY <1>4, <1>5, <1>6, <1>7, <1>8, <1>9 DEF a, b, n

LEMMA FreeStep ==
    ASSUME NEW k \in [States -> Seq(Marks)], NEW x \in States \cup {NoState}, NEW L \in States,
           x # L
    PROVE  /\ <<Shape(k, x), Do("free", L), Shape([k EXCEPT ![L] = <<>>], x)>> \in ShapeSteps
           /\ [k EXCEPT ![L] = <<>>] \in [States -> Seq(Marks)]
<1> DEFINE a == Shape(k, x)
           h == [k EXCEPT ![L] = <<>>]
           b == Shape(h, x)
<1>1. h \in [States -> Seq(Marks)]
  OBVIOUS
<1>2. /\ a \in Shapes /\ a.stack = k /\ a.shown = x
      /\ b \in Shapes /\ b.stack = h /\ b.shown = x
  BY <1>1, ShapeIn
<1>3. Do("free", L) \in Call /\ Do("free", L).op = "free" /\ Do("free", L).state = L
  BY CallIs DEF Ops
<1> HIDE DEF a, b
<1>4. ShapeStep(a, Do("free", L), b)
  BY <1>2, <1>3 DEF ShapeStep
<1> QED
  BY <1>1, <1>2, <1>3, <1>4, ShapeStepIn DEF a, b

------------------------------------------------------------------------------
(* Longer runs of it. *)

Guarding == {"attached", "good"}

\* The __close of a guard, on a lua_State that is shown or that was taken off.
LEMMA CloseGuardShapes ==
    ASSUME NEW k \in [States -> Seq(Marks)], NEW L \in States, NEW x \in {NoState, L}
    PROVE  /\ CloseGuard(L) \in Seq(Call)
           /\ Run(ShapeSteps, CloseGuard(L), Shape(k, x), Shape(k, x))
<1> DEFINE m == IF x = L THEN {"attached", "good"} ELSE {"attached"}
           h == [k EXCEPT ![L] = Append(k[L], m)]
<1>1. m \in Marks /\ Marked(m, "c", GuardClose) /\ ("good" \in m => x = L)
      /\ (x = NoState \/ "good" \in m) /\ GuardClose \in Functions \cup {NoFunction}
  BY ApiAssumption, FunctionFacts DEF Marks, Marked
<1> HIDE DEF m
<1>0. h = [k EXCEPT ![L] = Append(k[L], m)] /\ x \in States \cup {NoState} /\ x \in {NoState, L}
      /\ "c" \in VmStates /\ "c" # "host" /\ ("c" = "lua" => GuardClose # Api) /\ (x = L => "c" # "gc")
  BY DEF VmStates
<1> HIDE DEF h
<1>2. /\ <<Shape(k, x), DoAs("enter", L, "c", GuardClose), Shape(h, x)>> \in ShapeSteps
      /\ h \in [States -> Seq(Marks)] /\ h[L] = Append(k[L], m) /\ h[L] # <<>>
      /\ Last(h[L]) = m /\ Front(h[L]) = k[L] /\ [h EXCEPT ![L] = k[L]] = k
  <2>1. <<Shape(k, x), DoAs("enter", L, "c", GuardClose), Shape(h, x)>> \in ShapeSteps
    BY <1>0, <1>1, EnterStep
  <2>2. h \in [States -> Seq(Marks)] /\ h[L] = Append(k[L], m) /\ h[L] # <<>>
    BY <1>0, <1>1, EnterStep
  <2>3. Last(h[L]) = m /\ Front(h[L]) = k[L]
    BY <1>1, <2>2, PushEnds
  <2>4. [h EXCEPT ![L] = k[L]] = k
    BY <1>0, <1>1, EnterStep
  <2> QED
    BY <2>1, <2>2, <2>3, <2>4
<1> HIDE DEF h
<1>3. <<Shape(h, x), Do("end", L), Shape(h, x)>> \in ShapeSteps
  BY <1>2, PublishStep DEF ShapeOthers, Ops, StackOps
<1>4. <<Shape(h, x), Do("leave", L), Shape(k, x)>> \in ShapeSteps
  BY ZenonT(60), <1>1, <1>2, LeaveStep
<1>5. Run(ShapeSteps, CloseGuard(L), Shape(k, x), Shape(k, x))
  BY <1>2, <1>3, <1>4, Run3 DEF CloseGuard
<1>6. CloseGuard(L) \in Seq(Call)
  BY CallIs, FunctionFacts DEF Ops, CloseGuard
<1> QED
  BY <1>5, <1>6

LEMMA CloseGuardsShapes ==
    ASSUME NEW k \in [States -> Seq(Marks)], NEW L \in States, NEW stack \in Seq(Frame)
    PROVE  /\ CloseGuards(L, stack) \in Seq(Call)
           /\ Run(ShapeSteps, CloseGuards(L, stack), Shape(k, NoState), Shape(k, NoState))
<1> DEFINE m == {"attached"}
           h == [k EXCEPT ![L] = Append(k[L], m)]
           n == Cardinality(Guards(stack))
           P == [i \in 0 .. n |-> Shape(k, NoState)]
           Q == [i \in 0 .. n |-> Shape(h, NoState)]
<1>1. m \in Marks /\ Marked(m, "c", GuardClose) /\ "good" \notin m
      /\ GuardClose \in Functions \cup {NoFunction}
  BY ApiAssumption, FunctionFacts DEF Marks, Marked
<1> HIDE DEF m
<1>0. /\ h = [k EXCEPT ![L] = Append(k[L], m)] /\ NoState \in States \cup {NoState}
      /\ NoState \in {NoState, L} /\ (NoState = L => "c" # "gc")
      /\ "c" \in VmStates /\ "c" # "host" /\ ("c" = "lua" => GuardClose # Api)
      /\ ("good" \in m => NoState = L)
  BY <1>1 DEF VmStates
<1> HIDE DEF h
<1>2. /\ <<Shape(k, NoState), DoAs("enter", L, "c", GuardClose), Shape(h, NoState)>> \in ShapeSteps
      /\ h \in [States -> Seq(Marks)] /\ h[L] = Append(k[L], m) /\ h[L] # <<>>
      /\ Last(h[L]) = m /\ Front(h[L]) = k[L] /\ [h EXCEPT ![L] = k[L]] = k
  <2>1. <<Shape(k, NoState), DoAs("enter", L, "c", GuardClose), Shape(h, NoState)>> \in ShapeSteps
    BY <1>0, <1>1, EnterStep
  <2>2. h \in [States -> Seq(Marks)] /\ h[L] = Append(k[L], m) /\ h[L] # <<>>
    BY <1>0, <1>1, EnterStep
  <2>3. Last(h[L]) = m /\ Front(h[L]) = k[L]
    BY <1>1, <2>2, PushEnds
  <2>4. [h EXCEPT ![L] = k[L]] = k
    BY <1>0, <1>1, EnterStep
  <2> QED
    BY <2>1, <2>2, <2>3, <2>4
<1> HIDE DEF h
<1>3. <<Shape(h, NoState), Do("end", L), Shape(h, NoState)>> \in ShapeSteps
  BY <1>2, PublishStep DEF ShapeOthers, Ops, StackOps
<1>4. <<Shape(h, NoState), Do("leave", L), Shape(k, NoState)>> \in ShapeSteps
  BY <1>2, LeaveStep
<1>5. n \in Nat
  BY GuardsFinite
<1> HIDE DEF n
<1>6. \A i \in 0 .. n : P[i] = Shape(k, NoState) /\ Q[i] = Shape(h, NoState)
  OBVIOUS
<1> HIDE DEF P, Q
<1>7. \A i \in 0 .. n - 1 : i \in 0 .. n /\ i + 1 \in 0 .. n
  BY <1>5
<1>8. \A i \in 0 .. n - 1 : /\ <<P[i], DoAs("enter", L, "c", GuardClose), Q[i]>> \in ShapeSteps
                            /\ <<Q[i], Do("end", L), Q[i]>> \in ShapeSteps
                            /\ <<Q[i], Do("leave", L), P[i + 1]>> \in ShapeSteps
  BY <1>2, <1>3, <1>4, <1>6, <1>7
<1>9. Run(ShapeSteps, CloseGuards(L, stack), P[0], P[n])
  BY <1>8, CloseGuardsRun DEF n
<1>10. P[0] = Shape(k, NoState) /\ P[n] = Shape(k, NoState)
  BY <1>5, <1>6
<1>11. CloseGuards(L, stack) \in Seq(Call)
  BY CallIs, FunctionFacts, CloseGuardsWithin DEF Ops
<1> QED
  BY <1>9, <1>10, <1>11

LEMMA StopCpuShapes ==
    ASSUME NEW k \in [States -> Seq(Marks)], NEW x \in States \cup {NoState}, NEW L \in States
    PROVE  /\ StopCpu(L) \in Seq(Call)
           /\ Run(ShapeSteps, StopCpu(L), Shape(k, x), Shape(k, L))
<1> DEFINE first == <<Do("disarm", L), Do("drain", L), Do("quality", L), Do("deactivate", L)>>
           second == <<Do("hooks", L), Do("delete", L), Do("finish", L)>>
<1>1. \A op \in {"disarm", "drain", "quality", "deactivate", "delete", "finish"} :
        op \in ShapeOthers /\ op \in Ops
  BY DEF ShapeOthers, Ops, StackOps
<1>2. \A op \in {"disarm", "drain", "quality", "deactivate", "delete", "finish"}, y \in {x, L} :
        <<Shape(k, y), Do(op, L), Shape(k, y)>> \in ShapeSteps
  BY <1>1, PublishStep
<1>3. <<Shape(k, x), Do("hooks", L), Shape(k, L)>> \in ShapeSteps
  BY PublishStep
<1>4. Run(ShapeSteps, first, Shape(k, x), Shape(k, x))
  BY <1>2, Run4
<1>5. Run(ShapeSteps, second, Shape(k, x), Shape(k, L))
  BY <1>2, <1>3, Run3
<1>6. "hooks" \in Ops
  BY DEF Ops
<1>7. first \in Seq(Call) /\ second \in Seq(Call)
  BY <1>1, <1>6, CallIs
<1>8. StopCpu(L) = first \o second
  BY DEF StopCpu
<1> HIDE DEF first, second
<1>9. first \o second \in Seq(Call) /\ Run(ShapeSteps, first \o second, Shape(k, x), Shape(k, L))
  BY <1>4, <1>5, <1>7, RunCat, CatProperties
<1> QED
  BY <1>8, <1>9

LEMMA ApiReturnShapes ==
    ASSUME NEW k \in [States -> Seq(Marks)], NEW x \in States \cup {NoState}, NEW L \in States,
           k[L] # <<>>, NEW h, h = [k EXCEPT ![L] = Front(k[L])],
           NEW y \in {NoState, L}, y = NoState \/ "good" \in Last(k[L])
    PROVE  /\ ApiReturn(L) \in Seq(Call) /\ h \in [States -> Seq(Marks)]
           /\ Run(ShapeSteps, ApiReturn(L), Shape(k, x), Shape(h, y))
<1>1. /\ <<Shape(k, x), Do("leave", L), Shape(h, y)>> \in ShapeSteps
      /\ h \in [States -> Seq(Marks)]
  BY LeaveStep
<1>2. Run(ShapeSteps, <<Do("leave", L)>>, Shape(k, x), Shape(h, y))
  BY <1>1, Run1
<1>3. CloseGuard(L) \in Seq(Call) /\ Run(ShapeSteps, CloseGuard(L), Shape(h, y), Shape(h, y))
  BY <1>1, CloseGuardShapes
<1>4. <<Do("leave", L)>> \in Seq(Call)
  BY CallIs DEF Ops
<1>5. Run(ShapeSteps, <<Do("leave", L)>> \o CloseGuard(L), Shape(k, x), Shape(h, y))
  BY <1>2, <1>3, <1>4, RunCat
<1>6. <<Do("leave", L)>> \o CloseGuard(L) \in Seq(Call)
  BY <1>3, <1>4, CatProperties
<1> QED
  BY <1>1, <1>5, <1>6 DEF ApiReturn

------------------------------------------------------------------------------
(* The stacks when the application acts. *)

LEMMA IdleShape ==
    ASSUME TypeOK, NEW a \in Shapes, ShapeFits(a), Settled(a)
    PROVE  LET L == Running
               k == a.stack
               s == k[L] IN
           /\ L \in States /\ Main \in States /\ k \in [States -> Seq(Marks)]
           /\ a.shown \in States \cup {NoState} /\ a = Shape(k, a.shown)
           /\ s \in Seq(Marks) /\ Len(s) \in Nat /\ StackSettled(s) /\ StackOk(L, s)
           /\ frames[L] \in Seq(Frame) /\ StackFits(s, frames[L]) /\ Len(s) = Len(frames[L])
           /\ chain # <<>> => /\ a.shown = L /\ OnChain(L) /\ s # <<>>
                              /\ Len(s) \in Nat \ {0} /\ Last(s) = s[Len(s)]
                              /\ "attached" \in s[Len(s)] /\ frames[L] # <<>>
                              /\ Last(frames[L]) = frames[L][Len(s)]
           /\ chain = <<>> => L = Main /\ s = <<>> /\ ~OnChain(Main)
<1> DEFINE L == Running
           k == a.stack
           s == k[L]
<1>1. /\ L \in States /\ Main \in States
      /\ chain # <<>> => L = chain[Len(chain)] /\ Len(chain) \in Nat \ {0}
  BY ChainStates
<1>2. /\ k \in [States -> Seq(Marks)] /\ a.shown \in States \cup {NoState} /\ a = Shape(k, a.shown)
  BY ShapeTypes
<1>3. frames[L] \in Seq(Frame) /\ StackFits(s, frames[L]) /\ Len(s) = Len(frames[L])
  BY <1>1 DEF TypeOK, ShapeFits, StackFits
<1>4. s \in Seq(Marks) /\ Len(s) \in Nat /\ StackSettled(s) /\ StackOk(L, s)
      /\ (chain # <<>> => a.shown = L) /\ StackOk(Main, k[Main])
  BY <1>1, <1>2 DEF Settled, StackOk
<1>5. chain # <<>> => OnChain(L)
  BY <1>1 DEF OnChain
<1>6. chain = <<>> => L = Main /\ ~OnChain(Main)
  BY DEF Running, OnChain
<1> HIDE DEF L, k, s
<1>7. chain # <<>> => Len(s) # 0 /\ "attached" \in s[Len(s)]
  BY <1>4, <1>5 DEF StackOk
<1>8. chain = <<>> => s = <<>>
  BY <1>4, <1>6 DEF StackOk, s
<1>9. Len(s) # 0 => /\ s # <<>> /\ Len(s) \in Nat \ {0} /\ Last(s) = s[Len(s)]
                    /\ frames[L] # <<>> /\ Last(frames[L]) = frames[L][Len(s)]
  BY <1>3, <1>4 DEF Last
<1> QED
  BY <1>1, <1>2, <1>3, <1>4, <1>5, <1>6, <1>7, <1>8, <1>9 DEF L, k, s

\* The running function is not one of luaprof's: none is on the stack.
LEMMA NoApi ==
    ASSUME TypeOK, NEW a \in Shapes, ShapeFits(a), Settled(a), chain # <<>>,
           Top(Running).vm = "lua" \/ Top(Running).cfunction # Api
    PROVE  \A i \in 1 .. Len(a.stack[Running]) : "api" \notin a.stack[Running][i]
<1> DEFINE L == Running
           s == a.stack[L]
           n == Len(s)
<1>1. /\ StackSettled(s) /\ StackFits(s, frames[L]) /\ n \in Nat \ {0} /\ n = Len(frames[L])
      /\ Last(frames[L]) = frames[L][n]
  BY IdleShape
<1> HIDE DEF s, n, L
<1>2. n \in 1 .. n /\ Top(L) = frames[L][n]
  BY <1>1 DEF Top
<1>3. "api" \notin s[n]
  BY <1>1, <1>2 DEF StackFits, L
<1>4. \A i \in 1 .. n : "api" \in s[i] => i = n
  BY <1>1 DEF StackSettled, n
<1> QED
  BY <1>3, <1>4 DEF s, n, L

\* The lua_State that runs gives way.
LEMMA FrontChain ==
    ASSUME TypeOK, ChainInv, chain # <<>>, chain' = Front(chain), NEW L, L = Running
    PROVE  /\ ~OnChain(L)' /\ \A y \in States \ {L} : OnChain(y)' <=> OnChain(y)
           /\ chain' # <<>> => Last(Front(chain)) \in States /\ Running' = Last(Front(chain))
           /\ L = Main => chain' = <<>>
<1> DEFINE n == Len(chain)
<1>1. /\ n \in Nat \ {0} /\ L = chain[n] /\ chain' \in Seq(States) /\ Len(chain') = n - 1
      /\ \A i \in 1 .. n - 1 : chain'[i] = chain[i]
      /\ chain' # <<>> => Last(Front(chain)) \in States
  BY ChainStates
<1>2. /\ \A i \in 1 .. n : chain[i] = Main => i = 1
      /\ \A i, j \in 1 .. n : chain[i] = chain[j] => i = j
  BY DEF ChainInv
<1> HIDE DEF n
<1>3. n \in 1 .. n /\ \A i \in 1 .. n : i \in 1 .. n - 1 \/ i = n
  BY <1>1
<1>4. \A i \in 1 .. n - 1 : i \in 1 .. n /\ chain[i] # L
  BY <1>1, <1>2, <1>3
<1>5. ~OnChain(L)'
  BY <1>1, <1>4 DEF OnChain
<1>6. \A y \in States \ {L} : OnChain(y)' <=> OnChain(y)
  <2> SUFFICES ASSUME NEW y \in States \ {L} PROVE OnChain(y)' <=> OnChain(y)
    OBVIOUS
  <2>1. OnChain(y)' <=> \E j \in 1 .. n - 1 : chain[j] = y
    BY <1>1 DEF OnChain
  <2>2. OnChain(y) <=> \E j \in 1 .. n : chain[j] = y
    BY DEF OnChain, n
  <2> QED
    BY <1>1, <1>3, <1>4, <2>1, <2>2
<1>7. L = Main => n = 1
  BY <1>1, <1>2, <1>3
<1>8. L = Main => chain' = <<>>
  BY <1>1, <1>7
<1>9. chain' # <<>> => Running' = Last(Front(chain))
  BY DEF Running
<1> QED
  BY <1>1, <1>5, <1>6, <1>8, <1>9

LEMMA ShapeStart ==
    ASSUME NEW a \in Shapes, NEW e \in Shapes, ShapeFits(a)', Settled(e)',
           Run(ShapeSteps, todo', a, e)
    PROVE  ShapeInv'
BY DEF ShapeInv

\* What the stacks are about stays as it is.
LEMMA IdleFits ==
    ASSUME NEW a, ShapeFits(a), frames' = frames, AfterVm
    PROVE  ShapeFits(a)'
BY ShapeFrame DEF AfterVm, patch

\* The lua_State that runs has a function more.
LEMMA SettledCall ==
    ASSUME TypeOK, ChainInv, NEW a \in Shapes, ShapeFits(a), Settled(a), chain # <<>>,
           NEW L, L = Running, Top(L).vm = "lua" \/ Top(L).cfunction # Api,
           UNCHANGED <<status, chain>>, NEW m \in Marks, "attached" \in m, "good" \in m,
           "gc" \notin m
    PROVE  Settled(Shape([a.stack EXCEPT ![L] = Append(a.stack[L], m)], L))'
<1> DEFINE s == a.stack[L]
           v == Append(s, m)
           n == Len(s)
<1>1. /\ s \in Seq(Marks) /\ StackSettled(s) /\ n \in Nat \ {0} /\ "attached" \in s[n]
      /\ OnChain(L) /\ StackOk(L, s) /\ L \in States
  BY IdleShape
<1>2. \A i \in 1 .. n : "api" \notin s[i]
  BY NoApi
<1> HIDE DEF s
<1>3. /\ v \in Seq(Marks) /\ StackSettled(v) /\ Len(v) = n + 1 /\ v[n + 1] = m
      /\ \A i \in 1 .. n : v[i] = s[i]
  BY <1>1, <1>2, SettledPush
<1> HIDE DEF v, n
<1>4. status[L] = "running"
  BY <1>1 DEF ChainInv, OnChain
<1>5. StackOk(L, v)'
  BY <1>1, <1>3, <1>4 DEF StackOk, n, OnChain
<1>6. Running' = L
  BY DEF Running
<1>7. \A y \in States \ {L} : OnChain(y)' <=> OnChain(y)
  BY DEF OnChain
<1> QED
  BY <1>1, <1>3, <1>5, <1>6, <1>7, SettledUpdate DEF v, s

\* It has one function less, and goes on.
LEMMA SettledReturn ==
    ASSUME TypeOK, ChainInv, NEW a \in Shapes, ShapeFits(a), Settled(a), chain # <<>>,
           NEW L, L = Running, UNCHANGED <<status, chain>>, Len(a.stack[L]) > 1,
           "attached" \in a.stack[L][Len(a.stack[L]) - 1]
    PROVE  /\ Settled(Shape([a.stack EXCEPT ![L] = Front(a.stack[L])], L))'
           /\ "good" \in Last(a.stack[L])
<1> DEFINE s == a.stack[L]
           v == Front(s)
           n == Len(s)
<1>1. /\ s \in Seq(Marks) /\ StackSettled(s) /\ n \in Nat \ {0} /\ "attached" \in s[n] /\ s # <<>>
      /\ OnChain(L) /\ StackOk(L, s) /\ L \in States /\ Last(s) = s[n]
  BY IdleShape
<1>2. n > 1 /\ "attached" \in s[n - 1] /\ n \in 1 .. n /\ n - 1 \in 1 .. n - 1
  BY <1>1
<1> HIDE DEF s
<1>3. /\ v \in Seq(Marks) /\ StackSettled(v) /\ Len(v) = n - 1
      /\ \A i \in 1 .. n - 1 : v[i] = s[i]
  BY <1>1, SettledFront
<1>4. "good" \in s[n]
  BY <1>1, <1>2 DEF StackSettled, n
<1> HIDE DEF v, n
<1>5. status[L] = "running"
  BY <1>1 DEF ChainInv, OnChain
<1>6. StackOk(L, v)'
  BY <1>1, <1>3, <1>2, <1>5 DEF StackOk, n, OnChain
<1>7. Running' = L
  BY DEF Running
<1>8. \A y \in States \ {L} : OnChain(y)' <=> OnChain(y)
  BY DEF OnChain
<1> QED
  BY <1>1, <1>3, <1>4, <1>6, <1>7, <1>8, SettledUpdate DEF v, s

LEMMA ShapeHostCall ==
    ASSUME TypeOK, ChainInv, NEW a \in Shapes, ShapeFits(a), Settled(a), HostCall
    PROVE  ShapeInv'
<1> DEFINE k == a.stack
           m == {"attached"}
           h == [k EXCEPT ![Main] = Append(k[Main], m)]
           e == Shape(h, Main)
<1>1. /\ chain = <<>> /\ chain' = <<Main>> /\ UNCHANGED <<status, frames>> /\ AfterVm
      /\ todo' = <<DoAs("enter", Main, "lua", NoFunction)>>
  BY DEF HostCall
<1>2. /\ Main = Running /\ Main \in States /\ k \in [States -> Seq(Marks)] /\ k[Main] = <<>>
      /\ a.shown \in States \cup {NoState} /\ a = Shape(k, a.shown)
      /\ k[Main] \in Seq(Marks) /\ StackSettled(k[Main]) /\ StackOk(Main, k[Main])
  BY <1>1, IdleShape
<1> HIDE DEF k
<1>3. m \in Marks /\ Marked(m, "lua", NoFunction) /\ "gc" \notin m /\ "api" \notin m
      /\ ("good" \in m => a.shown = Main) /\ ("lua" = "lua" => NoFunction # Api)
      /\ (Main = Main => "lua" # "gc") /\ Main \in {NoState, Main}
      /\ "lua" \in VmStates /\ "lua" # "host" /\ NoFunction \in Functions \cup {NoFunction}
  BY FunctionsAssumption, NullAssumption DEF Marks, Marked, VmStates
<1> HIDE DEF m
<1>4. h = [k EXCEPT ![Main] = Append(k[Main], m)]
  OBVIOUS
<1> HIDE DEF h
<1>5. /\ <<a, DoAs("enter", Main, "lua", NoFunction), e>> \in ShapeSteps
      /\ h \in [States -> Seq(Marks)] /\ h[Main] = Append(k[Main], m)
  <2>1. <<Shape(k, a.shown), DoAs("enter", Main, "lua", NoFunction), Shape(h, Main)>> \in ShapeSteps
    BY <1>2, <1>3, <1>4, EnterStep
  <2>2. h \in [States -> Seq(Marks)] /\ h[Main] = Append(k[Main], m)
    BY <1>2, <1>3, <1>4
  <2> QED
    BY <1>2, <2>1, <2>2
<1>6. Run(ShapeSteps, todo', a, e)
  <2> HIDE DEF e
  <2> QED
    BY <1>1, <1>5, Run1
<1>7. /\ Append(k[Main], m) \in Seq(Marks) /\ StackSettled(Append(k[Main], m))
      /\ Len(Append(k[Main], m)) = 1 /\ Append(k[Main], m)[1] = m
  <2> DEFINE s == k[Main]
  <2>1. /\ s \in Seq(Marks) /\ StackSettled(s) /\ Len(s) = 0
        /\ \A i \in 1 .. Len(s) : "api" \notin s[i]
    BY <1>2
  <2> HIDE DEF s
  <2>2. /\ Append(s, m) \in Seq(Marks) /\ StackSettled(Append(s, m))
        /\ Len(Append(s, m)) = Len(s) + 1 /\ Append(s, m)[Len(s) + 1] = m
    BY <1>3, <2>1, SettledPush
  <2> QED
    BY <2>1, <2>2 DEF s
<1>8. status[Main] = "running" /\ "attached" \in m
  BY DEF ChainInv, m
<1>9. StackOk(Main, Append(k[Main], m))'
  <2> DEFINE v == Append(k[Main], m)
  <2>1. StackSettled(v) /\ Len(v) = 1 /\ v[1] = m
    BY <1>7
  <2>2. OnChain(Main)'
    BY <1>1 DEF OnChain
  <2> HIDE DEF v
  <2>3. StackOk(Main, v)'
    BY <1>1, <1>8, <2>1, <2>2 DEF StackOk
  <2> QED
    BY <2>3 DEF v
<1>10. Running' = Main /\ \A y \in States \ {Main} : OnChain(y)' <=> OnChain(y)
  BY <1>1 DEF Last, OnChain, Running
<1>11. Settled(e)'
  BY <1>1, <1>2, <1>4, <1>7, <1>9, <1>10, SettledUpdate DEF k
<1>12. e \in Shapes
  BY <1>2, <1>5, ShapeIn
<1>13. ShapeFits(a)'
  BY <1>1, IdleFits
<1> HIDE DEF e
<1> QED
  BY <1>6, <1>11, <1>12, <1>13, ShapeStart

\* A function that calls a function.
LEMMA ShapeCall ==
    ASSUME TypeOK, ChainInv, NEW a \in Shapes, ShapeFits(a), Settled(a), chain # <<>>,
           NEW L, L = Running, Top(L).vm = "lua" \/ Top(L).cfunction # Api,
           NEW kind \in {"lua", "c"}, NEW f \in Functions \cup {NoFunction},
           kind = "lua" => f # Api, UNCHANGED <<status, chain, frames>>, AfterVm,
           \/ todo' = <<DoAs("enter", L, kind, f)>>
           \/ todo' = <<DoAs("enter", L, kind, f)>> \o <<Do("guard", L)>>
    PROVE  ShapeInv'
<1> DEFINE k == a.stack
           m == {"attached", "good"} \cup (IF f = Api THEN {"api"} ELSE {})
           h == [k EXCEPT ![L] = Append(k[L], m)]
           e == Shape(h, L)
           c == DoAs("enter", L, kind, f)
<1>1. /\ L \in States /\ k \in [States -> Seq(Marks)] /\ a.shown = L /\ a = Shape(k, L)
      /\ L \in States \cup {NoState}
  BY IdleShape
<1>2. m \in Marks /\ Marked(m, kind, f) /\ "gc" \notin m /\ "attached" \in m /\ "good" \in m
      /\ ("good" \in m => L = L) /\ (L = L => kind # "gc") /\ L \in {NoState, L}
      /\ kind \in VmStates /\ kind # "host"
  BY DEF Marks, Marked, VmStates
<1>3. Settled(e)'
  <2> HIDE DEF m
  <2> QED
    BY <1>2, SettledCall
<1>4. h = [k EXCEPT ![L] = Append(k[L], m)]
  OBVIOUS
<1> HIDE DEF k, m, h
<1>5. <<Shape(k, L), c, Shape(h, L)>> \in ShapeSteps
  BY <1>1, <1>2, <1>4, EnterStep
<1>6. h \in [States -> Seq(Marks)] /\ h[L] # <<>>
  BY <1>1, <1>2, <1>4, EnterStep
<1>7. e \in Shapes
  BY <1>1, <1>6, ShapeIn
<1>8. <<e, Do("guard", L), e>> \in ShapeSteps
  BY <1>1, <1>6, PublishStep
<1>9. <<c>> \in Seq(Call) /\ <<Do("guard", L)>> \in Seq(Call)
  BY <1>1, CallIs DEF Ops, VmStates
<1> HIDE DEF e
<1>10. <<a, c, e>> \in ShapeSteps
  BY <1>1, <1>5 DEF e
<1> HIDE DEF c
<1>11. Run(ShapeSteps, <<c>>, a, e) /\ Run(ShapeSteps, <<Do("guard", L)>>, e, e)
  BY <1>8, <1>10, Run1
<1>12. Run(ShapeSteps, <<c>> \o <<Do("guard", L)>>, a, e)
  BY <1>9, <1>11, RunCat
<1>13. Run(ShapeSteps, todo', a, e)
  BY <1>11, <1>12 DEF c
<1>14. ShapeFits(a)'
  BY IdleFits
<1> QED
  BY <1>3, <1>7, <1>13, <1>14, ShapeStart

LEMMA ShapeCallLua ==
    ASSUME TypeOK, ChainInv, NEW a \in Shapes, ShapeFits(a), Settled(a), CallLua
    PROVE  ShapeInv'
BY ApiAssumption, FunctionsAssumption, NullAssumption, ShapeCall DEF CallLua, vm

LEMMA ShapeCallC ==
    ASSUME TypeOK, ChainInv, NEW a \in Shapes, ShapeFits(a), Settled(a),
           NEW f \in Work \cup {PCall, Api}, CallC(f)
    PROVE  ShapeInv'
<1>1. /\ chain # <<>> /\ (Top(Running).vm = "lua" \/ Top(Running).cfunction = PCall) /\ AfterVm
      /\ UNCHANGED <<status, chain, frames>>
      /\ todo' = <<DoAs("enter", Running, "c", f)>>
                   \o (IF f = Api THEN <<Do("guard", Running)>> ELSE <<>>)
  BY DEF CallC, vm, RunsLua
<1>2. /\ f \in Functions \cup {NoFunction} /\ "c" \in {"lua", "c"} /\ PCall # Api
      /\ ("c" = "lua" => f # Api)
  BY FunctionFacts, ApiAssumption
<1>3. <<DoAs("enter", Running, "c", f)>> \o <<>> = <<DoAs("enter", Running, "c", f)>>
  OBVIOUS
<1>4. \/ todo' = <<DoAs("enter", Running, "c", f)>>
      \/ todo' = <<DoAs("enter", Running, "c", f)>> \o <<Do("guard", Running)>>
  BY <1>1, <1>3
<1>5. Top(Running).vm = "lua" \/ Top(Running).cfunction # Api
  BY <1>1, <1>2
<1> QED
  BY <1>1, <1>2, <1>4, <1>5, ShapeCall

\* The innermost frame is left with nothing said of what is below.
LEMMA ShapeLeft ==
    ASSUME NEW k \in [States -> Seq(Marks)], NEW L \in States, k[L] # <<>>, NEW x \in States \cup {NoState},
           NEW h, h = [k EXCEPT ![L] = Front(k[L])]
    PROVE  /\ <<Do("leave", L)>> \in Seq(Call) /\ h \in [States -> Seq(Marks)]
           /\ h[L] = Front(k[L])
           /\ Run(ShapeSteps, <<Do("leave", L)>>, Shape(k, x), Shape(h, NoState))
<1>1. <<Shape(k, x), Do("leave", L), Shape(h, NoState)>> \in ShapeSteps
  BY LeaveStep
<1>2. h \in [States -> Seq(Marks)] /\ h[L] = Front(k[L])
  BY LeaveStep
<1>3. <<Do("leave", L)>> \in Seq(Call)
  BY CallIs DEF Ops
<1> QED
  BY <1>1, <1>2, <1>3, Run1

\* A lua_State gives way to the one that resumed it: HOST, then that one's state.
LEMMA ShapeHandover ==
    ASSUME NEW k \in [States -> Seq(Marks)], NEW x \in States \cup {NoState}, NEW L \in States,
           NEW from \in Seq(States), from # <<>> => Last(from) \in States
    PROVE  LET t == IF from = <<>> THEN <<>> ELSE <<Do("sync", Last(from))>>
               y == IF from = <<>> THEN NoState ELSE Last(from) IN
           /\ <<Do("host", L)>> \o t \in Seq(Call) /\ t \in Seq(Call) /\ y \in States \cup {NoState}
           /\ Run(ShapeSteps, <<Do("host", L)>> \o t, Shape(k, x), Shape(k, y))
           /\ Run(ShapeSteps, <<Do("host", L)>>, Shape(k, x), Shape(k, NoState))
           /\ <<Do("host", L)>> \in Seq(Call)
           /\ Run(ShapeSteps, t, Shape(k, NoState), Shape(k, y))
<1> DEFINE t == IF from = <<>> THEN <<>> ELSE <<Do("sync", Last(from))>>
           y == IF from = <<>> THEN NoState ELSE Last(from)
<1>1. Run(ShapeSteps, <<Do("host", L)>>, Shape(k, x), Shape(k, NoState))
  BY PublishStep, Run1
<1>2. Run(ShapeSteps, t, Shape(k, NoState), Shape(k, y)) /\ t \in Seq(Call)
  <2>1. CASE from = <<>>
    BY RunNone, <2>1
  <2>2. CASE from # <<>>
    <3> DEFINE z == Last(from)
    <3>1. z \in States /\ "sync" \in Ops
      BY <2>2 DEF Ops
    <3> HIDE DEF z
    <3>2. <<Shape(k, NoState), Do("sync", z), Shape(k, z)>> \in ShapeSteps
      BY <3>1, PublishStep
    <3>3. Run(ShapeSteps, <<Do("sync", z)>>, Shape(k, NoState), Shape(k, z))
      BY <3>2, Run1
    <3>4. <<Do("sync", z)>> \in Seq(Call)
      BY <3>1, CallIs
    <3>5. t = <<Do("sync", z)>> /\ y = z
      BY <2>2 DEF z
    <3> QED
      BY <3>3, <3>4, <3>5
  <2> QED
    BY <2>1, <2>2
<1>3. <<Do("host", L)>> \in Seq(Call)
  BY CallIs DEF Ops
<1>4. y \in States \cup {NoState}
  OBVIOUS
<1> HIDE DEF t, y
<1>5. /\ <<Do("host", L)>> \o t \in Seq(Call)
      /\ Run(ShapeSteps, <<Do("host", L)>> \o t, Shape(k, x), Shape(k, y))
  BY <1>1, <1>2, <1>3, RunCat, CatProperties
<1> QED
  BY <1>1, <1>2, <1>3, <1>4, <1>5 DEF t, y

LEMMA ShapeReturn ==
    ASSUME TypeOK, ChainInv, NEW a \in Shapes, ShapeFits(a), Settled(a), Return,
           NEW L, L = Running
    PROVE  ShapeInv'
<1> DEFINE k == a.stack
           s == k[L]
           n == Len(s)
           rest == Front(frames[L])
           from == Front(chain)
           h == [k EXCEPT ![L] = Front(k[L])]
<1>1. /\ chain # <<>> /\ frames[L] # <<>> /\ Top(L).cfunction # Api /\ AfterVm /\ frames' = frames
      /\ \/ /\ rest # <<>>
            /\ todo' = <<Do("leave", L)>>
                         \o (IF Last(rest).attached THEN <<>> ELSE <<Do("reenter", L)>>)
            /\ UNCHANGED <<status, chain>>
         \/ /\ rest = <<>> /\ L = Main
            /\ todo' = <<Do("leave", L), Do("sync", L)>>
            /\ chain' = from /\ status' = status
         \/ /\ rest = <<>> /\ L # Main
            /\ todo' = <<Do("leave", L), Do("host", L)>>
                         \o (IF from = <<>> THEN <<>> ELSE <<Do("sync", Last(from))>>)
            /\ chain' = from /\ status' = [status EXCEPT ![L] = "dead"]
  BY DEF Return
<1>2. /\ L \in States /\ k \in [States -> Seq(Marks)] /\ a.shown = L /\ a = Shape(k, L)
      /\ L \in States \cup {NoState} /\ s \in Seq(Marks) /\ StackSettled(s) /\ n \in Nat \ {0}
      /\ n = Len(frames[L]) /\ frames[L] \in Seq(Frame) /\ StackFits(s, frames[L])
      /\ s # <<>> /\ Last(s) = s[n] /\ StackOk(L, s) /\ OnChain(L)
  BY <1>1, IdleShape
<1>3. ShapeFits(a)' /\ status[L] = "running"
  BY <1>1, IdleFits, <1>2 DEF ChainInv, OnChain
<1>4. /\ Front(s) \in Seq(Marks) /\ StackSettled(Front(s)) /\ Len(Front(s)) = n - 1
      /\ \A i \in 1 .. n - 1 : Front(s)[i] = s[i] /\ "api" \notin Front(s)[i]
  BY <1>2, SettledFront
<1>5. /\ rest \in Seq(Frame) /\ Len(rest) = n - 1
      /\ \A i \in 1 .. n - 1 : rest[i] = frames[L][i]
  BY ZenonT(60), <1>1, <1>2, FrontProperties
<1> HIDE DEF k, s, n, rest, from
<1>6. /\ <<Do("leave", L)>> \in Seq(Call) /\ h \in [States -> Seq(Marks)] /\ h[L] = Front(s)
      /\ Run(ShapeSteps, <<Do("leave", L)>>, a, Shape(h, NoState))
      /\ h = [k EXCEPT ![L] = Front(k[L])] /\ k[L] # <<>>
  <2>1. h = [k EXCEPT ![L] = Front(k[L])] /\ k[L] = s /\ k[L] # <<>>
    BY <1>2 DEF s
  <2> HIDE DEF h
  <2>2. Run(ShapeSteps, <<Do("leave", L)>>, Shape(k, L), Shape(h, NoState))
    BY <1>2, <2>1, ShapeLeft
  <2>3. h \in [States -> Seq(Marks)] /\ h[L] = Front(k[L])
    BY <1>2, <2>1, ShapeLeft
  <2>4. <<Do("leave", L)>> \in Seq(Call)
    BY <1>2, <2>1, ShapeLeft
  <2> QED
    BY <1>2, <2>1, <2>2, <2>3, <2>4
<1> HIDE DEF h
<1>7. h = [a.stack EXCEPT ![L] = Front(s)]
  BY <1>6 DEF k, s
\* Below lies a frame that is still on the C stack.
<1>8. CASE rest # <<>> /\ Last(rest).attached /\ UNCHANGED <<status, chain>>
           /\ todo' = <<Do("leave", L)>>
  <2>1. n > 1 /\ n - 1 \in 1 .. n /\ "attached" \in s[n - 1]
    <3>1. n - 1 # 0
      BY <1>5, <1>8
    <3>2. n - 1 \in 1 .. n /\ n - 1 \in 1 .. n - 1 /\ n > 1
      <4>1. n \in Nat \ {0}
        BY <1>2
      <4> QED
        BY <3>1, <4>1
    <3>3. Last(rest) = frames[L][n - 1]
      BY <1>5, <3>2 DEF Last
    <3> QED
      BY <1>2, <1>8, <3>2, <3>3 DEF StackFits
  <2>2. /\ Settled(Shape([a.stack EXCEPT ![L] = Front(a.stack[L])], L))'
        /\ "good" \in Last(a.stack[L])
    BY <1>1, <1>8, <2>1, SettledReturn DEF k, s, n
  <2>3. Settled(Shape(h, L))' /\ "good" \in Last(k[L])
    BY <2>2, <1>6 DEF k
  <2>4. <<Shape(k, L), Do("leave", L), Shape(h, L)>> \in ShapeSteps
    BY <2>3, <1>2, <1>6, LeaveStep
  <2>5. Run(ShapeSteps, <<Do("leave", L)>>, Shape(k, L), Shape(h, L))
    BY <2>4, Run1
  <2>6. Run(ShapeSteps, todo', a, Shape(h, L))
    BY <1>2, <1>8, <2>5
  <2>7. Shape(h, L) \in Shapes
    BY <1>2, <1>6, ShapeIn
  <2> QED
    BY <1>3, <2>3, <2>6, <2>7, ShapeStart
\* Below lies one that a longjmp took off it.
<1>9. CASE rest # <<>> /\ ~Last(rest).attached /\ UNCHANGED <<status, chain>>
           /\ todo' = <<Do("leave", L)>> \o <<Do("reenter", L)>>
  <2> DEFINE f == Front(s)
             m == (Last(f) \cup {"attached"}) \ {"good"}
             v == Append(Front(f), m)
             g == [h EXCEPT ![L] = v]
             e == Shape(g, L)
  <2>1. n > 1 /\ n - 1 \in 1 .. n /\ n - 1 \in 1 .. n - 1 /\ "attached" \notin s[n - 1]
    <3>1. n - 1 # 0
      BY <1>5, <1>9
    <3>2. n - 1 \in 1 .. n /\ n - 1 \in 1 .. n - 1 /\ n > 1
      <4>1. n \in Nat \ {0}
        BY <1>2
      <4> QED
        BY <3>1, <4>1
    <3>3. Last(rest) = frames[L][n - 1]
      BY <1>5, <3>2 DEF Last
    <3> QED
      BY <1>2, <1>9, <3>2, <3>3 DEF StackFits
  <2>2. /\ f \in Seq(Marks) /\ StackSettled(f) /\ f # <<>> /\ "attached" \notin Last(f)
        /\ "api" \notin Last(f)
    BY <1>4, <2>1 DEF Last
  <2> HIDE DEF f
  <2>3. /\ v \in Seq(Marks) /\ StackSettled(v) /\ Len(v) = Len(f) /\ Len(v) # 0
        /\ "attached" \in v[Len(v)] /\ "gc" \notin Last(f)
    BY <2>2, SettledAgain
  <2>4. h[L] = f /\ g = [h EXCEPT ![L] = Append(Front(h[L]), (Last(h[L]) \cup {"attached"}) \ {"good"})]
    BY <1>6 DEF f
  <2>5. g = [a.stack EXCEPT ![L] = v]
    BY <1>2, <1>7 DEF k
  <2> HIDE DEF v, m, g
  <2>6. <<Shape(h, NoState), Do("reenter", L), Shape(g, L)>> \in ShapeSteps
    BY <2>2, <2>3, <2>4, <1>2, <1>6, ReenterStep
  <2>7. g \in [States -> Seq(Marks)]
    BY <1>2, <2>3, <2>5 DEF k
  <2>8. Run(ShapeSteps, <<Do("reenter", L)>>, Shape(h, NoState), e)
    BY <2>6, Run1
  <2>9. <<Do("reenter", L)>> \in Seq(Call)
    BY <1>2, CallIs DEF Ops
  <2>10. Run(ShapeSteps, <<Do("leave", L)>> \o <<Do("reenter", L)>>, a, e)
    BY <1>6, <2>8, <2>9, RunCat
  <2>11. Run(ShapeSteps, todo', a, e)
    BY <1>9, <2>10
  <2>12. StackOk(L, v)'
    BY <2>1, <1>2, <1>3, <1>9, <2>3 DEF n, StackOk
  <2>13. Running' = L /\ \A y \in States \ {L} : OnChain(y)' <=> OnChain(y)
    BY <1>9 DEF Running, OnChain
  <2>14. Settled(e)'
    BY <1>2, <1>9, <2>3, <2>5, <2>12, <2>13, SettledUpdate
  <2>15. e \in Shapes
    BY <1>2, <2>7, ShapeIn
  <2> HIDE DEF e
  <2> QED
    BY <1>3, <2>11, <2>14, <2>15, ShapeStart
<1>10. ASSUME rest = <<>> PROVE Front(s) = <<>>
  BY <1>4, <1>5, <1>10
<1>11. ASSUME rest = <<>>, chain' = from,
              status' = status \/ (L # Main /\ status' = [status EXCEPT ![L] = "dead"]),
              L = Main \/ status' = [status EXCEPT ![L] = "dead"],
              NEW x \in States \cup {NoState}, chain' # <<>> => x = Running'
       PROVE  Settled(Shape(h, x))' /\ Shape(h, x) \in Shapes
  <2>1. /\ ~OnChain(L)' /\ \A y \in States \ {L} : OnChain(y)' <=> OnChain(y)
    BY <1>1, <1>11, FrontChain DEF from
  <2>2. status'[L] # "suspended" /\ \A y \in States \ {L} : status'[y] = status[y]
    BY <1>2, <1>3, <1>11 DEF TypeOK
  <2>3. <<>> \in Seq(Marks) /\ StackSettled(<<>>) /\ Len(<<>>) = 0
    BY DEF StackSettled
  <2>4. StackOk(L, <<>>)'
    BY <2>1, <2>2, <2>3 DEF StackOk
  <2>5. h = [a.stack EXCEPT ![L] = <<>>]
    BY <1>7, <1>10, <1>11
  <2>6. Settled(Shape(h, x))'
    BY <1>2, <1>11, <2>1, <2>2, <2>3, <2>4, <2>5, SettledUpdate
  <2> QED
    BY <1>6, <1>11, <2>6, ShapeIn
\* lua_pcall ends.
<1>12. CASE rest = <<>> /\ L = Main /\ todo' = <<Do("leave", L), Do("sync", L)>>
            /\ chain' = from /\ status' = status
  <2>1. chain' = <<>>
    BY <1>1, <1>12, FrontChain DEF from
  <2>2. Settled(Shape(h, L))' /\ Shape(h, L) \in Shapes
    BY <1>2, <1>11, <1>12, <2>1
  <2>3. <<Shape(h, NoState), Do("sync", L), Shape(h, L)>> \in ShapeSteps
    BY <1>2, <1>6, PublishStep
  <2>4. Run(ShapeSteps, <<Do("sync", L)>>, Shape(h, NoState), Shape(h, L))
    BY <2>3, Run1
  <2>5. <<Do("sync", L)>> \in Seq(Call)
    BY <1>2, CallIs DEF Ops
  <2>6. <<Do("leave", L), Do("sync", L)>> = <<Do("leave", L)>> \o <<Do("sync", L)>>
    OBVIOUS
  <2>7. Run(ShapeSteps, <<Do("leave", L)>> \o <<Do("sync", L)>>, a, Shape(h, L))
    BY <1>6, <2>4, <2>5, RunCat
  <2>8. Run(ShapeSteps, todo', a, Shape(h, L))
    BY <1>12, <2>6, <2>7
  <2> QED
    BY <1>3, <2>2, <2>8, ShapeStart
\* lua_resume ends.
<1>13. CASE /\ rest = <<>> /\ L # Main
            /\ todo' = <<Do("leave", L), Do("host", L)>>
                         \o (IF from = <<>> THEN <<>> ELSE <<Do("sync", Last(from))>>)
            /\ chain' = from /\ status' = [status EXCEPT ![L] = "dead"]
  <2> DEFINE t == IF from = <<>> THEN <<>> ELSE <<Do("sync", Last(from))>>
             u == <<Do("host", L)>> \o t
  <2>0. PICK x : x = IF from = <<>> THEN NoState ELSE Last(from)
    OBVIOUS
  <2>1. from \in Seq(States) /\ (from # <<>> => Last(from) \in States /\ Running' = Last(from))
    BY <1>1, <1>13, ChainStates, FrontChain DEF from
  <2>2. /\ u \in Seq(Call) /\ t \in Seq(Call) /\ x \in States \cup {NoState}
        /\ Run(ShapeSteps, u, Shape(h, NoState), Shape(h, x))
    BY <1>2, <1>6, <2>0, <2>1, ShapeHandover
  <2>3. chain' # <<>> => x = Running'
    BY <1>13, <2>0, <2>1
  <2>4. todo' = <<Do("leave", L)>> \o u
    <3>1. <<Do("leave", L), Do("host", L)>> \o t = <<Do("leave", L)>> \o (<<Do("host", L)>> \o t)
      <4>1. Do("leave", L) \in Call /\ Do("host", L) \in Call
        BY <1>2, CallIs DEF Ops
      <4>2. t \in Seq(Call)
        BY <2>2
      <4> HIDE DEF t
      <4> QED
        BY <4>1, <4>2
    <3> QED
      BY <1>13, <3>1
  <2> HIDE DEF u, t
  <2>5. Run(ShapeSteps, todo', a, Shape(h, x))
    BY <1>6, <2>2, <2>4, RunCat
  <2>6. Settled(Shape(h, x))' /\ Shape(h, x) \in Shapes
    BY <1>11, <1>13, <2>2, <2>3
  <2> QED
    BY <1>3, <2>5, <2>6, ShapeStart
<1>14. <<Do("leave", L)>> \o <<>> = <<Do("leave", L)>>
  OBVIOUS
<1> QED
  BY <1>1, <1>8, <1>9, <1>12, <1>13, <1>14

------------------------------------------------------------------------------
(* The application stays in the function it is in.                           *)

LEMMA ShapeStays ==
    ASSUME TypeOK, NEW a \in Shapes, ShapeFits(a), Settled(a),
           UNCHANGED <<vm, hooks, profile, profileThread>>, Run(ShapeSteps, todo', a, a)
    PROVE  ShapeInv'
BY ShapeFrame, ChainStates, SettledKept, ShapeStart DEF vm

LEMMA ShapeAllocate ==
    ASSUME TypeOK, NEW a \in Shapes, ShapeFits(a), Settled(a), Allocate
    PROVE  ShapeInv'
<1>1. "allocate" \in ShapeOthers
  BY DEF ShapeOthers, Ops, StackOps
<1>2. /\ a = Shape(a.stack, a.shown) /\ a.stack \in [States -> Seq(Marks)]
      /\ a.shown \in States \cup {NoState} /\ Running \in States
  BY ShapeTypes, ChainStates
<1>3. <<a, Do("allocate", Running), a>> \in ShapeSteps
  <2> DEFINE k == a.stack
             x == a.shown
  <2>1. a = Shape(k, x)
    BY <1>2
  <2> HIDE DEF k, x
  <2>2. k \in [States -> Seq(Marks)] /\ x \in States \cup {NoState}
    BY <1>2 DEF k, x
  <2>3. <<Shape(k, x), Do("allocate", Running), Shape(k, x)>> \in ShapeSteps
    BY <1>1, <1>2, <2>2, PublishStep
  <2> QED
    BY <2>1, <2>3
<1>4. todo' = <<Do("allocate", Running)>> /\ UNCHANGED <<vm, hooks, profile, profileThread>>
  BY DEF Allocate, AfterVm, patch
<1>5. Run(ShapeSteps, todo', a, a)
  BY <1>3, <1>4, Run1
<1> QED
  BY <1>4, <1>5, ShapeStays

LEMMA ShapeSafePoint ==
    ASSUME TypeOK, NEW a \in Shapes, ShapeFits(a), Settled(a), SafePoint
    PROVE  ShapeInv'
<1>1. {"begin", "drain", "quality", "end"} \subseteq ShapeOthers
  BY DEF ShapeOthers, Ops, StackOps
<1>2. /\ a = Shape(a.stack, a.shown) /\ a.stack \in [States -> Seq(Marks)]
      /\ a.shown \in States \cup {NoState} /\ Main \in States
  BY ShapeTypes, ChainStates
<1>3. \A op \in {"begin", "drain", "quality", "end"} : <<a, Do(op, Main), a>> \in ShapeSteps
  <2> DEFINE k == a.stack
             x == a.shown
  <2>1. a = Shape(k, x)
    BY <1>2
  <2> HIDE DEF k, x
  <2>2. k \in [States -> Seq(Marks)] /\ x \in States \cup {NoState}
    BY <1>2 DEF k, x
  <2>3. \A op \in ShapeOthers : <<Shape(k, x), Do(op, Main), Shape(k, x)>> \in ShapeSteps
    BY <1>2, <2>2, PublishStep
  <2> QED
    BY <1>1, <2>1, <2>3
<1>4. /\ todo' = <<Do("begin", Main), Do("drain", Main), Do("quality", Main), Do("end", Main)>>
      /\ UNCHANGED <<vm, hooks, profile, profileThread>>
  BY DEF SafePoint
<1>5. Run(ShapeSteps, todo', a, a)
  BY <1>3, <1>4, Run4
<1> QED
  BY <1>4, <1>5, ShapeStays

------------------------------------------------------------------------------
(* The bodies of luaprof's functions.                                         *)

LEMMA InApiShape ==
    ASSUME TypeOK, NEW a \in Shapes, ShapeFits(a), Settled(a), InApi, NEW L, L = Running
    PROVE  Len(a.stack[L]) > 1 /\ "attached" \in a.stack[L][Len(a.stack[L]) - 1]
<1> DEFINE s == a.stack[L]
           n == Len(s)
<1>1. /\ StackSettled(s) /\ StackFits(s, frames[L]) /\ n \in Nat \ {0} /\ n = Len(frames[L])
      /\ Last(frames[L]) = frames[L][n] /\ Last(frames[L]).cfunction = Api
  BY IdleShape DEF InApi, Top
<1> HIDE DEF s, n
<1>2. n \in 1 .. n
  BY <1>1
<1>3. "api" \in s[n]
  BY <1>1, <1>2 DEF StackFits
<1> QED
  BY <1>1, <1>2, <1>3 DEF StackSettled, s, n

LEMMA ShapeApi ==
    ASSUME TypeOK, ChainInv, NEW a \in Shapes, ShapeFits(a), Settled(a), InApi,
           NEW L, L = Running, UNCHANGED <<vm, hooks, profile, profileThread>>,
           NEW body \in Seq(Call), NEW x \in States \cup {NoState},
           Run(ShapeSteps, body, Shape(a.stack, L), Shape(a.stack, x)),
           todo' = body \o ApiReturn(L)
    PROVE  ShapeInv'
<1> DEFINE k == a.stack
           h == [k EXCEPT ![L] = Front(k[L])]
<1>1. /\ L \in States /\ k \in [States -> Seq(Marks)] /\ a = Shape(k, L) /\ k[L] # <<>>
      /\ chain # <<>>
  BY IdleShape DEF InApi
<1>2. Settled(Shape(h, L))' /\ "good" \in Last(k[L])
  BY InApiShape, <1>1, SettledReturn DEF vm
<1>3. h = [k EXCEPT ![L] = Front(k[L])] /\ Run(ShapeSteps, body, a, Shape(k, x))
  BY <1>1
<1> HIDE DEF h, k
<1>4. /\ ApiReturn(L) \in Seq(Call) /\ h \in [States -> Seq(Marks)]
      /\ Run(ShapeSteps, ApiReturn(L), Shape(k, x), Shape(h, L))
  BY <1>2, <1>1, <1>3, ApiReturnShapes
<1>5. Run(ShapeSteps, todo', a, Shape(h, L))
  BY <1>3, <1>4, RunCat
<1>6. Shape(h, L) \in Shapes
  BY <1>1, <1>4, ShapeIn
<1>7. ShapeFits(a)'
  BY ShapeFrame DEF vm
<1> QED
  BY <1>2, <1>5, <1>6, <1>7, ShapeStart

LEMMA ShapeCpuStart ==
    ASSUME TypeOK, ChainInv, NEW a \in Shapes, ShapeFits(a), Settled(a), CpuStart,
           NEW L, L = Running
    PROVE  ShapeInv'
<1> DEFINE k == a.stack
           body == <<Do("activate", L), Do("hooks", L), Do("arm", L)>>
<1>1. /\ InApi /\ UNCHANGED <<vm, hooks, profile, profileThread>> /\ todo' = body \o ApiReturn(L)
  BY DEF CpuStart, patch
<1>2. L \in States /\ k \in [States -> Seq(Marks)] /\ L \in States \cup {NoState}
  BY IdleShape
<1>3. "activate" \in ShapeOthers /\ {"activate", "hooks", "arm"} \subseteq Ops
  BY DEF ShapeOthers, Ops, StackOps
<1>4. /\ <<Shape(k, L), Do("activate", L), Shape(k, L)>> \in ShapeSteps
      /\ <<Shape(k, L), Do("hooks", L), Shape(k, L)>> \in ShapeSteps
      /\ <<Shape(k, L), Do("arm", L), Shape(k, L)>> \in ShapeSteps
  <2> HIDE DEF k
  <2>1. L \in {L, NoState} /\ "hooks" \in {"sync", "hooks"}
    OBVIOUS
  <2> QED
    BY <1>2, <1>3, <2>1, PublishStep
<1> HIDE DEF k
<1>5. Run(ShapeSteps, body, Shape(k, L), Shape(k, L))
  BY <1>4, Run3
<1>6. body \in Seq(Call)
  BY <1>2, <1>3, CallIs
<1> HIDE DEF body
<1> QED
  BY <1>1, <1>2, <1>5, <1>6, ShapeApi DEF k

LEMMA ShapeCpuStop ==
    ASSUME TypeOK, ChainInv, NEW a \in Shapes, ShapeFits(a), Settled(a), CpuStop,
           NEW L, L = Running
    PROVE  ShapeInv'
<1> DEFINE k == a.stack
<1>1. /\ InApi /\ UNCHANGED <<vm, hooks, profile, profileThread>>
      /\ todo' = StopCpu(L) \o ApiReturn(L)
  BY DEF CpuStop, AfterVm, patch
<1>2. L \in States /\ k \in [States -> Seq(Marks)] /\ L \in States \cup {NoState}
  BY IdleShape
<1> HIDE DEF k
<1>3. StopCpu(L) \in Seq(Call) /\ Run(ShapeSteps, StopCpu(L), Shape(k, L), Shape(k, L))
  BY <1>2, StopCpuShapes
<1> QED
  BY <1>1, <1>2, <1>3, ShapeApi DEF k

LEMMA ShapeMemoryToggle ==
    ASSUME TypeOK, ChainInv, NEW a \in Shapes, ShapeFits(a), Settled(a), MemoryToggle,
           NEW L, L = Running
    PROVE  ShapeInv'
<1> DEFINE k == a.stack
           body == <<Do("memory", L), Do("hooks", L)>>
<1>1. /\ InApi /\ UNCHANGED <<vm, hooks, profile, profileThread>> /\ todo' = body \o ApiReturn(L)
  BY DEF MemoryToggle, AfterVm, patch
<1>2. L \in States /\ k \in [States -> Seq(Marks)] /\ L \in States \cup {NoState}
  BY IdleShape
<1>3. "memory" \in ShapeOthers /\ {"memory", "hooks"} \subseteq Ops
  BY DEF ShapeOthers, Ops, StackOps
<1>4. /\ <<Shape(k, L), Do("memory", L), Shape(k, L)>> \in ShapeSteps
      /\ <<Shape(k, L), Do("hooks", L), Shape(k, L)>> \in ShapeSteps
  <2> HIDE DEF k
  <2>1. "hooks" \in {"sync", "hooks"}
    OBVIOUS
  <2> QED
    BY <1>2, <1>3, <2>1, PublishStep
<1> HIDE DEF k
<1>5. Run(ShapeSteps, body, Shape(k, L), Shape(k, L))
  BY <1>4, Run2
<1>6. body \in Seq(Call)
  BY <1>2, <1>3, CallIs
<1> HIDE DEF body
<1> QED
  BY <1>1, <1>2, <1>5, <1>6, ShapeApi DEF k

LEMMA ShapeApiOther ==
    ASSUME TypeOK, ChainInv, NEW a \in Shapes, ShapeFits(a), Settled(a), ApiOther,
           NEW L, L = Running
    PROVE  ShapeInv'
<1> DEFINE k == a.stack
           body == <<Do("allocate", L)>>
<1>1. /\ InApi /\ UNCHANGED <<vm, hooks, profile, profileThread>> /\ todo' = body \o ApiReturn(L)
  BY DEF ApiOther, AfterVm, patch
<1>2. L \in States /\ k \in [States -> Seq(Marks)] /\ L \in States \cup {NoState}
  BY IdleShape
<1>3. "allocate" \in ShapeOthers /\ "allocate" \in Ops
  BY DEF ShapeOthers, Ops, StackOps
<1> HIDE DEF k
<1>4. <<Shape(k, L), Do("allocate", L), Shape(k, L)>> \in ShapeSteps
  BY <1>2, <1>3, PublishStep
<1>5. Run(ShapeSteps, body, Shape(k, L), Shape(k, L))
  BY <1>4, Run1
<1>6. body \in Seq(Call)
  BY <1>2, <1>3, CallIs
<1> HIDE DEF body
<1> QED
  BY <1>1, <1>2, <1>5, <1>6, ShapeApi DEF k

------------------------------------------------------------------------------
(* Coroutines: what is done to the stack of one lua_State.                   *)

LEMMA FitsUpdate ==
    ASSUME TypeOK, NEW a \in Shapes, ShapeFits(a), NEW L \in States, NEW v \in Seq(Marks),
           NEW t \in Seq(Frame), StackFits(v, t), frames' = [frames EXCEPT ![L] = t],
           NEW x \in States \cup {NoState},
           \/ x = NoState
           \/ x # L /\ x = a.shown /\ profile'[x] = profile[x] /\ UNCHANGED <<hooks, profileThread>>
    PROVE  LET k == [a.stack EXCEPT ![L] = v] IN
           /\ k \in [States -> Seq(Marks)] /\ Shape(k, x) \in Shapes /\ k[L] = v
           /\ ShapeFits(Shape(k, x))'
<1> DEFINE k == [a.stack EXCEPT ![L] = v]
<1>1. k \in [States -> Seq(Marks)] /\ k[L] = v
  BY ShapeTypes
<1>2. Shape(k, x) \in Shapes /\ Shape(k, x).stack = k /\ Shape(k, x).shown = x
  BY <1>1, ShapeIn
<1>3. \A y \in States : StackFits(k[y], frames'[y])
  <2>1. frames \in [States -> Seq(Frame)] /\ \A y \in States : StackFits(a.stack[y], frames[y])
    BY DEF TypeOK, ShapeFits
  <2>2. k = [a.stack EXCEPT ![L] = v]
    OBVIOUS
  <2> HIDE DEF k
  <2> QED
    BY <2>1, <2>2, StacksFit
<1>4. ShownFits(x)'
  <2>1. CASE x = NoState
    BY <2>1 DEF ShownFits
  <2>2. CASE x # NoState
    BY <2>2 DEF TypeOK, ShapeFits, ShownFits
  <2> QED
    BY <2>1, <2>2
<1> HIDE DEF k
<1>5. ShapeFits(Shape(k, x))'
  BY <1>2, <1>3, <1>4 DEF ShapeFits
<1> QED
  BY <1>1, <1>2, <1>5 DEF k

\* A longjmp takes the frames that are left off the C stack.
LEMMA FitsDetached ==
    ASSUME NEW s \in Seq(Marks), NEW t \in Seq(Frame), StackFits(s, t), StackSettled(s),
           \A i \in 1 .. Len(s) : "api" \notin s[i]
    PROVE  StackFits(Detached(s), Detach(t))
<1> DEFINE n == Len(t)
           v == Detached(s)
           u == Detach(t)
<1>1. n \in Nat /\ Len(s) = n
  BY DEF StackFits
<1>2. Len(v) = n /\ \A i \in 1 .. n : "attached" \notin v[i] /\ v[i] \ {"attached"} = s[i] \ {"attached"}
  BY <1>1, SettledDetached
<1>3. Len(u) = n /\ \A i \in 1 .. n : u[i] = [t[i] EXCEPT !.attached = FALSE] /\ t[i] \in Frame
  BY DetachDoes
<1> HIDE DEF v, u
<1>4. \A i \in 1 .. n : /\ u[i].vm = t[i].vm /\ u[i].cfunction = t[i].cfunction
                        /\ u[i].guarded = t[i].guarded /\ u[i].saved = t[i].saved
                        /\ u[i].attached = FALSE
  BY <1>3 DEF Frame
<1>5. \A i \in 1 .. n : /\ "attached" \in v[i] <=> u[i].attached
                        /\ v[i] \ {"attached"} = s[i] \ {"attached"}
  BY <1>2, <1>4
<1>6. StackFits(v, u)
  BY <1>1, <1>2, <1>3, <1>4, <1>5, FitsSame
<1> QED
  BY <1>6 DEF v, u

LEMMA ShapeYield ==
    ASSUME TypeOK, ChainInv, NEW a \in Shapes, ShapeFits(a), Settled(a), YieldCoroutine,
           NEW L, L = Running
    PROVE  ShapeInv'
<1> DEFINE s == a.stack[L]
           t == frames[L]
           from == Front(chain)
           h == [a.stack EXCEPT ![L] = Detached(s)]
           last == IF from = <<>> THEN <<>> ELSE <<Do("sync", Last(from))>>
<1>1. /\ chain # <<>> /\ L # Main
      /\ \A i \in DOMAIN t : t[i].vm = "lua" \/ t[i].cfunction = PCall
      /\ status' = [status EXCEPT ![L] = "suspended"] /\ chain' = from
      /\ frames' = [frames EXCEPT ![L] = Detach(t)]
      /\ todo' = <<DoAs("publish", L, "c", Yield), Do("host", L)>> \o last
  BY DEF YieldCoroutine, RunsLua
<1>2. /\ L \in States /\ s \in Seq(Marks) /\ StackSettled(s) /\ t \in Seq(Frame) /\ StackFits(s, t)
      /\ Len(s) = Len(t) /\ Len(t) \in Nat
  BY <1>1, IdleShape
<1> HIDE DEF t, s
<1>3. \A i \in 1 .. Len(s) : "api" \notin s[i]
  <2>1. PCall # Api
    BY ApiAssumption
  <2>2. \A i \in 1 .. Len(t) : t[i].vm = "lua" \/ t[i].cfunction = PCall
    BY <1>1, <1>2
  <2> QED
    BY <1>2, <2>1, <2>2 DEF StackFits
<1>4. /\ Detached(s) \in Seq(Marks) /\ StackSettled(Detached(s)) /\ Len(Detached(s)) = Len(s)
      /\ \A i \in 1 .. Len(Detached(s)) : "attached" \notin Detached(s)[i]
  BY <1>2, <1>3, SettledDetached
<1>5. StackFits(Detached(s), Detach(t)) /\ Detach(t) \in Seq(Frame)
  BY <1>2, <1>3, FitsDetached, DetachDoes
<1>6. /\ h \in [States -> Seq(Marks)] /\ Shape(h, NoState) \in Shapes
      /\ ShapeFits(Shape(h, NoState))'
  BY <1>1, <1>2, <1>4, <1>5, FitsUpdate
<1>7. /\ from \in Seq(States) /\ (from # <<>> => Last(from) \in States)
      /\ chain' # <<>> => Running' = Last(from)
      /\ ~OnChain(L)' /\ \A y \in States \ {L} : OnChain(y)' <=> OnChain(y)
  BY <1>1, ChainStates, FrontChain
<1> HIDE DEF from
<1>8. PICK x : x = IF from = <<>> THEN NoState ELSE Last(from)
  OBVIOUS
<1>9. x \in States \cup {NoState} /\ (chain' # <<>> => x = Running')
  BY <1>1, <1>7, <1>8
<1>10. Settled(Shape(h, x))'
  BY <1>1, <1>4, <1>7, <1>2, <1>9, SettledUpdate DEF StackOk, TypeOK
<1> HIDE DEF h
<1>11. /\ <<Do("host", L)>> \o last \in Seq(Call) /\ last \in Seq(Call)
       /\ Run(ShapeSteps, <<Do("host", L)>> \o last, Shape(h, NoState), Shape(h, x))
  BY <1>2, <1>6, <1>7, <1>8, ShapeHandover
<1> HIDE DEF last
<1>12. /\ Run(ShapeSteps, <<DoAs("publish", L, "c", Yield)>>, Shape(h, NoState), Shape(h, NoState))
       /\ DoAs("publish", L, "c", Yield) \in Call /\ Do("host", L) \in Call
  <2>1. Yield \in Functions \cup {NoFunction} /\ NoState \in States \cup {NoState}
        /\ "c" \in VmStates /\ "publish" \in Ops /\ "host" \in Ops
    BY FunctionFacts DEF Ops
  <2>2. <<Shape(h, NoState), DoAs("publish", L, "c", Yield), Shape(h, NoState)>> \in ShapeSteps
    BY <1>2, <1>6, <2>1, PublishStep
  <2> QED
    BY <1>2, <2>1, <2>2, Run1, CallIs
<1>13. todo' = <<DoAs("publish", L, "c", Yield)>> \o (<<Do("host", L)>> \o last)
  BY <1>1, <1>11, <1>12
<1>14. <<DoAs("publish", L, "c", Yield)>> \in Seq(Call)
  BY <1>12
<1>15. Run(ShapeSteps, todo', Shape(h, NoState), Shape(h, x))
  BY <1>11, <1>12, <1>13, <1>14, RunCat
<1>16. Shape(h, x) \in Shapes
  BY <1>6, <1>9, ShapeIn
<1> QED
  BY <1>6, <1>10, <1>15, <1>16, ShapeStart

------------------------------------------------------------------------------
(* An error: HOST, the guards it meets are closed, the catcher goes on.       *)

\* The frames that a pcall keeps hold no luaprof function: it is innermost.
LEMMA KeptShape ==
    ASSUME TypeOK, NEW a \in Shapes, ShapeFits(a), Settled(a), chain # <<>>, NEW L, L = Running,
           NEW c, c = Catcher(L)
    PROVE  LET s == a.stack[L]
               v == SubSeq(s, 1, c) IN
           /\ v \in Seq(Marks) /\ Len(v) = c /\ StackSettled(v) /\ StackFits(v, Kept(L))
           /\ \A i \in 1 .. Len(v) : v[i] = s[i] /\ "api" \notin v[i] /\ i \in 1 .. Len(s)
           /\ Kept(L) \in Seq(Frame) /\ c \in Nat /\ Unwound(L) \in Seq(Frame)
<1> DEFINE t == frames[L]
           s == a.stack[L]
           v == SubSeq(s, 1, c)
           n == Len(s)
<1>1. /\ L \in States /\ s \in Seq(Marks) /\ StackSettled(s) /\ StackFits(s, t) /\ n = Len(t)
      /\ t \in Seq(Frame)
  BY IdleShape
<1>2. /\ c \in 0 .. Len(t) /\ Len(t) \in Nat /\ (c # 0 => t[c].cfunction = PCall)
      /\ Kept(L) \in Seq(Frame) /\ Kept(L) = SubSeq(t, 1, c) /\ Unwound(L) \in Seq(Frame)
  BY <1>1, ThrowSplits DEF Kept
<1> HIDE DEF t, n, s, v
<1>3. c \in Nat /\ c <= n /\ c <= Len(t) /\ n \in Nat
  BY <1>1, <1>2
<1>5. v \in Seq(Marks) /\ Len(v) = c /\ \A i \in 1 .. c : v[i] = s[i]
  BY <1>1, <1>3, PrefixProperties DEF n, v
<1>6. StackSettled(v)
  BY <1>1, <1>3, SettledPrefix DEF n, v
<1>7. StackFits(v, Kept(L))
  BY <1>1, <1>2, <1>3, FitsPrefix DEF v
<1>8. \A i \in 1 .. c : i \in 1 .. n /\ i \in 1 .. Len(t) /\ (i = n => i = c)
  BY <1>1, <1>3
<1>9. \A i \in 1 .. c : "api" \notin s[i]
  <2> SUFFICES ASSUME NEW i \in 1 .. c, "api" \in s[i] PROVE FALSE
    OBVIOUS
  <2>1. i = n /\ i = c /\ i \in 1 .. Len(t) /\ i # 0
    BY <1>1, <1>3, <1>8 DEF StackSettled, n
  <2>2. t[i].cfunction = Api /\ t[i].cfunction = PCall
    BY <1>1, <1>2, <2>1 DEF StackFits
  <2> QED
    BY <2>2, ApiAssumption
<1> QED
  BY <1>2, <1>3, <1>5, <1>6, <1>7, <1>8, <1>9 DEF n, s, v

\* HOST, then the guards of the unwound frames, each with a call of its own.
LEMMA UnwindShapes ==
    ASSUME NEW k \in [States -> Seq(Marks)], NEW x \in States \cup {NoState}, NEW L \in States,
           NEW stack \in Seq(Frame)
    PROVE  /\ <<Do("host", L)>> \o CloseGuards(L, stack) \in Seq(Call)
           /\ Run(ShapeSteps, <<Do("host", L)>> \o CloseGuards(L, stack), Shape(k, x),
                  Shape(k, NoState))
<1>1. <<Shape(k, x), Do("host", L), Shape(k, NoState)>> \in ShapeSteps
  BY PublishStep
<1>2. Run(ShapeSteps, <<Do("host", L)>>, Shape(k, x), Shape(k, NoState))
  BY <1>1, Run1
<1>3. <<Do("host", L)>> \in Seq(Call)
  BY CallIs DEF Ops
<1>4. /\ CloseGuards(L, stack) \in Seq(Call)
      /\ Run(ShapeSteps, CloseGuards(L, stack), Shape(k, NoState), Shape(k, NoState))
  BY CloseGuardsShapes
<1>5. Run(ShapeSteps, <<Do("host", L)>> \o CloseGuards(L, stack), Shape(k, x), Shape(k, NoState))
  BY <1>2, <1>3, <1>4, RunCat
<1> QED
  BY <1>3, <1>4, <1>5, CatProperties

LEMMA ShapeThrowMain ==
    ASSUME TypeOK, ChainInv, NEW a \in Shapes, ShapeFits(a), Settled(a), NEW L, L = Running,
           NEW c, c = Catcher(L),
           chain # <<>>, AfterVm, L = Main, frames' = [frames EXCEPT ![L] = Kept(L)],
           chain' = (IF c = 0 THEN Front(chain) ELSE chain), status' = status,
           todo' = <<Do("host", L)>> \o CloseGuards(L, Unwound(L)) \o <<Do("sync", L)>>
    PROVE  ShapeInv'
<1> DEFINE s == a.stack[L]
           v == SubSeq(s, 1, c)
           h == [a.stack EXCEPT ![L] = v]
           e == Shape(h, L)
<1>1. L \in States /\ s \in Seq(Marks) /\ OnChain(L) /\ StackOk(L, s)
  BY IdleShape
<1>2. /\ v \in Seq(Marks) /\ Len(v) = c /\ StackSettled(v) /\ StackFits(v, Kept(L))
      /\ \A i \in 1 .. Len(v) : v[i] = s[i] /\ i \in 1 .. Len(s)
      /\ Kept(L) \in Seq(Frame) /\ c \in Nat /\ Unwound(L) \in Seq(Frame)
  BY KeptShape
<1> HIDE DEF v
<1>3. /\ h \in [States -> Seq(Marks)] /\ Shape(h, NoState) \in Shapes
      /\ ShapeFits(Shape(h, NoState))'
  BY <1>1, <1>2, FitsUpdate
<1>4. /\ \A y \in States \ {L} : OnChain(y)' <=> OnChain(y)
      /\ c = 0 => chain' = <<>> /\ ~OnChain(L)'
      /\ chain' # <<>> => L = Running'
  <2>1. CASE c = 0
    BY <2>1, FrontChain
  <2>2. CASE c # 0
    BY <2>2 DEF OnChain, Running
  <2> QED
    BY <2>1, <2>2
<1>5. StackOk(L, v)'
  <2>1. status[L] = "running"
    BY DEF ChainInv
  <2>2. \A i \in 1 .. Len(v) : "attached" \in v[i]
    BY <1>1, <1>2 DEF StackOk
  <2>3. OnChain(L)' => Len(v) # 0 /\ "attached" \in v[Len(v)]
    <3>1. Len(v) # 0 => Len(v) \in 1 .. Len(v)
      <4>1. Len(v) \in Nat
        BY <1>2
      <4> QED
        BY <4>1
    <3> QED
      BY <1>2, <1>4, <2>2, <3>1
  <2>4. ~OnChain(Main)' => Len(v) = 0
    BY <1>1, <1>2 DEF OnChain
  <2> QED
    BY <1>2, <2>1, <2>2, <2>3, <2>4 DEF StackOk
<1>6. Settled(e)'
  BY <1>1, <1>2, <1>4, <1>5, SettledUpdate
<1> HIDE DEF h, s
<1>7. /\ <<Do("host", L)>> \o CloseGuards(L, Unwound(L)) \in Seq(Call)
      /\ Run(ShapeSteps, <<Do("host", L)>> \o CloseGuards(L, Unwound(L)), Shape(h, NoState),
             Shape(h, NoState))
  BY <1>1, <1>2, <1>3, UnwindShapes
<1>8. <<Shape(h, NoState), Do("sync", L), e>> \in ShapeSteps
  BY <1>1, <1>3, PublishStep
<1>9. Run(ShapeSteps, <<Do("sync", L)>>, Shape(h, NoState), e) /\ <<Do("sync", L)>> \in Seq(Call)
  <2> HIDE DEF e
  <2>1. "sync" \in Ops
    BY DEF Ops
  <2> QED
    BY <1>1, <1>8, <2>1, Run1, CallIs
<1>10. e \in Shapes
  BY <1>1, <1>3, ShapeIn
<1> HIDE DEF e
<1>11. Run(ShapeSteps, todo', Shape(h, NoState), e)
  BY <1>7, <1>9, RunCat
<1> QED
  BY <1>3, <1>6, <1>10, <1>11, ShapeStart

LEMMA ShapeThrowCaught ==
    ASSUME TypeOK, ChainInv, NEW a \in Shapes, ShapeFits(a), Settled(a), NEW L, L = Running,
           NEW c, c = Catcher(L),
           chain # <<>>, AfterVm, L # Main, c # 0,
           frames' = [frames EXCEPT ![L] = Detach(Kept(L))], UNCHANGED <<status, chain>>,
           todo' = <<Do("host", L)>> \o CloseGuards(L, Unwound(L)) \o <<Do("reenter", L)>>
    PROVE  ShapeInv'
<1> DEFINE s == a.stack[L]
           v == SubSeq(s, 1, c)
           d == Detached(v)
           h == [a.stack EXCEPT ![L] = d]
           m == (Last(d) \cup {"attached"}) \ {"good"}
           w == Append(Front(d), m)
           g == [h EXCEPT ![L] = w]
           e == Shape(g, L)
<1>1. L \in States /\ s \in Seq(Marks) /\ OnChain(L) /\ a.stack \in [States -> Seq(Marks)]
  BY IdleShape
<1>2. /\ v \in Seq(Marks) /\ Len(v) = c /\ StackSettled(v) /\ StackFits(v, Kept(L))
      /\ \A i \in 1 .. Len(v) : "api" \notin v[i]
      /\ Kept(L) \in Seq(Frame) /\ c \in Nat \ {0} /\ Unwound(L) \in Seq(Frame)
  <2>1. /\ v \in Seq(Marks) /\ Len(v) = c /\ StackSettled(v) /\ StackFits(v, Kept(L))
        /\ \A i \in 1 .. Len(v) : v[i] = s[i] /\ "api" \notin v[i] /\ i \in 1 .. Len(s)
        /\ Kept(L) \in Seq(Frame) /\ c \in Nat /\ Unwound(L) \in Seq(Frame)
    BY KeptShape
  <2> QED
    BY <2>1
<1> HIDE DEF v, s
<1>3. /\ d \in Seq(Marks) /\ StackSettled(d) /\ Len(d) = Len(v)
      /\ \A i \in 1 .. Len(v) : "attached" \notin d[i] /\ "api" \notin d[i]
  BY <1>2, SettledDetached
<1>4. StackFits(d, Detach(Kept(L))) /\ Detach(Kept(L)) \in Seq(Frame)
  BY <1>2, FitsDetached, DetachDoes
<1> HIDE DEF d
<1>5. /\ h \in [States -> Seq(Marks)] /\ Shape(h, NoState) \in Shapes /\ h[L] = d
      /\ ShapeFits(Shape(h, NoState))'
  BY <1>1, <1>3, <1>4, FitsUpdate
<1>6. d # <<>> /\ "attached" \notin Last(d) /\ "api" \notin Last(d)
  BY <1>2, <1>3 DEF Last
<1>7. /\ w \in Seq(Marks) /\ StackSettled(w) /\ Len(w) = Len(d) /\ Len(w) # 0
      /\ "attached" \in w[Len(w)] /\ "gc" \notin Last(d)
  BY <1>3, <1>6, SettledAgain
<1>8. /\ g = [a.stack EXCEPT ![L] = w]
      /\ g = [h EXCEPT ![L] = Append(Front(h[L]), (Last(h[L]) \cup {"attached"}) \ {"good"})]
  BY <1>1, <1>5
<1> HIDE DEF w, m, g
<1>9. Settled(e)'
  <2>1. status[L] = "running"
    BY <1>1 DEF ChainInv, OnChain
  <2>2. StackOk(L, w)'
    BY <1>7, <2>1 DEF StackOk
  <2>3. Running' = L /\ \A y \in States \ {L} : OnChain(y)' <=> OnChain(y)
    BY DEF Running, OnChain
  <2> QED
    BY SMTT(30), <1>1, <1>7, <1>8, <2>2, <2>3, SettledUpdate
<1> HIDE DEF h
<1>10. <<Shape(h, NoState), Do("reenter", L), Shape(g, L)>> \in ShapeSteps
       /\ g \in [States -> Seq(Marks)]
  BY <1>5, <1>6, <1>7, <1>1, <1>8, ReenterStep
<1>11. /\ <<Do("host", L)>> \o CloseGuards(L, Unwound(L)) \in Seq(Call)
       /\ Run(ShapeSteps, <<Do("host", L)>> \o CloseGuards(L, Unwound(L)), Shape(h, NoState),
              Shape(h, NoState))
  BY <1>1, <1>2, <1>5, UnwindShapes
<1>12. e \in Shapes
  BY <1>1, <1>10, ShapeIn
<1>13. Run(ShapeSteps, <<Do("reenter", L)>>, Shape(h, NoState), e)
  BY <1>10, Run1
<1>14. <<Do("reenter", L)>> \in Seq(Call)
  BY <1>1, CallIs DEF Ops
<1> HIDE DEF e
<1>15. Run(ShapeSteps, todo', Shape(h, NoState), e)
  BY <1>11, <1>13, <1>14, RunCat
<1> QED
  BY <1>5, <1>9, <1>12, <1>15, ShapeStart

LEMMA ShapeThrowDies ==
    ASSUME TypeOK, ChainInv, NEW a \in Shapes, ShapeFits(a), Settled(a), NEW L, L = Running,
           chain # <<>>, AfterVm, L # Main, frames' = frames, chain' = Front(chain),
           status' = [status EXCEPT ![L] = "dead"],
           todo' = <<Do("host", L), Do("host", L)>>
                     \o (IF Front(chain) = <<>> THEN <<>> ELSE <<Do("sync", Last(Front(chain)))>>)
    PROVE  ShapeInv'
<1> DEFINE k == a.stack
           s == k[L]
           from == Front(chain)
           last == IF from = <<>> THEN <<>> ELSE <<Do("sync", Last(from))>>
<1>1. /\ L \in States /\ k \in [States -> Seq(Marks)] /\ s \in Seq(Marks) /\ StackSettled(s)
      /\ a = Shape(k, L) /\ L \in States \cup {NoState}
  BY IdleShape
<1>2. /\ from \in Seq(States) /\ (from # <<>> => Last(from) \in States)
      /\ chain' # <<>> => Running' = Last(from)
      /\ ~OnChain(L)' /\ \A y \in States \ {L} : OnChain(y)' <=> OnChain(y)
  BY ChainStates, FrontChain
<1>3. ShapeFits(a)'
  BY IdleFits
<1>4. PICK x : x = IF from = <<>> THEN NoState ELSE Last(from)
  OBVIOUS
<1>5. x \in States \cup {NoState} /\ (chain' # <<>> => x = Running')
  BY <1>2, <1>4
<1>6. Settled(Shape(k, x))'
  <2>1. StackOk(L, s)'
    BY <1>1, <1>2 DEF TypeOK, StackOk
  <2>2. \A y \in States \ {L} : status'[y] = "suspended" => status[y] = "suspended"
    BY DEF TypeOK
  <2>3. Settled(Shape([a.stack EXCEPT ![L] = s], x))'
    BY <1>1, <1>2, <1>5, <2>1, <2>2, SettledUpdate
  <2>4. [a.stack EXCEPT ![L] = s] = k
    BY <1>1
  <2> QED
    BY <2>3, <2>4
<1> HIDE DEF k, from
<1>7. /\ <<Do("host", L)>> \o last \in Seq(Call) /\ last \in Seq(Call)
      /\ Run(ShapeSteps, <<Do("host", L)>> \o last, Shape(k, NoState), Shape(k, x))
      /\ Run(ShapeSteps, <<Do("host", L)>>, Shape(k, L), Shape(k, NoState))
      /\ <<Do("host", L)>> \in Seq(Call) /\ Do("host", L) \in Call
  <2>1. NoState \in States \cup {NoState} /\ "host" \in Ops
    BY DEF Ops
  <2>2. /\ <<Do("host", L)>> \o last \in Seq(Call) /\ last \in Seq(Call)
        /\ Run(ShapeSteps, <<Do("host", L)>> \o last, Shape(k, NoState), Shape(k, x))
    BY <1>1, <1>2, <1>4, <2>1, ShapeHandover
  <2>3. Run(ShapeSteps, <<Do("host", L)>>, Shape(k, L), Shape(k, NoState))
    BY <1>1, <1>2, ShapeHandover
  <2>4. Do("host", L) \in Call
    BY <1>1, <2>1, CallIs
  <2> QED
    BY <2>2, <2>3, <2>4
<1>8. todo' = <<Do("host", L)>> \o (<<Do("host", L)>> \o last)
  <2>1. todo' = <<Do("host", L), Do("host", L)>> \o last
    BY DEF from
  <2> HIDE DEF last
  <2> QED
    BY <1>7, <2>1
<1> HIDE DEF last
<1>9. Run(ShapeSteps, todo', a, Shape(k, x))
  BY <1>1, <1>7, <1>8, RunCat
<1>10. Shape(k, x) \in Shapes
  BY <1>1, <1>5, ShapeIn
<1> QED
  BY <1>3, <1>6, <1>9, <1>10, ShapeStart

LEMMA ShapeThrow ==
    ASSUME TypeOK, ChainInv, NEW a \in Shapes, ShapeFits(a), Settled(a), Throw, NEW L, L = Running
    PROVE  ShapeInv'
BY ThrowDoes, ShapeThrowMain, ShapeThrowCaught, ShapeThrowDies

------------------------------------------------------------------------------
(* Coroutines are made, collected, closed and resumed.                        *)

LEMMA OffChain ==
    ASSUME TypeOK, ChainInv, NEW co \in States, status[co] # "running"
    PROVE  ~OnChain(co) /\ co # Main /\ co # Running
BY ChainStates DEF ChainInv, OnChain, Running

\* A lua_State off the chain loses its stack; the one that is shown keeps its own.
LEMMA SettledEmptied ==
    ASSUME TypeOK, ChainInv, NEW a \in Shapes, ShapeFits(a), Settled(a),
           NEW co \in States \ {Main}, status[co] # "running", chain' = chain,
           \A y \in States \ {co} : status'[y] = status[y],
           NEW x, chain # <<>> => x = Running
    PROVE  Settled(Shape([a.stack EXCEPT ![co] = <<>>], x))'
<1>1. ~OnChain(co)
  BY OffChain
<1>2. \A y \in States : OnChain(y)' <=> OnChain(y)
  BY DEF OnChain
<1>3. <<>> \in Seq(Marks) /\ StackOk(co, <<>>)'
  BY <1>1, <1>2 DEF StackOk, StackSettled
<1>4. chain' # <<>> => x = Running'
  BY DEF Running
<1> QED
  BY <1>2, <1>3, <1>4, SettledUpdate

LEMMA ShapeCreate ==
    ASSUME TypeOK, ChainInv, NEW a \in Shapes, ShapeFits(a), Settled(a),
           NEW co \in States \ {Main}, Create(co), NEW L, L = Running
    PROVE  ShapeInv'
<1> DEFINE k == a.stack
           h == [k EXCEPT ![co] = <<>>]
<1>1. /\ status[co] = "free" /\ status' = [status EXCEPT ![co] = "suspended"]
      /\ frames' = [frames EXCEPT ![co] = <<>>] /\ profile' = [profile EXCEPT ![co] = Host]
      /\ todo' = <<Do("allocate", L)>> /\ UNCHANGED <<chain, hooks, profileThread>>
  BY DEF Create
<1>2. co # L /\ L \in States /\ co \in States /\ (chain # <<>> => a.shown = L)
  BY <1>1, OffChain, IdleShape
<1>3. PICK x : x = IF chain = <<>> THEN NoState ELSE L
  OBVIOUS
<1>4. /\ x \in States \cup {NoState}
      /\ \/ x = NoState
         \/ x # co /\ x = a.shown /\ profile'[x] = profile[x] /\ UNCHANGED <<hooks, profileThread>>
  BY <1>1, <1>2, <1>3 DEF TypeOK
<1>5. /\ h \in [States -> Seq(Marks)] /\ Shape(h, x) \in Shapes /\ ShapeFits(Shape(h, x))'
  <2>1. <<>> \in Seq(Marks) /\ <<>> \in Seq(Frame) /\ StackFits(<<>>, <<>>)
    BY DEF StackFits
  <2> QED
    BY <1>1, <1>2, <1>4, <2>1, FitsUpdate
<1>6. Settled(Shape(h, x))'
  BY <1>1, <1>3, SettledEmptied DEF TypeOK
<1> HIDE DEF h
<1>7. "allocate" \in ShapeOthers
  BY DEF ShapeOthers, Ops, StackOps
<1>8. <<Shape(h, x), Do("allocate", L), Shape(h, x)>> \in ShapeSteps
  BY <1>2, <1>4, <1>5, <1>7, PublishStep
<1>9. Run(ShapeSteps, todo', Shape(h, x), Shape(h, x))
  BY <1>1, <1>8, Run1
<1> QED
  BY <1>5, <1>6, <1>9, ShapeStart

\* A GC step pushes a frame that is good when the patch shows the running one.
LEMMA CollectMarks ==
    ASSUME TypeOK, NEW a \in Shapes, ShapeFits(a), Settled(a), NEW L, L = Running
    PROVE  \E m \in Marks, y \in {NoState, L} :
                /\ Marked(m, "gc", NoFunction) /\ ("good" \in m => a.shown = L)
                /\ (y = NoState \/ "good" \in m) /\ (chain # <<>> => y = L)
<1>0. NoFunction # Api
  BY FunctionsAssumption, NullAssumption
<1>1. CASE chain = <<>>
  <2> DEFINE m == {"attached", "gc"}
  <2>1. m \in Marks /\ Marked(m, "gc", NoFunction) /\ "good" \notin m
    BY <1>0 DEF Marks, Marked
  <2> QED
    BY <1>1, <2>1
<1>2. CASE chain # <<>>
  <2> DEFINE m == {"attached", "gc", "good"}
  <2>1. m \in Marks /\ Marked(m, "gc", NoFunction) /\ "good" \in m
    BY <1>0 DEF Marks, Marked
  <2>2. a.shown = L
    BY <1>2, IdleShape
  <2> QED
    BY <2>1, <2>2
<1> QED
  BY <1>1, <1>2

LEMMA ShapeCollect ==
    ASSUME TypeOK, ChainInv, NEW a \in Shapes, ShapeFits(a), Settled(a),
           NEW co \in States \ {Main}, Collect(co), NEW L, L = Running
    PROVE  ShapeInv'
<1> DEFINE k == a.stack
           h == [k EXCEPT ![co] = <<>>]
<1>1. /\ status[co] # "running" /\ UNCHANGED <<status, chain, frames>> /\ AfterVm
      /\ todo' = <<DoAs("enter", L, "gc", NoFunction), Do("free", co),
                   Do("allocate", L), Do("leave", L)>>
  BY DEF Collect, vm
<1>0. PICK x : x = a.shown
  OBVIOUS
<1>2. /\ L \in States /\ co \in States /\ k \in [States -> Seq(Marks)]
      /\ x \in States \cup {NoState} /\ a = Shape(k, x)
  BY <1>0, IdleShape
<1>3. PICK m \in Marks, y \in {NoState, L} :
            /\ Marked(m, "gc", NoFunction) /\ ("good" \in m => x = L)
            /\ (y = NoState \/ "good" \in m) /\ (chain # <<>> => y = L)
  BY <1>0, CollectMarks
<1>4. co # L
  BY <1>1, OffChain
<1>5. Settled(Shape(h, y))'
  BY <1>1, <1>3, SettledEmptied
<1>6. ShapeFits(a)'
  BY <1>1, IdleFits
<1> HIDE DEF k
<1> DEFINE g == [k EXCEPT ![L] = Append(k[L], m)]
<1>7. /\ <<Shape(k, x), DoAs("enter", L, "gc", NoFunction), Shape(g, NoState)>> \in ShapeSteps
      /\ g \in [States -> Seq(Marks)] /\ g[L] = Append(k[L], m) /\ g[L] # <<>>
      /\ Last(g[L]) = m /\ Front(g[L]) = k[L]
  <2>1. /\ NoState \in {NoState, L} /\ (NoState = L => "gc" # "gc") /\ "gc" \in VmStates
        /\ "gc" # "host" /\ ("gc" = "lua" => NoFunction # Api)
        /\ NoFunction \in Functions \cup {NoFunction} /\ g = [k EXCEPT ![L] = Append(k[L], m)]
    BY <1>2, NullAssumption DEF VmStates
  <2> HIDE DEF g
  <2>2. <<Shape(k, x), DoAs("enter", L, "gc", NoFunction), Shape(g, NoState)>> \in ShapeSteps
    BY ZenonT(60), <1>2, <1>3, <2>1, EnterStep
  <2>5. k[L] \in Seq(Marks)
    BY <1>2
  <2>6. Append(k[L], m) \in Seq(Marks) /\ Append(k[L], m) # <<>>
    BY <1>3, <2>5, PushEnds
  <2>3. /\ g \in [States -> Seq(Marks)] /\ g[L] = Append(k[L], m) /\ g[L] # <<>>
    BY <1>2, <2>1, <2>6
  <2>4. Last(g[L]) = m /\ Front(g[L]) = k[L]
    BY <1>3, <2>3, <2>5, PushEnds
  <2> QED
    BY <2>2, <2>3, <2>4
<1> DEFINE f == [g EXCEPT ![co] = <<>>]
<1>8. h = [f EXCEPT ![L] = Front(f[L])] /\ f[L] = g[L]
  BY <1>2, <1>4, <1>7
<1> HIDE DEF h, g
<1>9. <<Shape(g, NoState), Do("free", co), Shape(f, NoState)>> \in ShapeSteps
      /\ f \in [States -> Seq(Marks)]
  BY <1>2, NullAssumption, <1>7, FreeStep
<1> HIDE DEF f
<1>10. <<Shape(f, NoState), Do("allocate", L), Shape(f, NoState)>> \in ShapeSteps
  BY <1>2, <1>9, PublishStep DEF ShapeOthers, Ops, StackOps
<1>11. <<Shape(f, NoState), Do("leave", L), Shape(h, y)>> \in ShapeSteps /\ h \in [States -> Seq(Marks)]
  <2>1. NoState \in States \cup {NoState} /\ f[L] # <<>> /\ (y = NoState \/ "good" \in Last(f[L]))
    BY <1>3, <1>7, <1>8
  <2>2. h = [f EXCEPT ![L] = Front(f[L])] /\ y \in {NoState, L} /\ f \in [States -> Seq(Marks)]
    BY <1>3, <1>8, <1>9
  <2>5. L \in States
    BY <1>2
  <2>3. <<Shape(f, NoState), Do("leave", L), Shape(h, y)>> \in ShapeSteps
    <3>1. CASE y = NoState
      BY <2>1, <2>2, <2>5, <3>1, LeaveStep
    <3>2. CASE y = L
      BY <2>1, <3>2, <2>2, <2>5, LeaveStep
    <3> QED
      BY <2>2, <3>1, <3>2
  <2>4. h \in [States -> Seq(Marks)]
    BY <1>2, <1>7, <1>8, <2>2
  <2> QED
    BY <2>3, <2>4
<1>12. Run(ShapeSteps, todo', a, Shape(h, y))
  BY <1>2, <1>7, <1>1, <1>9, <1>10, <1>11, Run4
<1>13. Shape(h, y) \in Shapes
  BY <1>2, <1>3, <1>11, ShapeIn
<1>14. Settled(Shape(h, y))'
  BY <1>5 DEF h, k
<1> QED
  BY <1>6, <1>12, <1>13, <1>14, ShapeStart

LEMMA ShapeClose ==
    ASSUME TypeOK, ChainInv, NEW a \in Shapes, ShapeFits(a), Settled(a),
           NEW co \in States \ {Main}, CloseCoroutine(co), NEW L, L = Running
    PROVE  ShapeInv'
<1> DEFINE k == [a.stack EXCEPT ![co] = <<>>]
           m == {"attached", "good"}
           h == [k EXCEPT ![L] = Append(k[L], m)]
           mid == CloseGuards(co, frames[co])
<1>1. /\ status[co] # "running" /\ status' = [status EXCEPT ![co] = "dead"] /\ chain # <<>>
      /\ frames' = [frames EXCEPT ![co] = <<>>] /\ chain' = chain /\ AfterVm
      /\ todo' = <<DoAs("enter", L, "c", CloseThread)>> \o mid
                   \o <<Do("host", co), Do("sync", L), Do("leave", L)>>
  BY DEF CloseCoroutine, RunsLua
<1>2. L \in States /\ co \in States /\ co # L /\ a.shown = L /\ L \in States \cup {NoState}
  BY <1>1, OffChain, IdleShape
<1>3. /\ k \in [States -> Seq(Marks)] /\ Shape(k, L) \in Shapes /\ ShapeFits(Shape(k, L))'
  <2>1. <<>> \in Seq(Marks) /\ <<>> \in Seq(Frame) /\ StackFits(<<>>, <<>>)
    BY DEF StackFits
  <2>2. L # co /\ L = a.shown /\ profile'[L] = profile[L] /\ UNCHANGED <<hooks, profileThread>>
    BY <1>1, <1>2 DEF AfterVm, patch
  <2> QED
    BY <1>1, <1>2, <2>1, <2>2, FitsUpdate
<1>4. Settled(Shape(k, L))'
  BY <1>1, SettledEmptied DEF TypeOK
<1> HIDE DEF k
<1>5. /\ m \in Marks /\ Marked(m, "c", CloseThread) /\ ("good" \in m => L = L) /\ "good" \in m
      /\ NoState \in {NoState, L} /\ (NoState = L => "c" # "gc") /\ "c" \in VmStates
      /\ "c" # "host" /\ ("c" = "lua" => CloseThread # Api)
      /\ CloseThread \in Functions \cup {NoFunction}
  BY ApiAssumption, FunctionFacts DEF Marks, Marked, VmStates
<1> HIDE DEF m
<1>6. h = [k EXCEPT ![L] = Append(k[L], m)]
  OBVIOUS
<1> HIDE DEF h
<1>7. /\ <<Shape(k, L), DoAs("enter", L, "c", CloseThread), Shape(h, NoState)>> \in ShapeSteps
      /\ h \in [States -> Seq(Marks)] /\ h[L] = Append(k[L], m) /\ h[L] # <<>>
      /\ Last(h[L]) = m /\ Front(h[L]) = k[L] /\ k = [h EXCEPT ![L] = Front(h[L])]
  <2>1. <<Shape(k, L), DoAs("enter", L, "c", CloseThread), Shape(h, NoState)>> \in ShapeSteps
    BY <1>2, <1>3, <1>5, <1>6, EnterStep
  <2>5. k[L] \in Seq(Marks)
    BY <1>2, <1>3
  <2>6. Append(k[L], m) \in Seq(Marks) /\ Append(k[L], m) # <<>>
    BY <1>5, <2>5, PushEnds
  <2>2. h \in [States -> Seq(Marks)] /\ h[L] = Append(k[L], m) /\ h[L] # <<>>
    BY <1>2, <1>3, <1>6, <2>6
  <2>3. Last(h[L]) = m /\ Front(h[L]) = k[L]
    BY <1>5, <2>2, <2>5, PushEnds
  <2>4. k = [h EXCEPT ![L] = k[L]]
    BY <1>2, <1>3, <1>6, <2>2
  <2> QED
    BY <2>1, <2>2, <2>3, <2>4
<1>8. <<Do("host", co), Do("sync", L), Do("leave", L)>> \in Seq(Call)
      /\ <<DoAs("enter", L, "c", CloseThread)>> \in Seq(Call)
  BY <1>2, <1>5, CallIs DEF Ops
<1>9. Run(ShapeSteps, <<DoAs("enter", L, "c", CloseThread)>>, Shape(k, L), Shape(h, NoState))
  BY <1>7, Run1
<1>10. /\ mid \in Seq(Call)
       /\ Run(ShapeSteps, mid, Shape(h, NoState), Shape(h, NoState))
  BY <1>2, <1>7, CloseGuardsShapes DEF TypeOK
<1> HIDE DEF mid
<1>11. Run(ShapeSteps, <<Do("host", co), Do("sync", L), Do("leave", L)>>, Shape(h, NoState), Shape(k, L))
  <2>1. NoState \in States \cup {NoState} /\ "sync" \in {"sync", "hooks"}
        /\ L \in {NoState, L} /\ (L = NoState \/ "good" \in Last(h[L]))
    BY <1>5, <1>7
  <2>2. <<Shape(h, NoState), Do("host", co), Shape(h, NoState)>> \in ShapeSteps
    BY <1>2, <1>7, <2>1, PublishStep
  <2>3. <<Shape(h, NoState), Do("sync", L), Shape(h, L)>> \in ShapeSteps
    BY <1>2, <1>7, <2>1, PublishStep
  <2>4. <<Shape(h, L), Do("leave", L), Shape(k, L)>> \in ShapeSteps
    BY <1>2, <1>7, <2>1, LeaveStep
  <2> QED
    BY <2>2, <2>3, <2>4, Run3
<1>12. /\ Run(ShapeSteps, <<DoAs("enter", L, "c", CloseThread)>> \o mid, Shape(k, L), Shape(h, NoState))
       /\ <<DoAs("enter", L, "c", CloseThread)>> \o mid \in Seq(Call)
  BY <1>8, <1>9, <1>10, RunCat, CatProperties
<1>13. Run(ShapeSteps, todo', Shape(k, L), Shape(k, L))
  BY <1>1, <1>8, <1>11, <1>12, RunCat
<1> QED
  BY <1>3, <1>4, <1>13, ShapeStart

LEMMA SettledCaller ==
    ASSUME TypeOK, ChainInv, NEW a \in Shapes, ShapeFits(a), Settled(a), chain # <<>>,
           NEW L, L = Running, Top(L).vm = "lua" \/ Top(L).cfunction # Api,
           OnChain(L)', status'[L] = status[L],
           NEW m \in Marks, "attached" \in m, "good" \in m, "gc" \notin m
    PROVE  /\ StackOk(L, Append(a.stack[L], m))' /\ Append(a.stack[L], m) \in Seq(Marks)
           /\ a.stack[L] \in Seq(Marks) /\ L \in States
<1> DEFINE s == a.stack[L]
           v == Append(s, m)
           n == Len(s)
<1>1. /\ s \in Seq(Marks) /\ StackSettled(s) /\ n \in Nat \ {0} /\ "attached" \in s[n]
      /\ OnChain(L) /\ StackOk(L, s) /\ L \in States
  BY IdleShape
<1>2. \A i \in 1 .. n : "api" \notin s[i]
  BY NoApi
<1> HIDE DEF s
<1>3. /\ v \in Seq(Marks) /\ StackSettled(v) /\ Len(v) = n + 1 /\ v[n + 1] = m
      /\ \A i \in 1 .. n : v[i] = s[i]
  BY <1>1, <1>2, SettledPush
<1> HIDE DEF v, n
<1>4. status[L] = "running"
  BY <1>1 DEF ChainInv, OnChain
<1>5. L = Main => \A i \in 1 .. n : "attached" \in s[i]
  BY <1>1 DEF StackOk, n
<1>6. \A i \in 1 .. n + 1 : i \in 1 .. n \/ i = n + 1
  BY <1>1
<1>7. L = Main => \A i \in 1 .. n + 1 : "attached" \in v[i]
  BY <1>3, <1>5, <1>6
<1>8. n + 1 # 0 /\ Len(v) = n + 1 /\ v[n + 1] = m
  BY <1>1, <1>3
<1>9. StackOk(L, v)'
  BY <1>3, <1>4, <1>7, <1>8 DEF StackOk
<1> QED
  BY <1>1, <1>3, <1>9 DEF v, s

LEMMA ResumeStep ==
    ASSUME NEW j \in [States -> Seq(Marks)], NEW L \in States, NEW k, NEW m,
           k = [j EXCEPT ![L] = Append(j[L], m)], m = {"attached", "good"}
    PROVE  <<Shape(j, L), DoAs("enter", L, "c", Resume), Shape(k, NoState)>> \in ShapeSteps
<1>1. Resume # Api /\ Resume \in Functions \cup {NoFunction}
  BY ApiAssumption, FunctionFacts
<1>2. /\ m \in Marks /\ Marked(m, "c", Resume) /\ ("good" \in m => L = L)
      /\ NoState \in {NoState, L} /\ (NoState = L => "c" # "gc") /\ "c" \in VmStates
      /\ "c" # "host" /\ ("c" = "lua" => Resume # Api) /\ L \in States \cup {NoState}
  BY <1>1 DEF Marks, Marked, VmStates
<1>3. PICK g : g = k
  OBVIOUS
<1>4. g = [j EXCEPT ![L] = Append(j[L], m)]
  BY <1>3
<1>5. <<Shape(j, L), DoAs("enter", L, "c", Resume), Shape(g, NoState)>> \in ShapeSteps
  BY <1>1, <1>2, <1>4, EnterStep
<1> QED
  BY <1>3, <1>5

\* The C function that resumes is called first, unless the host itself does it.
LEMMA ResumeCaller ==
    ASSUME TypeOK, ChainInv, NEW a \in Shapes, ShapeFits(a), Settled(a),
           NEW co \in States \ {Main}, ResumeCoroutine(co), NEW L, L = Running
    PROVE  LET t == IF chain = <<>> THEN <<>> ELSE <<DoAs("enter", L, "c", Resume)>> IN
           /\ t \in Seq(Call)
           /\ \E k \in [States -> Seq(Marks)], x \in States \cup {NoState} :
                /\ Run(ShapeSteps, t, a, Shape(k, x)) /\ k[co] = a.stack[co]
                /\ \A y \in States \ {co} : StackOk(y, k[y])'
<1>1. /\ status[co] = "suspended" /\ status' = [status EXCEPT ![co] = "running"]
      /\ chain' = Append(chain, co) /\ (chain # <<>> => Top(L).vm = "lua")
  BY DEF ResumeCoroutine, RunsLua
<1>2. /\ L \in States /\ co # L /\ co \in States /\ a.stack \in [States -> Seq(Marks)]
      /\ a.shown \in States \cup {NoState} /\ a = Shape(a.stack, a.shown)
  BY <1>1, OffChain, IdleShape
<1>3. \A y \in States \ {co} : (OnChain(y)' <=> OnChain(y)) /\ status'[y] = status[y]
  BY SMTT(30), <1>1, <1>2 DEF TypeOK, OnChain
<1>4. \A y \in States \ {co} : StackOk(y, a.stack[y])'
  <2> SUFFICES ASSUME NEW y \in States \ {co} PROVE StackOk(y, a.stack[y])'
    OBVIOUS
  <2> DEFINE s == a.stack[y]
  <2>1. StackOk(y, s)
    BY DEF Settled
  <2> HIDE DEF s
  <2>2. (OnChain(y)' <=> OnChain(y)) /\ status'[y] = status[y] /\ (y = Main => (OnChain(Main)' <=> OnChain(Main)))
    BY <1>3
  <2>3. StackOk(y, s)'
    BY <2>1, <2>2 DEF StackOk
  <2> QED
    BY <2>3 DEF s
<1>5. CASE chain = <<>>
  <2> DEFINE k == a.stack
             x == a.shown
  <2>1. /\ k \in [States -> Seq(Marks)] /\ x \in States \cup {NoState} /\ a = Shape(k, x)
        /\ k[co] = a.stack[co] /\ \A y \in States \ {co} : StackOk(y, k[y])'
    BY <1>2, <1>4
  <2> HIDE DEF k, x
  <2>2. Run(ShapeSteps, <<>>, a, Shape(k, x)) /\ <<>> \in Seq(Call)
    BY <2>1, RunNone
  <2> QED
    BY <1>5, <2>1, <2>2
<1>6. CASE chain # <<>>
  <2> DEFINE m == {"attached", "good"}
             k == [a.stack EXCEPT ![L] = Append(a.stack[L], m)]
  <2>1. /\ m \in Marks /\ Marked(m, "c", Resume) /\ ("good" \in m => L = L) /\ "good" \in m
        /\ "attached" \in m /\ "gc" \notin m
        /\ NoState \in {NoState, L} /\ (NoState = L => "c" # "gc") /\ "c" \in VmStates
        /\ "c" # "host" /\ ("c" = "lua" => Resume # Api)
        /\ Resume \in Functions \cup {NoFunction} /\ L \in States \cup {NoState}
    BY ApiAssumption, FunctionFacts, <1>2 DEF Marks, Marked, VmStates
  <2> HIDE DEF m
  <2>2. /\ StackOk(L, Append(a.stack[L], m))' /\ Append(a.stack[L], m) \in Seq(Marks)
    BY <1>2, <1>3, <1>6, IdleShape, <1>1, <2>1, SettledCaller
  <2> DEFINE v == Append(a.stack[L], m)
  <2> HIDE DEF v
  <2>3. k = [a.stack EXCEPT ![L] = v] /\ StackOk(L, v)' /\ v \in Seq(Marks)
    BY <2>2 DEF v
  <2>4. k = [a.stack EXCEPT ![L] = Append(a.stack[L], m)]
    OBVIOUS
  <2> HIDE DEF k
  <2>5. k \in [States -> Seq(Marks)] /\ k[L] = v /\ \A y \in States \ {L} : k[y] = a.stack[y]
    BY <1>2, <2>3
  <2>6. \A y \in States \ {co} : StackOk(y, k[y])'
    <3> SUFFICES ASSUME NEW y \in States \ {co} PROVE StackOk(y, k[y])'
      OBVIOUS
    <3>1. CASE y = L
      BY <2>3, <2>5, <3>1
    <3>2. CASE y # L
      BY <1>4, <2>5, <3>2
    <3> QED
      BY <3>1, <3>2
  <2>7. a.shown = L
    BY <1>6, IdleShape
  <2>8. <<Shape(a.stack, L), DoAs("enter", L, "c", Resume), Shape(k, NoState)>> \in ShapeSteps
    <3>1. PICK j : j = a.stack
      OBVIOUS
    <3>2. j \in [States -> Seq(Marks)] /\ k = [j EXCEPT ![L] = Append(j[L], m)] /\ L \in States
      BY <1>2, <2>4, <3>1
    <3>4. <<Shape(j, L), DoAs("enter", L, "c", Resume), Shape(k, NoState)>> \in ShapeSteps
      BY <3>2, ResumeStep DEF m
    <3> QED
      BY <3>1, <3>4
  <2>9. Run(ShapeSteps, <<DoAs("enter", L, "c", Resume)>>, a, Shape(k, NoState))
    BY <1>2, <2>7, <2>8, Run1
  <2>10. <<DoAs("enter", L, "c", Resume)>> \in Seq(Call)
    BY <1>2, <2>1, CallIs DEF Ops
  <2>11. k[co] = a.stack[co] /\ NoState \in States \cup {NoState}
    BY <1>2, <2>5
  <2> QED
    BY <1>6, <2>5, <2>6, <2>9, <2>10, <2>11
<1> QED
  BY <1>5, <1>6

\* The coroutine enters its function, or the frame that it yielded in.
Enters(k, x, co, call) ==
    \E s \in Seq(Marks), h \in [States -> Seq(Marks)] :
        /\ h = [k EXCEPT ![co] = s] /\ <<Shape(k, x), call, Shape(h, co)>> \in ShapeSteps
        /\ StackSettled(s) /\ Len(s) # 0 /\ "attached" \in s[Len(s)]

LEMMA ResumeEnters ==
    ASSUME TypeOK, NEW k \in [States -> Seq(Marks)], NEW x \in States \cup {NoState},
           NEW co \in States, StackSettled(k[co]), \A i \in 1 .. Len(k[co]) : "attached" \notin k[co][i],
           NEW call, call = IF k[co] = <<>> THEN DoAs("enter", co, "lua", NoFunction)
                            ELSE Do("reenter", co)
    PROVE  /\ call \in Call
           /\ Enters(k, x, co, call)
<1>1. CASE k[co] = <<>>
  <2> DEFINE m == {"attached"}
             s == Append(k[co], m)
  <2>1. /\ m \in Marks /\ Marked(m, "lua", NoFunction) /\ "gc" \notin m /\ "api" \notin m
        /\ ("good" \in m => x = co) /\ ("lua" = "lua" => NoFunction # Api) /\ "attached" \in m
        /\ (co = co => "lua" # "gc") /\ co \in {NoState, co}
        /\ "lua" \in VmStates /\ "lua" # "host" /\ NoFunction \in Functions \cup {NoFunction}
    BY FunctionsAssumption, NullAssumption DEF Marks, Marked, VmStates
  <2> HIDE DEF m
  <2>2. /\ k[co] \in Seq(Marks) /\ Len(k[co]) = 0
    BY <1>1
  <2>3. /\ s \in Seq(Marks) /\ StackSettled(s) /\ Len(s) = Len(k[co]) + 1 /\ s[Len(k[co]) + 1] = m
    <3> DEFINE u == k[co]
    <3>1. /\ u \in Seq(Marks) /\ StackSettled(u) /\ Len(u) = 0 /\ \A i \in 1 .. Len(u) : "api" \notin u[i]
      BY <2>2
    <3> HIDE DEF u
    <3>2. /\ Append(u, m) \in Seq(Marks) /\ StackSettled(Append(u, m))
          /\ Len(Append(u, m)) = Len(u) + 1 /\ Append(u, m)[Len(u) + 1] = m
      BY <2>1, <3>1, SettledPush
    <3> QED
      BY <3>2 DEF u
  <2> DEFINE h == [k EXCEPT ![co] = s]
  <2>6. h \in [States -> Seq(Marks)] /\ h = [k EXCEPT ![co] = s]
    BY <2>3
  <2>4. <<Shape(k, x), DoAs("enter", co, "lua", NoFunction), Shape(h, co)>> \in ShapeSteps
    <3>1. h = [k EXCEPT ![co] = Append(k[co], m)]
      OBVIOUS
    <3> HIDE DEF h
    <3>2. <<Shape(k, x), DoAs("enter", co, "lua", NoFunction), Shape(h, co)>> \in ShapeSteps
      BY <2>1, <3>1, EnterStep
    <3> QED
      BY <3>2
  <2>5. DoAs("enter", co, "lua", NoFunction) \in Call
    BY <2>1, CallIs DEF Ops
  <2>7. Len(s) # 0 /\ "attached" \in s[Len(s)]
    BY <2>1, <2>2, <2>3
  <2>8. call = DoAs("enter", co, "lua", NoFunction)
    BY <1>1
  <2> HIDE DEF s, h
  <2> QED
    BY <2>3, <2>4, <2>5, <2>6, <2>7, <2>8 DEF Enters
<1>2. CASE k[co] # <<>>
  <2> DEFINE u == k[co]
             m == (Last(u) \cup {"attached"}) \ {"good"}
             s == Append(Front(u), m)
             n == Len(u)
  <2>1. /\ u \in Seq(Marks) /\ StackSettled(u) /\ u # <<>> /\ n \in Nat \ {0}
        /\ \A i \in 1 .. n : "attached" \notin u[i]
    BY <1>2
  <2>2. "attached" \notin Last(u) /\ "api" \notin Last(u)
    <3> HIDE DEF u
    <3>1. Last(u) = u[n] /\ n \in 1 .. n /\ (n > 1 => n - 1 \in 1 .. n)
      BY <2>1 DEF Last
    <3>2. "api" \in u[n] => n > 1 /\ "attached" \in u[n - 1]
      BY <2>1, <3>1 DEF StackSettled
    <3> QED
      BY <2>1, <3>1, <3>2
  <2>3. /\ s \in Seq(Marks) /\ StackSettled(s) /\ Len(s) = Len(u) /\ Len(s) # 0
        /\ "attached" \in s[Len(s)] /\ "gc" \notin Last(u)
    <3> HIDE DEF u
    <3> QED
      BY <2>1, <2>2, SettledAgain
  <2> DEFINE h == [k EXCEPT ![co] = s]
  <2>6. h \in [States -> Seq(Marks)] /\ h = [k EXCEPT ![co] = s]
    BY <2>3
  <2>4. <<Shape(k, x), Do("reenter", co), Shape(h, co)>> \in ShapeSteps
    <3>1. h = [k EXCEPT ![co] = Append(Front(k[co]), (Last(k[co]) \cup {"attached"}) \ {"good"})]
      OBVIOUS
    <3>2. k[co] # <<>> /\ co \in {NoState, co} /\ (co = NoState \/ "gc" \notin Last(k[co]))
      BY <1>2, <2>3
    <3> HIDE DEF h
    <3>3. <<Shape(k, x), Do("reenter", co), Shape(h, co)>> \in ShapeSteps
      BY <3>1, <3>2, ReenterStep
    <3> QED
      BY <3>3
  <2>5. Do("reenter", co) \in Call
    BY CallIs DEF Ops
  <2>7. call = Do("reenter", co)
    BY <1>2
  <2> HIDE DEF s, u, m, n, h
  <2> QED
    BY <2>3, <2>4, <2>5, <2>6, <2>7 DEF Enters
<1> QED
  BY <1>1, <1>2

LEMMA ShapeResume ==
    ASSUME TypeOK, ChainInv, NEW a \in Shapes, ShapeFits(a), Settled(a),
           NEW co \in States \ {Main}, ResumeCoroutine(co), NEW L, L = Running
    PROVE  ShapeInv'
<1> DEFINE t == IF chain = <<>> THEN <<>> ELSE <<DoAs("enter", L, "c", Resume)>>
<1>1. /\ status[co] = "suspended" /\ status' = [status EXCEPT ![co] = "running"]
      /\ chain' = Append(chain, co) /\ frames' = frames /\ AfterVm
      /\ todo' = t \o (IF frames[co] = <<>> THEN <<DoAs("enter", co, "lua", NoFunction)>>
                       ELSE <<Do("reenter", co)>>)
  BY DEF ResumeCoroutine
<1>2. t \in Seq(Call)
  BY ResumeCaller
<1>3. PICK k \in [States -> Seq(Marks)], x \in States \cup {NoState} :
                /\ Run(ShapeSteps, t, a, Shape(k, x)) /\ k[co] = a.stack[co]
                /\ \A y \in States \ {co} : StackOk(y, k[y])'
  BY ResumeCaller
<1> HIDE DEF t
<1>4. /\ co \in States /\ co # Main /\ k[co] \in Seq(Marks) /\ StackSettled(k[co])
      /\ \A i \in 1 .. Len(k[co]) : "attached" \notin k[co][i]
  BY <1>1, <1>3 DEF Settled, StackOk
<1>5. k[co] = <<>> <=> frames[co] = <<>>
  BY <1>3, <1>4 DEF ShapeFits, StackFits, TypeOK
<1>6. PICK call : call = IF k[co] = <<>> THEN DoAs("enter", co, "lua", NoFunction)
                         ELSE Do("reenter", co)
  OBVIOUS
<1>7. call \in Call
  BY <1>4, <1>6, ResumeEnters
<1>8. PICK s \in Seq(Marks), h \in [States -> Seq(Marks)] :
                /\ h = [k EXCEPT ![co] = s] /\ <<Shape(k, x), call, Shape(h, co)>> \in ShapeSteps
                /\ StackSettled(s) /\ Len(s) # 0 /\ "attached" \in s[Len(s)]
  BY <1>4, <1>6, ResumeEnters DEF Enters
<1>9. /\ h \in [States -> Seq(Marks)] /\ h[co] = s /\ \A y \in States \ {co} : h[y] = k[y]
  BY <1>4, <1>8
<1>10. Run(ShapeSteps, <<call>>, Shape(k, x), Shape(h, co)) /\ <<call>> \in Seq(Call)
  <2>1. <<Shape(k, x), call, Shape(h, co)>> \in ShapeSteps
    BY <1>8
  <2>2. Run(ShapeSteps, <<call>>, Shape(k, x), Shape(h, co))
    BY <2>1, Run1
  <2> QED
    BY <1>7, <2>2
<1>11. todo' = t \o <<call>>
  BY <1>1, <1>5, <1>6
<1>12. Run(ShapeSteps, todo', a, Shape(h, co))
  BY <1>2, <1>3, <1>10, <1>11, RunCat
<1>13. Shape(h, co) \in Shapes /\ Shape(h, co).stack = h /\ Shape(h, co).shown = co
  BY <1>4, <1>9, ShapeIn
<1>14. StackOk(co, s)'
  BY <1>1, <1>4, <1>8 DEF TypeOK, StackOk
<1>15. \A y \in States : StackOk(y, h[y])'
  <2> SUFFICES ASSUME NEW y \in States PROVE StackOk(y, h[y])'
    OBVIOUS
  <2>1. CASE y = co
    BY <1>9, <1>14, <2>1
  <2>2. CASE y # co
    BY <1>3, <1>9, <2>2
  <2> QED
    BY <2>1, <2>2
<1>16. Running' = co
  BY <1>4, PushEnds, <1>1 DEF TypeOK, Running
<1>17. Settled(Shape(h, co))'
  BY <1>13, <1>15, <1>16 DEF Settled
<1>18. ShapeFits(a)'
  BY <1>1, IdleFits
<1> QED
  BY <1>12, <1>13, <1>17, <1>18, ShapeStart

\* A collection finalizes the recorder: luaprof's stop runs below the GC step.
LEMMA FinalizerMarks ==
    /\ {"attached", "api"} \in Marks /\ Marked({"attached", "api"}, "c", Api)
    /\ Api \in Functions \cup {NoFunction}
BY FunctionFacts DEF Marks, Marked

LEMMA ShapeFinalize ==
    ASSUME TypeOK, ChainInv, NEW a \in Shapes, ShapeFits(a), Settled(a), FinalizeRecorder,
           NEW L, L = Running
    PROVE  ShapeInv'
<1> DEFINE gc == DoAs("enter", L, "gc", NoFunction)
           api == DoAs("enter", L, "c", Api)
           start == <<gc, api, Do("guard", L)>>
           end == <<Do("leave", L)>>
<1>1. /\ UNCHANGED <<status, chain, frames>> /\ AfterVm
      /\ todo' = start \o StopCpu(L) \o ApiReturn(L) \o end
  BY DEF FinalizeRecorder, vm
<1>0. PICK k : k = a.stack
  OBVIOUS
<1>2. PICK x : x = a.shown
  OBVIOUS
<1>3. /\ L \in States /\ k \in [States -> Seq(Marks)] /\ x \in States \cup {NoState}
      /\ a = Shape(k, x) /\ k[L] \in Seq(Marks)
  BY <1>0, <1>2, IdleShape
<1>4. PICK m \in Marks, y \in {NoState, L} :
            /\ Marked(m, "gc", NoFunction) /\ ("good" \in m => x = L)
            /\ (y = NoState \/ "good" \in m) /\ (chain # <<>> => y = L)
  BY <1>2, CollectMarks
<1>5. PICK n : n = {"attached", "api"}
  OBVIOUS
<1>6. n \in Marks /\ Marked(n, "c", Api) /\ "good" \notin n /\ Api \in Functions \cup {NoFunction}
  BY <1>5, FinalizerMarks
<1>7. PICK g : g = [k EXCEPT ![L] = Append(k[L], m)]
  OBVIOUS
<1>8. PICK h : h = [g EXCEPT ![L] = Append(g[L], n)]
  OBVIOUS
<1>9. Append(k[L], m) \in Seq(Marks) /\ Append(k[L], m) # <<>>
      /\ Last(Append(k[L], m)) = m /\ Front(Append(k[L], m)) = k[L]
  BY <1>3, <1>4, PushEnds
<1>10. /\ g \in [States -> Seq(Marks)] /\ g[L] = Append(k[L], m) /\ g[L] \in Seq(Marks)
       /\ k = [g EXCEPT ![L] = Front(g[L])]
  BY <1>3, <1>7, <1>9
<1>11. Append(g[L], n) \in Seq(Marks) /\ Append(g[L], n) # <<>> /\ Front(Append(g[L], n)) = g[L]
  <2>1. Append(g[L], n) \in Seq(Marks)
    BY <1>6, <1>10
  <2>2. g[L] \in Seq(Marks) /\ n \in Marks
    BY <1>6, <1>10
  <2>3. Append(g[L], n) # <<>> /\ Front(Append(g[L], n)) = g[L]
    BY <2>2, PushEnds
  <2> QED
    BY <2>1, <2>3
<1>12. /\ h \in [States -> Seq(Marks)] /\ h[L] = Append(g[L], n)
       /\ g = [h EXCEPT ![L] = Front(h[L])]
  BY <1>3, <1>8, <1>10, <1>11
<1>13. NoState \in States \cup {NoState} /\ L \in States /\ NoState \in {NoState, L}
  BY <1>3
<1>14. <<Shape(k, x), gc, Shape(g, NoState)>> \in ShapeSteps
  <2>1. /\ "gc" \in VmStates /\ "gc" # "host" /\ ("gc" = "lua" => NoFunction # Api)
        /\ NoFunction \in Functions \cup {NoFunction} /\ (NoState = L => "gc" # "gc")
    BY <1>3, NullAssumption DEF VmStates
  <2> QED
    BY ZenonT(60), <1>3, <1>4, <1>7, <1>13, <2>1, EnterStep
<1>15. <<Shape(g, NoState), api, Shape(h, NoState)>> \in ShapeSteps
  <2>1. /\ "c" \in VmStates /\ "c" # "host" /\ ("c" = "lua" => Api # Api)
        /\ (NoState = L => "c" # "gc") /\ ("good" \in n => NoState = L)
    BY <1>6 DEF VmStates
  <2> QED
    BY ZenonT(60), <1>6, <1>8, <1>10, <1>13, <2>1, EnterStep
<1>16. <<Shape(h, NoState), Do("guard", L), Shape(h, NoState)>> \in ShapeSteps
  BY <1>11, <1>12, <1>13, PublishStep
<1>17. Run(ShapeSteps, start, a, Shape(h, NoState))
  <2>1. <<a, gc, Shape(g, NoState)>> \in ShapeSteps
    BY <1>3, <1>14
  <2> HIDE DEF gc, api
  <2> QED
    BY <1>15, <1>16, <2>1, Run3
<1>18. start \in Seq(Call) /\ end \in Seq(Call)
  <2>1. /\ {"enter", "guard", "leave"} \subseteq Ops /\ "gc" \in VmStates /\ "c" \in VmStates
        /\ NoFunction \in Functions \cup {NoFunction}
    BY DEF Ops, VmStates
  <2>2. gc \in Call /\ api \in Call /\ Do("guard", L) \in Call /\ Do("leave", L) \in Call
    BY <1>3, <1>6, <2>1, CallIs
  <2> HIDE DEF gc, api
  <2> QED
    BY <2>2
<1> HIDE DEF start
<1>19. StopCpu(L) \in Seq(Call) /\ Run(ShapeSteps, StopCpu(L), Shape(h, NoState), Shape(h, L))
  BY <1>12, <1>13, StopCpuShapes
<1>20. /\ ApiReturn(L) \in Seq(Call)
       /\ Run(ShapeSteps, ApiReturn(L), Shape(h, L), Shape(g, NoState))
  BY <1>3, <1>11, <1>12, <1>13, ApiReturnShapes
<1>21. Run(ShapeSteps, end, Shape(g, NoState), Shape(k, y))
  BY <1>4, <1>9, <1>10, <1>13, LeaveStep, Run1
<1> HIDE DEF end
<1>22. /\ Run(ShapeSteps, start \o StopCpu(L), a, Shape(h, L))
       /\ start \o StopCpu(L) \in Seq(Call)
  BY <1>17, <1>18, <1>19, RunCat, CatProperties
<1>23. /\ Run(ShapeSteps, start \o StopCpu(L) \o ApiReturn(L), a, Shape(g, NoState))
       /\ start \o StopCpu(L) \o ApiReturn(L) \in Seq(Call)
  BY <1>20, <1>22, RunCat, CatProperties
<1>24. Run(ShapeSteps, todo', a, Shape(k, y))
  BY <1>1, <1>18, <1>21, <1>23, RunCat
<1>25. Shape(k, y) \in Shapes /\ Shape(k, y).stack = k /\ Shape(k, y).shown = y
  BY <1>3, <1>4, ShapeIn
<1>26. Settled(Shape(k, y))'
  BY <1>0, <1>4, <1>25, <1>1, SettledKept DEF Settled
<1>27. ShapeFits(a)'
  BY <1>1, IdleFits
<1> QED
  BY <1>24, <1>25, <1>26, <1>27, ShapeStart

LEMMA ShapeApplication ==
    ASSUME TypeOK, ChainInv, ShapeInv, Application, todo = <<>>
    PROVE  ShapeInv'
<1>1. PICK a \in Shapes : ShapeFits(a) /\ Settled(a)
  BY ShapeIdle
<1>2. PICK L : L = Running
  OBVIOUS
<1>3. CASE HostCall
  BY <1>1, <1>3, ShapeHostCall
<1>4. CASE CallLua
  BY <1>1, <1>4, ShapeCallLua
<1>5. ASSUME NEW f \in Work \cup {PCall, Api}, CallC(f) PROVE ShapeInv'
  BY <1>1, <1>5, ShapeCallC
<1>6. CASE Return
  BY <1>1, <1>2, <1>6, ShapeReturn
<1>7. CASE YieldCoroutine
  BY <1>1, <1>2, <1>7, ShapeYield
<1>8. CASE Throw
  BY <1>1, <1>2, <1>8, ShapeThrow
<1>9. CASE Allocate
  BY <1>1, <1>9, ShapeAllocate
<1>10. CASE SafePoint
  BY <1>1, <1>10, ShapeSafePoint
<1>11. ASSUME NEW co \in States \ {Main}, Create(co) PROVE ShapeInv'
  BY <1>1, <1>2, <1>11, ShapeCreate
<1>12. ASSUME NEW co \in States \ {Main}, ResumeCoroutine(co) PROVE ShapeInv'
  BY <1>1, <1>2, <1>12, ShapeResume
<1>13. ASSUME NEW co \in States \ {Main}, CloseCoroutine(co) PROVE ShapeInv'
  BY <1>1, <1>2, <1>13, ShapeClose
<1>14. ASSUME NEW co \in States \ {Main}, Collect(co) PROVE ShapeInv'
  BY <1>1, <1>2, <1>14, ShapeCollect
<1>15. CASE CpuStart
  BY <1>1, <1>2, <1>15, ShapeCpuStart
<1>16. CASE CpuStop
  BY <1>1, <1>2, <1>16, ShapeCpuStop
<1>17. CASE MemoryToggle
  BY <1>1, <1>2, <1>17, ShapeMemoryToggle
<1>18. CASE ApiOther
  BY <1>1, <1>2, <1>18, ShapeApiOther
<1>19. CASE FinalizeRecorder
  BY <1>1, <1>2, <1>19, ShapeFinalize
<1> QED
  BY <1>3, <1>4, <1>5, <1>6, <1>7, <1>8, <1>9, <1>10, <1>11, <1>12, <1>13, <1>14, <1>15, <1>16,
     <1>17, <1>18, <1>19 DEF Application

LEMMA ShapeInit == ASSUME Init PROVE ShapeInv
<1> DEFINE k == [L \in States |-> <<>>]
           a == Shape(k, NoState)
<1>1. k \in [States -> Seq(Marks)] /\ a \in Shapes /\ a.stack = k /\ a.shown = NoState
  <2>1. k \in [States -> Seq(Marks)]
    OBVIOUS
  <2> HIDE DEF k
  <2> QED
    BY <2>1, ShapeIn
<1>2. \A L \in States : k[L] = <<>>
  OBVIOUS
<1> HIDE DEF k, a
<1>6. frames = [L \in States |-> <<>>]
  BY DEF Init
<1>7. \A L \in States : frames[L] = <<>>
  BY <1>6, Zenon
<1>3. ShapeFits(a)
  BY <1>1, <1>2, <1>7 DEF ShapeFits, StackFits, ShownFits
<1>4. Settled(a)
  BY <1>1, <1>2 DEF Init, OnChain, Settled, StackOk, StackSettled
<1>5. Run(ShapeSteps, todo, a, a)
  BY RunNone DEF Init
<1> QED
  BY <1>1, <1>3, <1>4, <1>5 DEF ShapeInv

------------------------------------------------------------------------------
(* The invariant: all aspects together. *)

Inv == TypeOK /\ ChainInv /\ ShapeInv /\ RecorderInv /\ SlotInv /\ NamesInv

LEMMA RecorderInit == ASSUME Init PROVE RecorderInv
BY RunNone DEF Init, NewTimer, Expirations, Deliveries, Fresh, Off, Stages, StageFits,
   Staged, ExpirationsCounted, RecorderInv

LEMMA SlotInit == ASSUME Init PROVE SlotInv
<1> DEFINE a == [phase |-> "clean", target |-> MainsHost]
<1>1. MainsHost \in Slot
  BY MainAssumption DEF MainsHost, Slot, VmStates
<1>2. a \in SlotPhase /\ a.phase = "clean"
  BY <1>1 DEF SlotPhase, Phases
<1> HIDE DEF a
<1>3. Run(SlotSteps, todo, a, a)
  BY RunNone DEF Init
<1>4. ~hooks.cpu /\ ~timer.publishing
  BY DEF Init, NewTimer
<1>5. SlotFits(a)
  BY <1>2, <1>4 DEF SlotFits, Shown
<1> QED
  BY <1>2, <1>3, <1>5 DEF SlotInv

LEMMA ChainInit == ASSUME Init PROVE ChainInv
BY MainAssumption DEF Init, ChainInv

LEMMA NamesInit == ASSUME Init PROVE NamesInv
<1> DEFINE a == [s |-> {}, q |-> {}, p |-> {}, l |-> {Main}]
<1>1. a \in NameSets /\ a.s = {} /\ a.q = {} /\ a.p = {} /\ a.l = {Main}
  BY MainAssumption DEF NameSets
<1> HIDE DEF a
<1>2. Run(NamesSteps, todo, a, a)
  BY RunNone DEF Init
<1>3. timer.slot.state = NoState /\ timer.events = <<>> /\ ~hooks.cpu
  BY DEF Init, NewTimer
<1>4. Resumed = {Main}
  BY DEF Init, Resumed
<1>5. Live(Main)
  BY MainAssumption DEF Init, Live
<1>6. NamesFits(a)
  BY <1>1, <1>3, <1>4, <1>5 DEF NamesFits, Shown
<1> QED
  BY <1>1, <1>2, <1>6 DEF NamesInv

LEMMA InitInv == Init => Inv
BY InitTypes, RecorderInit, SlotInit, ChainInit, NamesInit, ShapeInit DEF Inv

LEMMA TickInv ==
    ASSUME Inv, NEW overrun \in 0 .. MaxOverrun, Tick(overrun) PROVE Inv'
BY ArmedRecords, TickTypes, ShapeTick, RecorderTick, SlotTick, NamesTick DEF Tick, Inv,
   RecorderInv, vm, ChainInv

LEMMA ApplicationInv == ASSUME Inv, Application PROVE Inv'
BY ApplicationFrame, NamesIdle, ApplicationTypes, ChainApplication, ShapeApplication,
   RecorderApplication, SlotApplication, NamesApplication DEF Idle, Inv, LiveStates, Live

LEMMA PerformInv == ASSUME Inv, Perform \/ Disarm PROVE Inv'
BY ShapeReady, PerformTypes, ChainPerform, ShapePerform, RecorderPerform, SlotPerform,
   NamesPerform DEF Perform, Disarm, Inv, RecorderInv

LEMMA StutterInv == ASSUME Inv, UNCHANGED vars PROVE Inv'
<1> USE DEF vars, vm, patch, bridge, recorder, bounds
<1>1. TypeOK'
  BY DEF Inv, TypeOK
<1>2. ChainInv'
  BY DEF Inv, ChainInv
<1>3. ShapeInv'
  <2>1. PICK a \in Shapes, e \in Shapes : ShapeFits(a) /\ Run(ShapeSteps, todo, a, e) /\ Settled(e)
    BY DEF Inv, ShapeInv
  <2>2. ShapeFits(a)'
    BY <2>1, ShapeFrame
  <2>3. Settled(e)'
    BY <2>1 DEF Settled, StackOk, OnChain, Running
  <2> QED
    BY <2>1, <2>2, <2>3 DEF ShapeInv
<1>4. Staged'
  <2>1. PICK a \in Stages : StageFits(a) /\ Run(StageSteps, todo, a, "settled")
    BY DEF Inv, RecorderInv, Staged
  <2>2. StageFits(a)'
    BY <2>1 DEF StageFits, On, Off, Fresh, NothingCounted, WorkDrains
  <2> QED
    BY <2>1, <2>2 DEF Staged
<1>5. RecorderInv'
  BY <1>4 DEF Inv, RecorderInv, DrainWaits, ExpirationsCounted
<1>6. SameSlot(timer, timer')
  BY DEF SameSlot
<1>7. SlotInv'
  <2>1. PICK a \in SlotPhase, e \in SlotPhase :
            SlotFits(a) /\ Run(SlotSteps, todo, a, e) /\ e.phase = "clean"
    BY DEF Inv, SlotInv
  <2>2. SlotFits(a)'
    BY <1>6, <2>1, SlotFrame
  <2> QED
    BY <2>1, <2>2 DEF SlotInv
<1>8. NamesInv'
  <2>1. PICK a \in NameSets, e \in NameSets :
            NamesFits(a) /\ Run(NamesSteps, todo, a, e) /\ e.q \subseteq Resumed
    BY DEF Inv, NamesInv
  <2>2. NamesFits(a)'
    BY <1>6, <2>1, NamesFrame
  <2> QED
    BY <2>1, <2>2 DEF NamesInv, Resumed
<1> QED
  BY <1>1, <1>2, <1>3, <1>5, <1>7, <1>8 DEF Inv

LEMMA NextInv == Inv /\ [Next]_vars => Inv'
BY TickInv, ApplicationInv, PerformInv, StutterInv DEF Next

------------------------------------------------------------------------------
(* The properties. *)

LEMMA SpecInv == Spec => []Inv
<1> QED
  BY InitInv, NextInv, PTL DEF Spec

\* Every variable keeps its type, in every behaviour of the VM, the patch and the
\* bridge.
THEOREM Types == Spec => []TypeOK
<1>1. Inv => TypeOK
  BY DEF Inv
<1> QED
  BY <1>1, SpecInv, PTL

\* A queued event has asked for the safe point that drains it, and no request
\* outlives the recording (luaP_safepoint_, lua_setprofilehooks).
THEOREM RequestsQueued == Spec => []QueuedIsRequested
<1>1. Inv => QueuedIsRequested
  <2> SUFFICES ASSUME Inv PROVE QueuedIsRequested
    OBVIOUS
  <2>1. Idle => ~DrainWaits
    BY DEF Idle, DrainWaits
  <2>2. /\ timer.events # <<>> => pending > 0 \/ DrainWaits
        /\ ~hooks.cpu => pending = 0
    BY DEF Inv, RecorderInv
  <2> QED
    BY <2>1, <2>2 DEF QueuedIsRequested
<1> QED
  BY <1>1, SpecInv, PTL

\* Every expiration that was delivered or discarded is counted once, through every
\* drain, start and stop of a recording (drain_thread_timer, record_thread_quality, lp_thread_timer_disarm).
THEOREM NoneUncounted == Spec => []ExpirationsCounted
<1>1. Inv => ExpirationsCounted
  BY DEF Inv, RecorderInv
<1> QED
  BY <1>1, SpecInv, PTL

\* Nothing queued names a coroutine that went back to its host (the drain in
\* state_change).
THEOREM QueueNamed == Spec => []QueueNamesRunning
<1>1. Inv => QueueNamesRunning
  <2> SUFFICES ASSUME Inv, Idle PROVE QueueNamesRunning
    BY DEF QueueNamesRunning
  <2>1. \A i \in 1 .. Len(timer.events) : timer.events[i].state \in Resumed
    BY NamesIdle DEF Inv, Idle
  <2>2. timer.events \in Seq(Slot) /\ chain \in Seq(States)
    BY DEF Inv, TypeOK, Timer
  <2>3. Resumed = {Main} \cup ToSet(chain) /\ DOMAIN timer.events = 1 .. Len(timer.events)
    BY <2>2 DEF Resumed, ToSet
  <2> QED
    BY <2>1, <2>3 DEF QueueNamesRunning
<1> QED
  BY <1>1, SpecInv, PTL

\* While the timer runs, no lua_State it can name has been freed: luaE_freethread
\* meets none of those in the slot or in the queue.
THEOREM NamesAlive == Spec => []NoDeadCoroutine
<1>1. Inv => NoDeadCoroutine
  <2> SUFFICES ASSUME Inv PROVE NoDeadCoroutine
    OBVIOUS
  <2>1. PICK a \in NameSets : NamesFits(a)
    BY DEF Inv, NamesInv
  <2>2. a.s \subseteq a.q /\ a.q \subseteq a.l
    BY NameTypes
  <2>3. timer.events \in Seq(Slot)
    BY DEF Inv, TypeOK, Timer
  <2>4. DOMAIN timer.events = 1 .. Len(timer.events)
    BY <2>3
  <2> QED
    BY <2>1, <2>2, <2>4 DEF NamesFits, NoDeadCoroutine
<1> QED
  BY <1>1, SpecInv, PTL

\* Between two primitives nothing is being published, and the timer shows what was
\* published last.
LEMMA IdleSlot ==
    ASSUME Inv, Idle PROVE ~timer.publishing /\ (Shown => timer.slot = Target)
<1>1. PICK a \in SlotPhase, e \in SlotPhase :
            SlotFits(a) /\ Run(SlotSteps, todo, a, e) /\ e.phase = "clean"
  BY DEF Inv, SlotInv
<1>2. a = e
  BY <1>1, RunEmpty DEF Idle
<1> QED
  BY <1>1, <1>2 DEF SlotFits

\* An idle VM that runs something has a frame, and none of its frames is a GC step.
LEMMA IdleRuns ==
    ASSUME Inv, Idle, chain # <<>>
    PROVE  /\ Running \in States /\ StateFromCi(frames[Running]).vm # "host"
           /\ hooks.cpu => /\ profileThread = Running
                           /\ profile[Running] = StateFromCi(frames[Running])
<1> DEFINE L == Running
           t == frames[L]
<1>1. PICK a \in Shapes : ShapeFits(a) /\ Settled(a)
  BY ShapeIdle DEF Inv, Idle
<1>2. TypeOK
  BY DEF Inv
<1>3. /\ L \in States /\ a.stack[L] \in Seq(Marks) /\ StackSettled(a.stack[L])
      /\ t \in Seq(Frame) /\ StackFits(a.stack[L], t) /\ Len(a.stack[L]) = Len(t)
      /\ a.shown = L /\ a.stack[L] # <<>>
  BY <1>1, <1>2, IdleShape
<1>4. ShownFits(a.shown)
  BY <1>1 DEF ShapeFits
<1>5. L # NoState
  BY <1>3, NullAssumption
<1>6. hooks.cpu => profileThread = L /\ profile[L] = StateFromCi(t)
  BY <1>3, <1>4, <1>5 DEF ShownFits
<1> HIDE DEF L, t
<1>7. Len(t) \in Nat /\ Len(t) # 0
  BY <1>3
<1>8. 1 \in 1 .. Len(t) /\ t[1].vm # "gc"
  BY <1>3, <1>7 DEF StackSettled, StackFits
<1>9. StateBelow(t, Len(t)).vm \in {"lua", "c"}
  BY <1>3, <1>7, <1>8, StateBelowType
<1>10. StateFromCi(t).vm # "host"
  BY <1>3, <1>9, StateOfStack
<1> QED
  BY <1>3, <1>6, <1>10 DEF L, t

\* Between two primitives the slot shows what the VM runs, whatever calls, errors,
\* resumptions and collections led there: a tick is attributed to the code it
\* interrupted (luaP_enterstate, luaP_leavestate_, luaP_syncstate and publishstate).
THEOREM ShowsRunning == Spec => []SlotShowsRunning
<1>1. Inv => SlotShowsRunning
  <2> SUFFICES ASSUME Inv, Idle, armed, chain # <<>>
               PROVE  /\ ~timer.publishing /\ timer.slot.state = Running
                      /\ [vm |-> timer.slot.vm, cfunction |-> timer.slot.cfunction] =
                              StateFromCi(frames[Running])
    BY DEF SlotShowsRunning
  <2> DEFINE L == Running
             now == StateFromCi(frames[L])
  <2>1. hooks.cpu
    BY ArmedRecords DEF Inv, RecorderInv
  <2>2. L \in States /\ now.vm # "host" /\ profileThread = L /\ profile[L] = now
    BY <2>1, IdleRuns
  <2>3. L # NoState
    BY <2>2, NullAssumption
  <2> HIDE DEF L, now
  <2>4. ~Handing /\ Shown
    BY <2>1, <2>2, <2>3 DEF Handing, Shown
  <2>5. timer.slot = [state |-> L, vm |-> now.vm, cfunction |-> now.cfunction]
    BY <2>2, <2>4, IdleSlot DEF Target
  <2>6. now \in Executions
    BY <2>2 DEF Inv, TypeOK
  <2>7. now = [vm |-> now.vm, cfunction |-> now.cfunction]
    BY <2>6 DEF Executions
  <2> QED
    BY <2>5, <2>7, IdleSlot DEF L, now
<1> QED
  BY <1>1, SpecInv, PTL

------------------------------------------------------------------------------
(* The work guards that are open.                                             *)

LEMMA OneToOne ==
    ASSUME NEW A, NEW B, IsFiniteSet(A), NEW f \in [A -> B],
           \A x, y \in A : f[x] = f[y] => x = y, \A y \in B : \E x \in A : f[x] = y
    PROVE  IsFiniteSet(B) /\ Cardinality(B) = Cardinality(A)
BY FS_Bijection DEF Injection, IsInjective, Surjection, ExistsBijection, Bijection

\* The guards of a stack, and of its two parts.
LEMMA GuardsSplit ==
    ASSUME NEW s \in Seq(Frame), NEW p \in Seq(Frame), NEW q \in Seq(Frame),
           Len(s) = Len(p) + Len(q), \A i \in 1 .. Len(p) : s[i].work = p[i].work,
           \A i \in 1 .. Len(q) : s[Len(p) + i].work = q[i].work
    PROVE  Cardinality(Guards(s)) = Cardinality(Guards(p)) + Cardinality(Guards(q))
<1> DEFINE n == Len(p)
           m == Len(q)
           A == Guards(p)
           B == Guards(q)
           C == Guards(s) \ A
           f == [i \in B |-> n + i]
<1>1. n \in Nat /\ m \in Nat /\ Len(s) = n + m
  OBVIOUS
<1>2. /\ A = {i \in 1 .. n : p[i].work} /\ B = {i \in 1 .. m : q[i].work}
      /\ Guards(s) = {i \in 1 .. n + m : s[i].work}
  BY <1>1 DEF Guards
<1>3. IsFiniteSet(A) /\ IsFiniteSet(B) /\ Cardinality(A) \in Nat /\ Cardinality(B) \in Nat
  BY GuardsFinite
<1> HIDE DEF n, m, A, B
<1>4. A \subseteq Guards(s)
  BY <1>1, <1>2 DEF n
<1>5. C = {i \in n + 1 .. n + m : s[i].work}
  BY <1>1, <1>2 DEF n
<1>6. \A i \in n + 1 .. n + m : i - n \in 1 .. m /\ n + (i - n) = i
  BY <1>1
<1>7. f \in [B -> C] /\ (\A x, y \in B : f[x] = f[y] => x = y)
  BY <1>1, <1>2, <1>5 DEF n, m
<1>8. \A y \in C : \E x \in B : f[x] = y
  <2> TAKE y \in C
  <2>1. y - n \in 1 .. m /\ n + (y - n) = y /\ s[y].work
    BY <1>5, <1>6
  <2>2. q[y - n].work
    BY <2>1 DEF n, m
  <2> QED
    BY <1>2, <2>1, <2>2
<1> HIDE DEF C, f
<1>9. IsFiniteSet(C) /\ Cardinality(C) = Cardinality(B)
  BY <1>3, <1>7, <1>8, OneToOne
<1>10. Guards(s) = A \cup C /\ A \cap C = {}
  BY <1>4 DEF C
<1>11. Cardinality(A \cup C) = Cardinality(A) + Cardinality(C) - Cardinality(A \cap C)
  BY <1>3, <1>9, FS_Union
<1>12. Cardinality(A \cap C) = 0
  BY <1>10, FS_EmptySet
<1> QED
  BY <1>3, <1>9, <1>10, <1>11, <1>12 DEF A, B

Open == OpenGuards(States)

\* A lua_State gets another stack.
LEMMA GuardsMove ==
    ASSUME TypeOK, IsFiniteSet(Open), NEW L \in States, NEW t \in Seq(Frame),
           frames' = [frames EXCEPT ![L] = t]
    PROVE  /\ IsFiniteSet(Open') /\ Cardinality(Open) \in Nat /\ Cardinality(Open') \in Nat
           /\ Cardinality(Open') + Cardinality(Guards(frames[L])) =
                Cardinality(Open) + Cardinality(Guards(t))
<1> DEFINE s == frames[L]
           A == {L} \X Guards(s)
           B == {L} \X Guards(t)
           C == UNION {{x} \X Guards(frames[x]) : x \in States \ {L}}
<1>1. frames \in [States -> Seq(Frame)] /\ s \in Seq(Frame)
  BY DEF TypeOK
<1>2. Open = A \cup C /\ A \cap C = {}
  BY DEF Open, OpenGuards
<1>3. Open' = B \cup C /\ B \cap C = {}
  BY <1>1 DEF Open, OpenGuards
<1>4. ASSUME NEW u \in Seq(Frame)
      PROVE  /\ IsFiniteSet({L} \X Guards(u)) /\ Cardinality({L} \X Guards(u)) = Cardinality(Guards(u))
             /\ Cardinality(Guards(u)) \in Nat
  <2>1. IsFiniteSet(Guards(u)) /\ Cardinality(Guards(u)) \in Nat
    BY GuardsFinite
  <2>2. IsFiniteSet({L}) /\ Cardinality({L}) = 1
    BY FS_Singleton
  <2>3. /\ IsFiniteSet({L} \X Guards(u))
        /\ Cardinality({L} \X Guards(u)) = Cardinality({L}) * Cardinality(Guards(u))
    BY <2>1, <2>2, FS_Product
  <2> QED
    BY <2>1, <2>2, <2>3
<1>5. /\ IsFiniteSet(A) /\ Cardinality(A) = Cardinality(Guards(s)) /\ Cardinality(A) \in Nat
      /\ IsFiniteSet(B) /\ Cardinality(B) = Cardinality(Guards(t)) /\ Cardinality(B) \in Nat
  BY <1>1, <1>4
<1> HIDE DEF A, B, C
<1>6. IsFiniteSet(C) /\ Cardinality(C) \in Nat
  BY <1>2, FS_Subset, FS_CardinalityType
<1>7. Cardinality(A \cup C) = Cardinality(A) + Cardinality(C) - Cardinality(A \cap C)
  BY <1>5, <1>6, FS_Union
<1>8. /\ IsFiniteSet(B \cup C)
      /\ Cardinality(B \cup C) = Cardinality(B) + Cardinality(C) - Cardinality(B \cap C)
  BY <1>5, <1>6, FS_Union
<1>9. Cardinality(A \cap C) = 0 /\ Cardinality(B \cap C) = 0
  BY <1>2, <1>3, FS_EmptySet
<1>10. Cardinality(Open) = Cardinality(A) + Cardinality(C)
  BY <1>2, <1>5, <1>6, <1>7, <1>9
<1>11. Cardinality(Open') = Cardinality(B) + Cardinality(C) /\ IsFiniteSet(Open')
  BY <1>3, <1>5, <1>6, <1>8, <1>9
<1> QED
  BY <1>5, <1>6, <1>10, <1>11 DEF s

------------------------------------------------------------------------------
(* The ledger of the work that is open: how much of it no guard on a stack    *)
(* accounts for, which frame's guard the next leave takes off its stack, and  *)
(* whether the timer drains because it has just been made.                    *)

Ledger == [spare: Nat, top: States \cup {NoState}, starting: BOOLEAN]
At(n, x, s) == [spare |-> n, top |-> x, starting |-> s]

LedgerOthers == Ops \ {"begin", "end", "guard", "leave", "enter", "reenter", "free",
                       "activate", "arm", "release"}

LedgerStep(a, c, b) ==
    \/ c.op = "begin" /\ b = At(a.spare + 1, a.top, a.starting)
    \/ c.op = "end" /\ a = At(b.spare + 1, b.top, b.starting)
    \/ c.op = "guard" /\ b.top \in {c.state, NoState} /\ b = At(a.spare, b.top, a.starting)
    \/ /\ c.op = "leave"
       /\ b = At(IF a.top = c.state THEN a.spare + 1 ELSE a.spare, NoState, a.starting)
    \/ c.op \in {"enter", "reenter", "free"} /\ b = At(a.spare, NoState, a.starting)
    \/ c.op = "activate" /\ b = At(a.spare, a.top, TRUE)
    \/ c.op \in {"arm", "release"} /\ b = At(a.spare, a.top, FALSE)
    \/ c.op \in LedgerOthers /\ b = a
LedgerSteps == {t \in Ledger \X Call \X Ledger : LedgerStep(t[1], t[2], t[3])}

LedgerFits(a) ==
    /\ IsFiniteSet(Open)
    /\ workDepth >= Cardinality(Open) + a.spare
    /\ a.top # NoState => frames[a.top] # <<>> /\ Top(a.top).work
    /\ cpuActive /\ workDepth > 0 => timer.draining
    /\ cpuActive /\ timer.draining => workDepth > 0 \/ a.starting

LedgerInv == \E a, e \in Ledger : /\ LedgerFits(a) /\ Run(LedgerSteps, todo, a, e)
                                  /\ ~e.starting

LEMMA AtIs ==
    ASSUME NEW n \in Nat, NEW x \in States \cup {NoState}, NEW s \in BOOLEAN
    PROVE  /\ At(n, x, s) \in Ledger /\ At(n, x, s).spare = n /\ At(n, x, s).top = x
           /\ At(n, x, s).starting = s
BY DEF At, Ledger

LEMMA LedgerIs ==
    ASSUME NEW a \in Ledger
    PROVE  /\ a.spare \in Nat /\ a.top \in States \cup {NoState} /\ a.starting \in BOOLEAN
           /\ a = At(a.spare, a.top, a.starting)
BY DEF At, Ledger

LEMMA LedgerMoves ==
    ASSUME NEW n \in Nat, NEW x \in States \cup {NoState}, NEW s \in BOOLEAN, NEW L \in States
    PROVE  /\ <<At(n, x, s), Do("begin", L), At(n + 1, x, s)>> \in LedgerSteps
           /\ <<At(n + 1, x, s), Do("end", L), At(n, x, s)>> \in LedgerSteps
           /\ <<At(n, x, s), Do("guard", L), At(n, L, s)>> \in LedgerSteps
           /\ <<At(n, L, s), Do("leave", L), At(n + 1, NoState, s)>> \in LedgerSteps
           /\ <<At(n, NoState, s), Do("leave", L), At(n, NoState, s)>> \in LedgerSteps
           /\ \A kind \in VmStates, f \in Functions \cup {NoFunction} :
                <<At(n, x, s), DoAs("enter", L, kind, f), At(n, NoState, s)>> \in LedgerSteps
           /\ <<At(n, x, s), Do("reenter", L), At(n, NoState, s)>> \in LedgerSteps
           /\ <<At(n, x, s), Do("activate", L), At(n, x, TRUE)>> \in LedgerSteps
           /\ \A op \in {"arm", "release"} :
                <<At(n, x, s), Do(op, L), At(n, x, FALSE)>> \in LedgerSteps
<1>1. /\ At(n, x, s) \in Ledger /\ At(n + 1, x, s) \in Ledger /\ At(n, L, s) \in Ledger
      /\ At(n + 1, NoState, s) \in Ledger /\ At(n, NoState, s) \in Ledger
      /\ At(n, x, TRUE) \in Ledger /\ At(n, x, FALSE) \in Ledger
  BY DEF At, Ledger
<1>2. \A m \in {n, n + 1}, y \in {x, L, NoState} :
            At(m, y, s).spare = m /\ At(m, y, s).top = y /\ At(m, y, s).starting = s
  BY AtIs
<1>3. \A op \in Ops : Do(op, L) \in Call /\ Do(op, L).op = op /\ Do(op, L).state = L
  BY CallTypes DEF Do
<1>4. \A kind \in VmStates, f \in Functions \cup {NoFunction} :
            DoAs("enter", L, kind, f) \in Call /\ DoAs("enter", L, kind, f).op = "enter"
  BY CallTypes DEF DoAs, Ops
<1>5. {"begin", "end", "guard", "leave", "reenter", "activate", "arm", "release"} \subseteq Ops
      /\ NoState \notin States
  BY NullAssumption DEF Ops
<1>6. \A a, b \in Ledger, c \in Call : LedgerStep(a, c, b) => <<a, c, b>> \in LedgerSteps
  BY DEF LedgerSteps
<1>7. /\ LedgerStep(At(n, x, s), Do("begin", L), At(n + 1, x, s))
      /\ LedgerStep(At(n + 1, x, s), Do("end", L), At(n, x, s))
      /\ LedgerStep(At(n, x, s), Do("guard", L), At(n, L, s))
      /\ LedgerStep(At(n, L, s), Do("leave", L), At(n + 1, NoState, s))
      /\ LedgerStep(At(n, NoState, s), Do("leave", L), At(n, NoState, s))
  BY <1>2, <1>3, <1>5 DEF LedgerStep
<1>8. /\ \A kind \in VmStates, f \in Functions \cup {NoFunction} :
            LedgerStep(At(n, x, s), DoAs("enter", L, kind, f), At(n, NoState, s))
      /\ LedgerStep(At(n, x, s), Do("reenter", L), At(n, NoState, s))
      /\ LedgerStep(At(n, x, s), Do("activate", L), At(n, x, TRUE))
      /\ \A op \in {"arm", "release"} : LedgerStep(At(n, x, s), Do(op, L), At(n, x, FALSE))
  BY <1>2, <1>3, <1>4, <1>5 DEF LedgerStep
<1> QED
  BY <1>1, <1>3, <1>4, <1>5, <1>6, <1>7, <1>8

\* Calls that leave the ledger as it is.
LEMMA LedgerSteady ==
    ASSUME NEW a \in Ledger, NEW C \in SUBSET Call, NEW s \in Seq(C),
           \A c \in C : c.op \in LedgerOthers
    PROVE  Run(LedgerSteps, s, a, a)
BY RunSteady DEF LedgerSteps, LedgerStep

\* So do the pieces of work that the bridge opens and closes.
LEMMA LedgerInserts ==
    ASSUME NEW a \in Ledger
    PROVE  /\ Run(LedgerSteps, <<Do("begin", Main), Do("end", Main)>>, a, a)
           /\ \A L \in States, kind \in VmStates, f \in Functions \cup {NoFunction} :
                Run(LedgerSteps, StateChange(L, kind, f), a, a)
<1> DEFINE b == At(a.spare + 1, a.top, a.starting)
           O == {c \in Call : c.op \in LedgerOthers}
<1>1. /\ <<a, Do("begin", Main), b>> \in LedgerSteps /\ <<b, Do("end", Main), a>> \in LedgerSteps
      /\ b \in Ledger
  <2>1. /\ a.spare \in Nat /\ a.top \in States \cup {NoState} /\ a.starting \in BOOLEAN
        /\ a = At(a.spare, a.top, a.starting) /\ b = At(a.spare + 1, a.top, a.starting)
    BY LedgerIs
  <2> HIDE DEF b
  <2>2. a.spare + 1 \in Nat
    BY <2>1
  <2> QED
    BY ZenonT(60), <2>1, <2>2, LedgerMoves, AtIs, MainAssumption
<1> HIDE DEF b
<1>2. Run(LedgerSteps, <<Do("begin", Main), Do("end", Main)>>, a, a)
  BY <1>1, Run2
<1>3. {"open", "shut", "drain", "quality"} \subseteq LedgerOthers
  BY DEF LedgerOthers, Ops
<1>4. ASSUME NEW L \in States, NEW kind \in VmStates, NEW f \in Functions \cup {NoFunction}
      PROVE  Run(LedgerSteps, StateChange(L, kind, f), a, a)
  <2>1. /\ Do("open", L) \in O /\ DoAs("shut", L, kind, f) \in O
        /\ Do("open", Main) \in O /\ Do("shut", Main) \in O /\ Do("drain", Main) \in O
        /\ Do("quality", Main) \in O
    BY CallTypes, <1>3, HandoverTypes DEF Ops, Do, DoAs
  <2>2. O \in SUBSET Call
    OBVIOUS
  <2>3. \A c \in O : <<a, c, a>> \in LedgerSteps /\ <<b, c, b>> \in LedgerSteps
    BY <1>1 DEF LedgerSteps, LedgerStep
  <2> DEFINE s == <<Do("begin", Main), Do("open", Main), Do("shut", Main), Do("drain", Main)>>
             t == <<Do("quality", Main), Do("end", Main)>>
             u == <<Do("open", L), DoAs("shut", L, kind, f)>>
  <2>4. Run(LedgerSteps, s, a, b) /\ Run(LedgerSteps, t, b, a) /\ Run(LedgerSteps, u, a, a)
    BY <1>1, <2>1, <2>3, Run2, Run4
  <2>5. s \in Seq(Call) /\ t \in Seq(Call)
    BY HandoverTypes
  <2>6. StateChange(L, kind, f) = s \o t \/ StateChange(L, kind, f) = u
    BY DEF StateChange
  <2> HIDE DEF s, t, u
  <2>7. Run(LedgerSteps, s \o t, a, a)
    BY <2>4, <2>5, RunCat
  <2> QED
    BY <2>4, <2>6, <2>7
<1> QED
  BY <1>2, <1>4

\* The guards of a stack and of all of it but the innermost frame.
LEMMA GuardsOfPush ==
    ASSUME NEW p \in Seq(Frame), NEW x \in Frame
    PROVE  /\ Append(p, x) \in Seq(Frame)
           /\ Cardinality(Guards(Append(p, x))) = Cardinality(Guards(p)) + (IF x.work THEN 1 ELSE 0)
<1> DEFINE q == <<x>>
           s == Append(p, x)
<1>1. /\ q \in Seq(Frame) /\ s \in Seq(Frame) /\ Len(s) = Len(p) + Len(q)
      /\ (\A i \in 1 .. Len(p) : s[i].work = p[i].work)
      /\ \A i \in 1 .. Len(q) : s[Len(p) + i].work = q[i].work
  OBVIOUS
<1>2. Guards(q) = IF x.work THEN {1} ELSE {}
  BY DEF Guards
<1>3. Cardinality(Guards(q)) = IF x.work THEN 1 ELSE 0
  BY <1>2, FS_Singleton, FS_EmptySet
<1> HIDE DEF q, s
<1>4. Cardinality(Guards(s)) = Cardinality(Guards(p)) + Cardinality(Guards(q))
  BY <1>1, GuardsSplit
<1> QED
  BY <1>1, <1>3, <1>4 DEF s

LEMMA GuardsOfFront ==
    ASSUME NEW s \in Seq(Frame), s # <<>>
    PROVE  Cardinality(Guards(s)) =
              Cardinality(Guards(Front(s))) + (IF Last(s).work THEN 1 ELSE 0)
<1>1. Front(s) \in Seq(Frame) /\ Last(s) \in Frame
  BY FrontProperties
<1>2. s = Append(Front(s), Last(s))
  BY <1>1, FrontProperties
<1> QED
  BY <1>1, <1>2, GuardsOfPush

LEMMA LedgerFrame ==
    ASSUME NEW a, LedgerFits(a), UNCHANGED <<frames, workDepth, cpuActive>>,
           timer'.draining = timer.draining
    PROVE  LedgerFits(a)'
BY DEF LedgerFits, Open, OpenGuards, Top

\* A stack is replaced while the work stays as it is.
LEMMA LedgerStackMoves ==
    ASSUME TypeOK, NEW a \in Ledger, LedgerFits(a), NEW L \in States, NEW t \in Seq(Frame),
           frames' = [frames EXCEPT ![L] = t], UNCHANGED <<workDepth, cpuActive, timer>>,
           NEW n \in Nat, n + Cardinality(Guards(t)) <= a.spare + Cardinality(Guards(frames[L]))
    PROVE  LedgerFits(At(n, NoState, a.starting))'
<1>1. frames[L] \in Seq(Frame) /\ workDepth \in Nat
  BY DEF TypeOK
<1>2. /\ IsFiniteSet(Open') /\ Cardinality(Open) \in Nat /\ Cardinality(Open') \in Nat
      /\ Cardinality(Open') + Cardinality(Guards(frames[L])) =
            Cardinality(Open) + Cardinality(Guards(t))
  BY GuardsMove DEF LedgerFits
<1>3. Cardinality(Guards(frames[L])) \in Nat /\ Cardinality(Guards(t)) \in Nat
  BY <1>1, GuardsFinite
<1>4. workDepth >= Cardinality(Open) + a.spare /\ a.spare \in Nat /\ a.starting \in BOOLEAN
  BY LedgerIs DEF LedgerFits
<1>5. workDepth' >= Cardinality(Open') + n
  BY <1>1, <1>2, <1>3, <1>4
<1> DEFINE b == At(n, NoState, a.starting)
<1>6. b.spare = n /\ b.top = NoState /\ b.starting = a.starting
  BY DEF At
<1> HIDE DEF b
<1>7. LedgerFits(b)'
  BY <1>2, <1>5, <1>6 DEF LedgerFits
<1> QED
  BY <1>7 DEF b

LEMMA LedgerStack ==
    ASSUME TypeOK, NEW call \in Call, NEW rest \in Seq(Call), Ready(call), StackCall(call, rest),
           NEW a \in Ledger, NEW b \in Ledger, LedgerFits(a), LedgerStep(a, call, b)
    PROVE  LedgerFits(b)'
<1> DEFINE L == call.state
           s == frames[L]
<1>1. UNCHANGED <<timer, bridge>> /\ call.op \in StackOps
  BY StackCallDoes
<1>2. /\ L \in States /\ frames \in [States -> Seq(Frame)] /\ s \in Seq(Frame)
      /\ call.cfunction \in Functions \cup {NoFunction} /\ call.vm \in VmStates
  BY DEF TypeOK, Call
<1>3. a.spare \in Nat /\ b.spare \in Nat /\ Cardinality(Guards(s)) \in Nat
  BY <1>2, LedgerIs, GuardsFinite
<1>4. \A kind, f : Entered(L, kind, f) \in Frame => ~Entered(L, kind, f).work
  BY DEF Entered
<1>5. ASSUME PerformEnter(call, rest) PROVE LedgerFits(b)'
  <2>1. call.vm \in {"lua", "c", "gc"} /\ call.op = "enter"
    BY <1>2, <1>5 DEF Ready, PerformEnter, VmStates
  <2>2. EnterState(L, s, call.vm, call.cfunction, rest)
    BY <1>5 DEF PerformEnter
  <2> DEFINE x == Entered(L, call.vm, call.cfunction)
  <2>3. x \in Frame /\ frames' = [frames EXCEPT ![L] = Append(s, x)] /\ ~x.work
    <3>1. x \in Frame /\ frames' = [frames EXCEPT ![L] = Append(s, x)]
      BY <1>2, <2>1, <2>2, EnterDoes
    <3> QED
      BY <1>4, <3>1
  <2> HIDE DEF x
  <2>4. Append(s, x) \in Seq(Frame) /\ Cardinality(Guards(Append(s, x))) = Cardinality(Guards(s)) + 0
    BY <1>2, <2>3, GuardsOfPush
  <2>5. b = At(a.spare, NoState, a.starting)
    BY <2>1 DEF LedgerStep, LedgerOthers
  <2>6. a.spare + Cardinality(Guards(Append(s, x))) <= a.spare + Cardinality(Guards(s))
    BY <1>3, <2>4
  <2> HIDE DEF s
  <2> QED
    BY <1>1, <1>2, <1>3, <2>3, <2>4, <2>5, <2>6, LedgerStackMoves DEF bridge, s
<1>6. ASSUME PerformReenter(call, rest) PROVE LedgerFits(b)'
  <2>1. call.op = "reenter" /\ s # <<>>
    BY <1>6 DEF Ready, PerformReenter
  <2>2. /\ Front(s) \in Seq(Frame) /\ Top(L) \in Frame /\ Top(L).vm \in {"lua", "c", "gc"}
        /\ Top(L).cfunction \in Functions \cup {NoFunction} /\ Last(s).work \in BOOLEAN
    <3>1. Front(s) \in Seq(Frame) /\ Last(s) \in Frame
      BY <1>2, <2>1, FrontProperties
    <3> QED
      BY <3>1 DEF Top, Frame
  <2>3. EnterState(L, Front(s), Top(L).vm, Top(L).cfunction, rest)
    BY <1>6 DEF PerformReenter
  <2> DEFINE x == Entered(L, Top(L).vm, Top(L).cfunction)
             t == Append(Front(s), x)
  <2>4. x \in Frame /\ frames' = [frames EXCEPT ![L] = t] /\ ~x.work
    BY <1>2, <1>4, <2>2, <2>3, EnterDoes
  <2> HIDE DEF x
  <2>5. t \in Seq(Frame) /\ Cardinality(Guards(t)) = Cardinality(Guards(Front(s))) + 0
    BY <2>2, <2>4, GuardsOfPush
  <2>6. Cardinality(Guards(s)) = Cardinality(Guards(Front(s))) + (IF Last(s).work THEN 1 ELSE 0)
    BY <1>2, <2>1, GuardsOfFront
  <2>7. b = At(a.spare, NoState, a.starting)
    BY <2>1 DEF LedgerStep, LedgerOthers
  <2>8. Cardinality(Guards(Front(s))) \in Nat
    BY <2>2, GuardsFinite
  <2>9. a.spare + Cardinality(Guards(t)) <= a.spare + Cardinality(Guards(s))
    BY <1>3, <2>2, <2>5, <2>6, <2>8
  <2> HIDE DEF s, t
  <2> QED
    BY <1>1, <1>2, <1>3, <2>4, <2>5, <2>7, <2>9, LedgerStackMoves DEF bridge, s
<1>7. ASSUME PerformLeave(call, rest) PROVE LedgerFits(b)'
  <2>1. call.op = "leave" /\ s # <<>>
    BY <1>7 DEF Ready, PerformLeave
  <2>2. Front(s) \in Seq(Frame) /\ frames' = [frames EXCEPT ![L] = Front(s)]
    BY <1>7, <2>1, LeaveDoes
  <2>3. Cardinality(Guards(s)) = Cardinality(Guards(Front(s))) + (IF Last(s).work THEN 1 ELSE 0)
    BY <1>2, <2>1, GuardsOfFront
  <2>4. Cardinality(Guards(Front(s))) \in Nat
    BY <2>2, GuardsFinite
  <2>5. b = At(IF a.top = L THEN a.spare + 1 ELSE a.spare, NoState, a.starting)
    BY <2>1 DEF LedgerStep, LedgerOthers
  <2>6. a.top = L => Last(s).work
    BY <1>2, NullAssumption DEF LedgerFits, Top
  <2>7. b.spare = IF a.top = L THEN a.spare + 1 ELSE a.spare
    BY <2>5 DEF At
  <2>8. b.spare + Cardinality(Guards(Front(s))) <= a.spare + Cardinality(Guards(s))
    BY <1>3, <2>3, <2>4, <2>6, <2>7
  <2>9. b = At(b.spare, NoState, a.starting)
    BY <2>5, <2>7
  <2> HIDE DEF s
  <2>10. LedgerFits(At(b.spare, NoState, a.starting))'
    BY <1>1, <1>2, <1>3, <2>2, <2>8, LedgerStackMoves DEF bridge, s
  <2> QED
    BY <2>9, <2>10
<1>8. ASSUME PerformPublish(call, rest) \/ PerformSync(call, rest) \/ PerformHost(call, rest)
      PROVE  LedgerFits(b)'
  BY <1>8, <1>1, LedgerFrame DEF PerformPublish, PerformSync, PerformHost, vm, LedgerStep,
     LedgerOthers, bridge
<1> QED
  BY <1>5, <1>6, <1>7, <1>8 DEF StackCall

\* The guard of a function of the module is put on the innermost frame.
LEMMA LedgerGuard ==
    ASSUME TypeOK, NEW call \in Call, NEW rest \in Seq(Call), call.op = "guard", Ready(call),
           PerformBegin(call, rest), NEW a \in Ledger, NEW b \in Ledger, LedgerFits(a),
           LedgerStep(a, call, b)
    PROVE  LedgerFits(b)'
<1> DEFINE L == call.state
           s == frames[L]
           n == Len(s)
<1>1. L \in States /\ frames \in [States -> Seq(Frame)] /\ s \in Seq(Frame) /\ workDepth \in Nat
      /\ s # <<>> /\ timer \in Timer
  BY DEF TypeOK, Call, Ready
<1>2. PICK t \in Seq(Frame) : /\ frames' = [frames EXCEPT ![L] = t]
                              /\ Len(t) = n /\ n \in Nat \ {0} /\ t[n].work
                              /\ \A i \in 1 .. n - 1 : t[i] = s[i]
  BY <1>1, GuardDoes
<1>3. /\ workDepth' = workDepth + 1 /\ cpuActive' = cpuActive
      /\ timer' = IF workDepth = 0 /\ cpuActive THEN BeginDrain(timer) ELSE timer
  BY DEF PerformBegin
<1>4. Cardinality(Guards(t)) <= Cardinality(Guards(s)) + 1
  <2>1. /\ IsFiniteSet(Guards(s)) /\ Cardinality(Guards(s)) \in Nat
        /\ IsFiniteSet(Guards(t)) /\ Cardinality(Guards(t)) \in Nat
    BY <1>1, GuardsFinite
  <2>2. Guards(t) \in SUBSET (Guards(s) \cup {n})
    <3>1. DOMAIN t = 1 .. n /\ DOMAIN s = 1 .. n
      BY <1>1, <1>2
    <3>2. \A i \in 1 .. n : i = n \/ i \in 1 .. n - 1
      BY <1>2
    <3> HIDE DEF s, n
    <3> QED
      BY <1>2, <3>1, <3>2 DEF Guards
  <2> HIDE DEF s, n
  <2>3. /\ IsFiniteSet(Guards(s) \cup {n})
        /\ Cardinality(Guards(s) \cup {n}) = IF n \in Guards(s) THEN Cardinality(Guards(s))
                                              ELSE Cardinality(Guards(s)) + 1
    BY <2>1, FS_AddElement
  <2>4. Cardinality(Guards(t)) <= Cardinality(Guards(s) \cup {n})
    BY <2>2, <2>3, FS_Subset
  <2> QED
    BY <2>1, <2>3, <2>4
<1>5. /\ IsFiniteSet(Open') /\ Cardinality(Open) \in Nat /\ Cardinality(Open') \in Nat
      /\ Cardinality(Open') + Cardinality(Guards(s)) = Cardinality(Open) + Cardinality(Guards(t))
  BY <1>1, <1>2, GuardsMove DEF LedgerFits
<1>6. Cardinality(Guards(s)) \in Nat /\ Cardinality(Guards(t)) \in Nat
  BY <1>1, GuardsFinite
<1>7. /\ b.top \in {L, NoState} /\ b.spare = a.spare /\ b.starting = a.starting /\ a.spare \in Nat
  BY LedgerIs DEF LedgerStep, LedgerOthers, At
<1>8. workDepth' >= Cardinality(Open') + b.spare
  <2>1. workDepth >= Cardinality(Open) + a.spare
    BY DEF LedgerFits
  <2> HIDE DEF s
  <2> QED
    BY <1>1, <1>3, <1>4, <1>5, <1>6, <1>7, <2>1
<1>9. frames'[L] = t /\ t # <<>> /\ Last(t).work
  BY <1>1, <1>2 DEF Last
<1>10. /\ cpuActive' /\ workDepth' > 0 => timer'.draining
       /\ cpuActive' /\ timer'.draining => workDepth' > 0
  BY <1>1, CountsKept, <1>3 DEF LedgerFits
<1>11. b.top # NoState => frames'[b.top] # <<>> /\ Last(frames'[b.top]).work
  BY <1>7, <1>9
<1> HIDE DEF s, n, L
<1> QED
  BY <1>5, <1>8, <1>10, <1>11 DEF LedgerFits, Top

\* The bridge opens and closes work without a frame.
LEMMA LedgerWork ==
    ASSUME TypeOK, NEW call \in Call, NEW rest \in Seq(Call),
           \/ call.op = "begin" /\ PerformBegin(call, rest)
           \/ PerformEnd(call, rest),
           NEW a \in Ledger, NEW b \in Ledger, LedgerFits(a), LedgerStep(a, call, b)
    PROVE  LedgerFits(b)'
<1>1. workDepth \in Nat /\ timer \in Timer /\ a.spare \in Nat /\ b.spare \in Nat
      /\ Cardinality(Open) \in Nat
  BY LedgerIs, FS_CardinalityType DEF TypeOK, LedgerFits
<1>2. Open' = Open /\ cpuActive' = cpuActive /\ frames' = frames
  BY DEF PerformBegin, PerformEnd, Open, OpenGuards, vm
<1>3. BeginDrain(timer).draining /\ ~EndDrain(timer).draining
  BY <1>1, CountsKept
<1>4. CASE call.op = "begin" /\ PerformBegin(call, rest)
  BY <1>4, <1>1, <1>2, <1>3 DEF LedgerStep, LedgerOthers, At, PerformBegin, LedgerFits, Top
<1>5. CASE PerformEnd(call, rest)
  <2>1. a.spare = b.spare + 1 /\ b.top = a.top /\ b.starting = a.starting
    BY <1>5 DEF LedgerStep, LedgerOthers, At, PerformEnd
  <2>2. /\ workDepth' = IF workDepth = 0 THEN 0 ELSE workDepth - 1
        /\ timer' = IF workDepth = 1 /\ cpuActive THEN EndDrain(timer) ELSE timer
    BY <1>5 DEF PerformEnd
  <2> QED
    BY <1>1, <1>2, <1>3, <2>1, <2>2 DEF LedgerFits, Top
<1> QED
  BY <1>4, <1>5

LEMMA LedgerPerform ==
    ASSUME TypeOK, todo # <<>>, Ready(Head(todo)), Staged, LedgerInv, Perform \/ Disarm
    PROVE  LedgerInv'
<1> DEFINE call == Head(todo)
           rest == Tail(todo)
<1>1. /\ call \in Call /\ rest \in Seq(Call) /\ timer \in Timer /\ workDepth \in Nat
      /\ call.state \in States /\ todo \in Seq(Call)
  <2>1. todo \in Seq(Call) /\ timer \in Timer /\ workDepth \in Nat
    BY DEF TypeOK
  <2>2. call \in Call /\ rest \in Seq(Call)
    BY <2>1, TailProperties
  <2> QED
    BY <2>1, <2>2 DEF Call
<1>2. PICK a, e \in Ledger : LedgerFits(a) /\ Run(LedgerSteps, todo, a, e) /\ ~e.starting
  BY DEF LedgerInv
<1>3. PICK b \in Ledger : LedgerStep(a, call, b) /\ Run(LedgerSteps, rest, b, e)
  <2>1. PICK b : <<a, call, b>> \in LedgerSteps /\ Run(LedgerSteps, rest, b, e)
    BY <1>1, <1>2, RunHead
  <2> QED
    BY <2>1 DEF LedgerSteps
<1>4. Ready(call) /\ (call.op = "delete" => ~cpuActive)
  <2>1. PICK x \in Stages, y \in Stages : StageFits(x) /\ StageStep(x, call, y)
    BY StageAt
  <2>2. call.op = "delete" => x = "unhooked"
    BY <2>1 DEF StageStep, StageEdges, Neutral, VmOps, Handovers
  <2> QED
    BY <2>1, <2>2 DEF StageFits
<1>5. \/ StackCall(call, rest) \/ PerformHooks(call, rest) \/ PerformFree(call, rest)
      \/ PerformBegin(call, rest) \/ PerformEnd(call, rest)
      \/ PerformPublishSlot(call, rest) \/ PerformDrain(call, rest)
      \/ PerformQuality(call, rest) \/ PerformActivate(call, rest)
      \/ PerformArm(call, rest) \/ PerformRelease(call, rest)
      \/ PerformDeactivate(call, rest) \/ PerformDelete(call, rest)
      \/ PerformFinish(call, rest) \/ PerformMemory(call, rest)
      \/ PerformAllocate(call, rest) \/ PerformDisarm(call, rest)
  BY DEF Perform, Disarm, StackCall
<1> HIDE DEF call, rest
<1>6. ASSUME NEW ins \in Seq(Call), todo' = ins \o rest, NEW x \in Ledger,
             Run(LedgerSteps, ins, x, b), LedgerFits(x)'
      PROVE  LedgerInv'
  BY <1>1, <1>3, <1>6, RunCat, <1>2 DEF LedgerInv
<1>7. ASSUME todo' = rest, LedgerFits(b)' PROVE LedgerInv'
  BY <1>2, <1>3, <1>7 DEF LedgerInv
<1>8. call.op \in LedgerOthers => b = a
  BY <1>3 DEF LedgerStep, LedgerOthers
<1>9. \A op \in Ops : Do(op, call.state) \in Call /\ Do(op, call.state).op = op
  BY <1>1, CallTypes DEF Do
<1>10. CASE StackCall(call, rest)
  <2>1. LedgerFits(b)'
    BY <1>1, <1>2, <1>3, <1>4, <1>10, LedgerStack
  <2>2. \/ Quiet(rest)
        \/ \E kind \in VmStates, f \in Functions \cup {NoFunction} :
             Publish(call.state, kind, f, rest)
    BY <1>1, <1>4, <1>10, StackCallDoes
  <2>3. ASSUME NEW kind \in VmStates, NEW f \in Functions \cup {NoFunction},
               Publish(call.state, kind, f, rest)
        PROVE  LedgerInv'
    <3>1. todo' = rest \/ todo' = StateChange(call.state, kind, f) \o rest
      BY <1>1, <2>3, PublishDoes
    <3>2. StateChange(call.state, kind, f) \in Seq(Call)
      BY <1>1, StateChangeTypes
    <3>3. Run(LedgerSteps, StateChange(call.state, kind, f), b, b)
      BY <1>1, LedgerInserts
    <3> QED
      BY <1>6, <1>7, <2>1, <3>1, <3>2, <3>3
  <2> QED
    BY <1>7, <2>1, <2>2, <2>3 DEF Quiet
<1>11. CASE PerformHooks(call, rest)
  <2>1. /\ call.op = "hooks" /\ todo' = <<Do("sync", call.state)>> \o rest
        /\ UNCHANGED <<frames, workDepth, cpuActive, timer>>
    BY <1>11 DEF PerformHooks, vm, bridge
  <2>2. b = a /\ "sync" \in LedgerOthers /\ "sync" \in Ops
    BY <1>8, <2>1 DEF LedgerOthers, Ops
  <2>3. LedgerFits(b)'
    BY <1>2, <2>1, <2>2, LedgerFrame
  <2>4. <<b, Do("sync", call.state), b>> \in LedgerSteps
    BY <1>9, <2>2 DEF LedgerSteps, LedgerStep
  <2>5. /\ Run(LedgerSteps, <<Do("sync", call.state)>>, b, b)
        /\ <<Do("sync", call.state)>> \in Seq(Call)
    BY <1>9, <2>2, <2>4, Run1
  <2> QED
    BY <1>6, <2>1, <2>3, <2>5
<1>12. CASE PerformFree(call, rest)
  <2>1. /\ call.op = "free" /\ todo' = rest /\ frames' = [frames EXCEPT ![call.state] = <<>>]
        /\ UNCHANGED <<workDepth, cpuActive, timer>>
    BY <1>12 DEF PerformFree, bridge
  <2>2. b = At(a.spare, NoState, a.starting) /\ a.spare \in Nat
    BY <1>3, <2>1, LedgerIs DEF LedgerStep, LedgerOthers
  <2>3. <<>> \in Seq(Frame) /\ Cardinality(Guards(<<>>)) = 0
    BY FS_EmptySet DEF Guards
  <2>4. Cardinality(Guards(frames[call.state])) \in Nat
    BY <1>1, GuardsFinite DEF TypeOK
  <2>5. a.spare + Cardinality(Guards(<<>>)) <= a.spare + Cardinality(Guards(frames[call.state]))
    BY <2>2, <2>3, <2>4
  <2>6. LedgerFits(At(a.spare, NoState, a.starting))'
    BY <1>1, <1>2, <2>1, <2>2, <2>3, <2>5, LedgerStackMoves
  <2> QED
    BY <1>7, <2>1, <2>2, <2>6
<1>13. CASE PerformBegin(call, rest) \/ PerformEnd(call, rest)
  BY <1>13, <1>1, <1>2, <1>3, <1>4, LedgerGuard, LedgerWork, <1>7 DEF PerformBegin,
     PerformEnd
<1>14. CASE \/ PerformPublishSlot(call, rest) \/ PerformQuality(call, rest)
            \/ PerformDrain(call, rest) \/ PerformFinish(call, rest) \/ PerformMemory(call, rest)
            \/ PerformDisarm(call, rest)
  <2>1. call.op \in LedgerOthers /\ UNCHANGED <<frames, workDepth, cpuActive>>
    BY <1>14 DEF PerformPublishSlot, PerformQuality, PerformDrain, PerformFinish, PerformMemory,
       PerformDisarm, LedgerOthers, Ops, vm, bridge
  <2>2. timer'.draining = timer.draining
    <3>1. CASE PerformPublishSlot(call, rest)
      BY <1>1, <3>1, CountsKept DEF Call, Slot, PerformPublishSlot
    <3>2. CASE PerformQuality(call, rest) \/ PerformDrain(call, rest)
      BY <1>1, <3>2, CountsKept DEF PerformQuality, PerformDrain
    <3>3. CASE PerformFinish(call, rest) \/ PerformMemory(call, rest)
      BY <3>3 DEF PerformFinish, PerformMemory
    <3>4. CASE PerformDisarm(call, rest)
      <4> DEFINE x == [timer EXCEPT !.active = FALSE]
      <4>1. x \in Timer /\ x.draining = timer.draining
        BY <1>1, CountsKept, TimerTypes
      <4>2. timer' = x \/ \E overrun \in 0 .. MaxOverrun : timer' = Discard(x, overrun)
        BY <3>4 DEF PerformDisarm
      <4> HIDE DEF x
      <4>3. ASSUME NEW overrun \in Nat PROVE Discard(x, overrun).draining = x.draining
        BY <4>1, DiscardCounts DEF Counted
      <4>4. 0 .. MaxOverrun \subseteq Nat
        BY BoundsAssumption
      <4> QED
        BY <4>1, <4>2, <4>3, <4>4
    <3> QED
      BY <1>14, <3>1, <3>2, <3>3, <3>4
  <2>3. LedgerFits(a)'
    BY <1>2, <2>1, <2>2, LedgerFrame
  <2>4. todo' = rest \/ todo' = todo
    BY <1>14 DEF PerformPublishSlot, PerformQuality, PerformDrain, PerformFinish, PerformMemory,
       PerformDisarm
  <2>5. CASE todo' = todo
    BY <1>2, <2>3, <2>5 DEF LedgerInv
  <2> QED
    BY <1>7, <1>8, <2>1, <2>3, <2>4, <2>5
<1>15. CASE \/ PerformActivate(call, rest) \/ PerformRelease(call, rest)
            \/ PerformDeactivate(call, rest) \/ PerformDelete(call, rest)
  <2>1. todo' = rest /\ UNCHANGED <<frames, workDepth>>
    BY <1>15 DEF PerformActivate, PerformRelease, PerformDeactivate, PerformDelete, vm, bridge
  <2>2. Open' = Open
    BY <2>1 DEF Open, OpenGuards
  <2>3. CASE PerformActivate(call, rest)
    BY <2>3, <1>3, <1>2, <2>1, <2>2, <1>7 DEF PerformActivate, NewTimer, LedgerStep,
       LedgerOthers, At, LedgerFits, Top
  <2>4. CASE PerformRelease(call, rest)
    <3>1. /\ call.op = "release" /\ cpuActive' = cpuActive
          /\ timer' = IF workDepth = 0 THEN EndDrain(timer) ELSE timer
      BY <2>4 DEF PerformRelease, bridge
    <3>2. b.spare = a.spare /\ b.top = a.top /\ ~EndDrain(timer).draining
      BY <1>1, <1>3, <3>1, CountsKept DEF LedgerStep, LedgerOthers, At
    <3>3. LedgerFits(b)'
      BY <1>1, <1>2, <2>1, <2>2, <3>1, <3>2 DEF LedgerFits, Top
    <3> QED
      BY <1>7, <2>1, <3>3
  <2>5. CASE PerformDeactivate(call, rest) \/ PerformDelete(call, rest)
    BY <1>4, <2>5, <1>8, <1>2, <2>1, <2>2, <1>7 DEF PerformDeactivate, PerformDelete,
       bridge, LedgerOthers, Ops, LedgerFits, Top
  <2> QED
    BY <1>15, <2>3, <2>4, <2>5
<1>16. CASE PerformArm(call, rest)
  <2>1. call.op = "arm" /\ UNCHANGED <<frames, workDepth>>
    BY <1>16 DEF PerformArm, vm
  <2>2. /\ b = At(a.spare, a.top, FALSE) /\ b.spare = a.spare /\ b.top = a.top
        /\ a.spare \in Nat /\ a.top \in States \cup {NoState}
    BY <1>3, <2>1, LedgerIs DEF LedgerStep, LedgerOthers, At
  <2>3. Open' = Open
    BY <2>1 DEF Open, OpenGuards
  <2>4. {"release", "hooks", "delete", "finish"} \subseteq Ops
        /\ {"hooks", "delete", "finish"} \subseteq LedgerOthers
    BY DEF Ops, LedgerOthers
  <2>5. CASE /\ timer' = [timer EXCEPT !.active = TRUE] /\ cpuActive' = cpuActive
             /\ todo' = <<Do("release", call.state)>> \o rest
    <3> DEFINE x == At(a.spare, a.top, TRUE)
    <3>1. x \in Ledger /\ x.spare = a.spare /\ x.top = a.top /\ x.starting
      BY <2>2, AtIs
    <3>2. timer'.draining = timer.draining
      BY <1>1, <2>5, CountsKept
    <3>3. <<x, Do("release", call.state), b>> \in LedgerSteps
      BY <1>1, <2>2, LedgerMoves
    <3> HIDE DEF x
    <3>4. LedgerFits(x)'
      BY <1>2, <2>1, <2>3, <2>5, <3>1, <3>2 DEF LedgerFits, Top
    <3>5. <<Do("release", call.state)>> \in Seq(Call)
      BY <1>9, <2>4
    <3> QED
      BY <1>6, <2>5, <3>1, <3>3, <3>4, <3>5, Run1
  <2>6. CASE /\ cpuActive' = FALSE /\ timer' = timer
             /\ todo' = <<Do("hooks", call.state), Do("delete", call.state),
                          Do("finish", call.state)>> \o rest
    <3>1. LedgerFits(b)'
      BY <1>2, <2>1, <2>2, <2>3, <2>6 DEF LedgerFits, Top
    <3>2. \A op \in {"hooks", "delete", "finish"} : <<b, Do(op, call.state), b>> \in LedgerSteps
      <4>1. \A c \in Call : c.op \in LedgerOthers => <<b, c, b>> \in LedgerSteps
        BY DEF LedgerSteps, LedgerStep
      <4> QED
        BY <1>9, <2>4, <4>1
    <3>3. Run(LedgerSteps, <<Do("hooks", call.state), Do("delete", call.state),
                             Do("finish", call.state)>>, b, b)
      BY <3>2, Run3
    <3>4. <<Do("hooks", call.state), Do("delete", call.state), Do("finish", call.state)>>
            \in Seq(Call)
      BY <1>9, <2>4
    <3> QED
      BY <1>6, <2>6, <3>1, <3>3, <3>4
  <2> QED
    BY <1>16, <2>5, <2>6 DEF PerformArm
<1>17. CASE PerformAllocate(call, rest)
  <2> DEFINE ins == <<Do("begin", Main), Do("end", Main)>>
  <2>1. /\ call.op = "allocate" /\ UNCHANGED <<frames, workDepth, cpuActive, timer>>
        /\ todo' = (IF hooks.memory /\ workDepth = 0 THEN ins ELSE <<>>) \o rest
    BY <1>17 DEF PerformAllocate, vm, bridge
  <2>2. b = a
    BY <1>8, <2>1 DEF LedgerOthers, Ops
  <2>3. LedgerFits(b)'
    BY <1>2, <2>1, <2>2, LedgerFrame
  <2>4. ins \in Seq(Call) /\ Run(LedgerSteps, ins, b, b)
    BY HandoverTypes, LedgerInserts
  <2> HIDE DEF ins
  <2>5. todo' = ins \o rest \/ todo' = rest
    BY <1>1, <2>1, CatProperties
  <2> QED
    BY <1>6, <1>7, <2>3, <2>4, <2>5
<1> QED
  BY <1>5, <1>10, <1>11, <1>12, <1>13, <1>14, <1>15, <1>16, <1>17

LEMMA LedgerTick ==
    ASSUME TypeOK, Staged, LedgerInv, NEW overrun \in 0 .. MaxOverrun, Tick(overrun)
    PROVE  LedgerInv'
<1>1. timer'.draining = timer.draining
  <2>1. timer.active /\ timer \in Timer /\ overrun \in Nat /\ timer' = Handle(timer, overrun)
    BY ArmedRecords, BoundsAssumption DEF Tick, TypeOK
  <2> QED
    BY <2>1, HandleCounts DEF Counted
<1>2. UNCHANGED <<frames, workDepth, cpuActive, todo>>
  BY DEF Tick, vm, bridge
<1>3. \A a : LedgerFits(a) => LedgerFits(a)'
  BY <1>1, <1>2, LedgerFrame
<1> QED
  BY <1>2, <1>3 DEF LedgerInv

\* An idle VM: every piece of work that is open is a guard on a stack.
Even == At(0, NoState, FALSE)

LEMMA LedgerIdle == ASSUME TypeOK, LedgerInv, todo = <<>> PROVE LedgerFits(Even) /\ Even \in Ledger
<1>1. PICK a, e \in Ledger : LedgerFits(a) /\ Run(LedgerSteps, todo, a, e) /\ ~e.starting
  BY DEF LedgerInv
<1>2. a = e
  BY <1>1, RunEmpty
<1>3. Even \in Ledger /\ Even.spare = 0 /\ Even.top = NoState /\ Even.starting = FALSE
  BY AtIs DEF Even
<1>4. workDepth \in Nat /\ Cardinality(Open) \in Nat /\ a.spare \in Nat
  BY <1>1, FS_CardinalityType, LedgerIs DEF LedgerFits, TypeOK
<1>5. workDepth >= Cardinality(Open) + a.spare
  BY <1>1 DEF LedgerFits
<1>6. workDepth >= Cardinality(Open) + 0
  BY <1>4, <1>5
<1> HIDE DEF Even
<1> QED
  BY <1>1, <1>2, <1>3, <1>6 DEF LedgerFits

\* A way to go on: n guards leave a stack whose work the calls in todo end.
LEMMA LedgerStart ==
    ASSUME TypeOK, LedgerInv, Application, NEW L \in States, NEW t \in Seq(Frame),
           frames' = [frames EXCEPT ![L] = t], NEW n \in Nat,
           n + Cardinality(Guards(t)) <= Cardinality(Guards(frames[L])),
           Run(LedgerSteps, todo', At(n, NoState, FALSE), Even)
    PROVE  LedgerInv'
<1>1. LedgerFits(Even) /\ Even \in Ledger /\ UNCHANGED <<workDepth, cpuActive, timer>>
  BY ApplicationFrame, LedgerIdle DEF Idle, bridge
<1>2. Even.spare = 0 /\ ~Even.starting /\ Even.starting = FALSE
  BY AtIs DEF Even
<1>3. n + Cardinality(Guards(t)) <= Even.spare + Cardinality(Guards(frames[L]))
  BY GuardsFinite, <1>2 DEF TypeOK
<1> HIDE DEF Even
<1>4. LedgerFits(At(n, NoState, Even.starting))'
  BY <1>1, <1>3, LedgerStackMoves
<1>5. LedgerFits(At(n, NoState, FALSE))'
  BY <1>2, <1>4
<1>6. At(n, NoState, FALSE) \in Ledger
  BY AtIs
<1> QED
  BY <1>1, <1>2, <1>5, <1>6 DEF LedgerInv

\* The same when no stack changes.
LEMMA LedgerGoesOn ==
    ASSUME TypeOK, LedgerInv, Application, frames' = frames, Run(LedgerSteps, todo', Even, Even)
    PROVE  LedgerInv'
<1>1. Main \in States /\ frames[Main] \in Seq(Frame) /\ frames' = [frames EXCEPT ![Main] = frames[Main]]
  BY MainAssumption DEF TypeOK
<1>2. Cardinality(Guards(frames[Main])) \in Nat
  BY <1>1, GuardsFinite
<1>3. 0 + Cardinality(Guards(frames[Main])) <= Cardinality(Guards(frames[Main]))
  BY <1>2
<1> QED
  BY <1>1, <1>3, LedgerStart DEF Even

\* Calls of the VM that open and close no work.
LEMMA CalmSteps ==
    ASSUME NEW n \in Nat, NEW s \in Seq(CalmCall)
    PROVE  Run(LedgerSteps, s, At(n, NoState, FALSE), At(n, NoState, FALSE))
<1> DEFINE a == At(n, NoState, FALSE)
<1>1. a \in Ledger /\ a.spare = n /\ a.top = NoState /\ a = At(a.spare, NoState, a.starting)
  BY ZenonT(60), AtIs
<1> HIDE DEF a
<1>2. ASSUME NEW c \in CalmCall PROVE <<a, c, a>> \in LedgerSteps
  <2>1. c \in Call /\ c.op \in CalmOps /\ c.state \in States
    BY DEF CalmCall, Call
  <2>2. LedgerStep(a, c, a)
    <3>1. CASE c.op \in {"guard", "leave", "enter", "reenter", "free"}
      BY <1>1, <2>1, <3>1, NullAssumption DEF LedgerStep
    <3>2. CASE c.op \notin {"guard", "leave", "enter", "reenter", "free"}
      BY <2>1, <3>2 DEF LedgerStep, LedgerOthers, CalmOps, VmOps, Ops
    <3> QED
      BY <3>1, <3>2
  <2> QED
    BY <1>1, <2>1, <2>2 DEF LedgerSteps
<1> QED
  BY <1>2, RunSteady DEF a

\* The guards of a piece of a stack that is unwound.
LEMMA UnwindLedger ==
    ASSUME NEW L \in States, NEW stack \in Seq(Frame), NEW k, k = Cardinality(Guards(stack))
    PROVE  /\ CloseGuards(L, stack) \in Seq(Call) /\ k \in Nat
           /\ Run(LedgerSteps, CloseGuards(L, stack), At(k, NoState, FALSE), Even)
<1>1. k \in Nat
  BY GuardsFinite
<1> DEFINE P == [i \in 0 .. k |-> At(k - i, NoState, FALSE)]
           R == [i \in 0 .. k - 1 |-> At(k - i - 1, NoState, FALSE)]
<1>2. ASSUME NEW i \in 0 .. k - 1
      PROVE  /\ <<P[i], DoAs("enter", L, "c", GuardClose), P[i]>> \in LedgerSteps
             /\ <<P[i], Do("end", L), R[i]>> \in LedgerSteps
             /\ <<R[i], Do("leave", L), P[i + 1]>> \in LedgerSteps
  <2> DEFINE n == k - i - 1
             x == At(n + 1, NoState, FALSE)
             y == At(n, NoState, FALSE)
  <2>1. n \in Nat /\ n + 1 \in Nat /\ k - i = n + 1 /\ k - (i + 1) = n /\ i \in 0 .. k /\ i + 1 \in 0 .. k
    BY <1>1
  <2>2. P[i] = x /\ R[i] = y /\ P[i + 1] = y
    BY <2>1
  <2> HIDE DEF n, P, R
  <2>3. /\ <<x, DoAs("enter", L, "c", GuardClose), x>> \in LedgerSteps
        /\ <<x, Do("end", L), y>> \in LedgerSteps /\ <<y, Do("leave", L), y>> \in LedgerSteps
    BY <2>1, LedgerMoves, FunctionFacts
  <2> QED
    BY <2>2, <2>3
<1>3. P[0] = At(k, NoState, FALSE) /\ P[k] = Even
  BY <1>1 DEF Even
<1> HIDE DEF P, R
<1>4. Run(LedgerSteps, CloseGuards(L, stack), P[0], P[k])
  BY <1>2, CloseGuardsRun
<1>5. /\ DoAs("enter", L, "c", GuardClose) \in Call /\ Do("end", L) \in Call /\ Do("leave", L) \in Call
  BY CallTypes, FunctionFacts DEF Ops
<1> QED
  BY <1>1, <1>3, <1>4, <1>5, CloseGuardsWithin

LEMMA NoGuards == <<>> \in Seq(Frame) /\ Cardinality(Guards(<<>>)) = 0 /\ Guards(<<>>) = {}
BY FS_EmptySet DEF Guards

LEMMA DetachedGuards == ASSUME NEW s \in Seq(Frame) PROVE Guards(Detach(s)) = Guards(s)
<1>1. /\ DOMAIN s = 1 .. Len(s) /\ DOMAIN Detach(s) = 1 .. Len(s)
      /\ \A i \in 1 .. Len(s) : Detach(s)[i] = [s[i] EXCEPT !.attached = FALSE] /\ s[i] \in Frame
  <2>1. DOMAIN s = 1 .. Len(s) /\ DOMAIN Detach(s) = DOMAIN s
    BY DEF Detach
  <2> QED
    BY <2>1, DetachDoes, ElementOf
<1>2. \A i \in 1 .. Len(s) : Detach(s)[i].work = s[i].work
  BY <1>1 DEF Frame
<1> QED
  BY <1>1, <1>2 DEF Guards

LEMMA LedgerCalm == ASSUME TypeOK, LedgerInv, Application, CalmAction PROVE LedgerInv'
<1>1. todo' \in Seq(CalmCall)
  BY CalmTodo
<1>2. Run(LedgerSteps, todo', Even, Even)
  BY <1>1, CalmSteps DEF Even
<1>3. \/ frames' = frames
      \/ \E co \in States : frames' = [frames EXCEPT ![co] = <<>>]
      \/ frames' = [frames EXCEPT ![Running] = Detach(frames[Running])]
  BY DEF CalmAction, HostCall, CallLua, CallC, Return, YieldCoroutine, Allocate, Create,
     ResumeCoroutine, Collect, vm
<1>4. ASSUME NEW co \in States, NEW t \in Seq(Frame), frames' = [frames EXCEPT ![co] = t],
             Cardinality(Guards(t)) \in {0, Cardinality(Guards(frames[co]))}
      PROVE  LedgerInv'
  <2>1. Cardinality(Guards(frames[co])) \in Nat
    BY GuardsFinite DEF TypeOK
  <2>2. 0 + Cardinality(Guards(t)) <= Cardinality(Guards(frames[co]))
    BY <1>4, <2>1
  <2> QED
    BY <1>2, <1>4, <2>2, LedgerStart DEF Even
<1>5. Running \in States /\ frames[Running] \in Seq(Frame)
  BY ChainStates DEF TypeOK
<1>6. /\ Detach(frames[Running]) \in Seq(Frame)
      /\ Guards(Detach(frames[Running])) = Guards(frames[Running])
  BY <1>5, DetachDoes, DetachedGuards
<1> QED
  BY <1>2, <1>3, <1>4, <1>5, <1>6, NoGuards, LedgerGoesOn

LEMMA LedgerSafePoint == ASSUME TypeOK, LedgerInv, Application, SafePoint PROVE LedgerInv'
<1> DEFINE x == At(1, NoState, FALSE)
<1>1. /\ <<Even, Do("begin", Main), x>> \in LedgerSteps /\ <<x, Do("end", Main), Even>> \in LedgerSteps
      /\ x \in Ledger
  BY MainAssumption, LedgerMoves, AtIs, 0 + 1 = 1 DEF Even
<1> HIDE DEF x
<1>2. \A c \in Call : c.op \in LedgerOthers => <<x, c, x>> \in LedgerSteps
  BY <1>1 DEF LedgerSteps, LedgerStep
<1>3. <<x, Do("drain", Main), x>> \in LedgerSteps /\ <<x, Do("quality", Main), x>> \in LedgerSteps
  BY <1>2, HandoverTypes DEF Do, LedgerOthers, Ops
<1>4. Run(LedgerSteps, <<Do("begin", Main), Do("drain", Main), Do("quality", Main),
                         Do("end", Main)>>, Even, Even)
  BY <1>1, <1>3, Run4
<1> QED
  BY <1>4, LedgerGoesOn DEF SafePoint, vm

LEMMA LedgerThrow == ASSUME TypeOK, LedgerInv, Application, Throw PROVE LedgerInv'
<1> DEFINE L == Running
           from == Front(chain)
           unwound == Unwound(L)
           k == Cardinality(Guards(unwound))
<1>1. L \in States /\ frames \in [States -> Seq(Frame)] /\ frames[L] \in Seq(Frame)
      /\ (chain # <<>> /\ from # <<>> => Last(from) \in States)
  BY ChainStates DEF TypeOK
<1>2. /\ Kept(L) \in Seq(Frame) /\ unwound \in Seq(Frame) /\ Len(frames[L]) = Len(Kept(L)) + Len(unwound)
      /\ \A i \in 1 .. Len(Kept(L)) : frames[L][i].work = Kept(L)[i].work
      /\ \A i \in 1 .. Len(unwound) : frames[L][Len(Kept(L)) + i].work = unwound[i].work
  <2> DEFINE n == Catcher(L)
  <2>1. /\ n \in 0 .. Len(frames[L]) /\ Len(frames[L]) \in Nat /\ Kept(L) \in Seq(Frame)
        /\ Len(Kept(L)) = n /\ unwound \in Seq(Frame) /\ Len(unwound) = Len(frames[L]) - n
        /\ \A i \in 1 .. n : Kept(L)[i] = frames[L][i]
        /\ \A i \in 1 .. Len(frames[L]) - n : unwound[i] = frames[L][n + i]
    BY <1>1, ThrowSplits
  <2> HIDE DEF n, unwound, L
  <2> QED
    BY <2>1
<1>3. Cardinality(Guards(frames[L])) = Cardinality(Guards(Kept(L))) + k
  BY <1>1, <1>2, GuardsSplit
<1>4. /\ CloseGuards(L, unwound) \in Seq(Call) /\ k \in Nat /\ Cardinality(Guards(Kept(L))) \in Nat
      /\ Run(LedgerSteps, CloseGuards(L, unwound), At(k, NoState, FALSE), Even)
  BY <1>1, <1>2, UnwindLedger, GuardsFinite
<1>5. /\ chain # <<>>
      /\ \/ /\ frames' = [frames EXCEPT ![L] = Kept(L)]
            /\ todo' = <<Do("host", L)>> \o CloseGuards(L, unwound) \o <<Do("sync", L)>>
         \/ /\ frames' = [frames EXCEPT ![L] = Detach(Kept(L))]
            /\ todo' = <<Do("host", L)>> \o CloseGuards(L, unwound) \o <<Do("reenter", L)>>
         \/ /\ frames' = frames
            /\ todo' = <<Do("host", L), Do("host", L)>>
                         \o (IF from = <<>> THEN <<>> ELSE <<Do("sync", Last(from))>>)
  BY ThrowDoes
<1> HIDE DEF L, from, unwound, k
<1>6. \A op \in {"host", "sync", "reenter"}, X \in States : Do(op, X) \in CalmCall /\ Do(op, X) \in Call
  BY CallTypes DEF CalmCall, CalmOps, VmOps, Ops, Do
<1>7. ASSUME NEW op \in {"sync", "reenter"},
             todo' = <<Do("host", L)>> \o CloseGuards(L, unwound) \o <<Do(op, L)>>
      PROVE  Run(LedgerSteps, todo', At(k, NoState, FALSE), Even)
  <2>1. /\ <<Do("host", L)>> \in Seq(CalmCall) /\ <<Do(op, L)>> \in Seq(CalmCall)
        /\ <<Do("host", L)>> \in Seq(Call) /\ <<Do(op, L)>> \in Seq(Call)
    BY <1>1, <1>6
  <2>2. /\ Run(LedgerSteps, <<Do("host", L)>>, At(k, NoState, FALSE), At(k, NoState, FALSE))
        /\ Run(LedgerSteps, <<Do(op, L)>>, Even, Even)
    BY <1>4, <2>1, CalmSteps DEF Even
  <2>3. /\ Run(LedgerSteps, <<Do("host", L)>> \o CloseGuards(L, unwound), At(k, NoState, FALSE), Even)
        /\ <<Do("host", L)>> \o CloseGuards(L, unwound) \in Seq(Call)
    BY <1>4, <2>1, <2>2, RunCat, CatProperties
  <2> QED
    BY <1>7, <2>1, <2>2, <2>3, RunCat
<1>8. ASSUME NEW t \in Seq(Frame), frames' = [frames EXCEPT ![L] = t], Guards(t) = Guards(Kept(L)),
             Run(LedgerSteps, todo', At(k, NoState, FALSE), Even)
      PROVE  LedgerInv'
  <2>1. k + Cardinality(Guards(t)) <= Cardinality(Guards(frames[L]))
    BY <1>3, <1>4, <1>8
  <2> QED
    BY <1>1, <1>4, <1>8, <2>1, LedgerStart
<1>9. /\ Detach(Kept(L)) \in Seq(Frame) /\ Guards(Detach(Kept(L))) = Guards(Kept(L))
  BY <1>2, DetachDoes, DetachedGuards
<1>10. ASSUME frames' = frames,
              todo' = <<Do("host", L), Do("host", L)>>
                        \o (IF from = <<>> THEN <<>> ELSE <<Do("sync", Last(from))>>)
       PROVE  LedgerInv'
  <2>1. /\ <<Do("host", L), Do("host", L)>> \in Seq(CalmCall) /\ <<>> \in Seq(CalmCall)
        /\ from # <<>> => <<Do("sync", Last(from))>> \in Seq(CalmCall)
    BY <1>1, <1>5, <1>6
  <2>2. todo' \in Seq(CalmCall)
    BY <1>10, <2>1, CatProperties
  <2> QED
    BY <1>10, <2>2, CalmSteps, LedgerGoesOn DEF Even
<1> QED
  BY <1>2, <1>5, <1>7, <1>8, <1>9, <1>10

LEMMA LedgerClose ==
    ASSUME TypeOK, LedgerInv, Application, NEW co \in States, CloseCoroutine(co) PROVE LedgerInv'
<1> DEFINE L == Running
           k == Cardinality(Guards(frames[co]))
           s == <<DoAs("enter", L, "c", CloseThread)>>
           t == <<Do("host", co), Do("sync", L), Do("leave", L)>>
<1>1. L \in States /\ frames[co] \in Seq(Frame)
  BY ChainStates DEF TypeOK
<1>2. /\ CloseGuards(co, frames[co]) \in Seq(Call) /\ k \in Nat
      /\ Run(LedgerSteps, CloseGuards(co, frames[co]), At(k, NoState, FALSE), Even)
  BY <1>1, UnwindLedger
<1>3. frames' = [frames EXCEPT ![co] = <<>>] /\ todo' = s \o CloseGuards(co, frames[co]) \o t
  BY DEF CloseCoroutine
<1> HIDE DEF L, k
<1>4. s \in Seq(CalmCall) /\ t \in Seq(CalmCall)
  <2>1. \A op \in {"host", "sync", "leave"}, X \in States : Do(op, X) \in CalmCall
    BY CallTypes DEF CalmCall, CalmOps, VmOps, Ops, Do
  <2>2. DoAs("enter", L, "c", CloseThread) \in CalmCall
    BY <1>1, FunctionFacts, CallTypes DEF CalmCall, CalmOps, VmOps, Ops, DoAs
  <2> QED
    BY <1>1, <2>1, <2>2
<1>5. s \in Seq(Call) /\ t \in Seq(Call)
  BY <1>4, SeqWithin DEF CalmCall
<1>6. /\ Run(LedgerSteps, s, At(k, NoState, FALSE), At(k, NoState, FALSE))
      /\ Run(LedgerSteps, t, Even, Even)
  BY <1>2, <1>4, CalmSteps DEF Even
<1> HIDE DEF s, t
<1>7. /\ Run(LedgerSteps, s \o CloseGuards(co, frames[co]), At(k, NoState, FALSE), Even)
      /\ s \o CloseGuards(co, frames[co]) \in Seq(Call)
  BY <1>2, <1>5, <1>6, RunCat, CatProperties
<1>8. Run(LedgerSteps, todo', At(k, NoState, FALSE), Even)
  BY <1>3, <1>5, <1>6, <1>7, RunCat
<1>9. k + Cardinality(Guards(<<>>)) <= Cardinality(Guards(frames[co]))
  BY <1>2, NoGuards DEF k
<1> QED
  BY <1>2, <1>3, <1>8, <1>9, NoGuards, LedgerStart

\* The return of a function of the module, whose frame L has its guard on top.
LEMMA LedgerReturn ==
    ASSUME NEW L \in States
    PROVE  /\ Run(LedgerSteps, ApiReturn(L), At(0, L, FALSE), Even) /\ ApiReturn(L) \in Seq(Call)
           /\ Run(LedgerSteps, StopCpu(L), At(0, L, FALSE), At(0, L, FALSE)) /\ StopCpu(L) \in Seq(Call)
<1> DEFINE w == At(0, L, FALSE)
           x == At(1, NoState, FALSE)
           enter == DoAs("enter", L, "c", GuardClose)
<1>1. /\ <<w, Do("leave", L), x>> \in LedgerSteps /\ <<x, enter, x>> \in LedgerSteps
      /\ <<x, Do("end", L), Even>> \in LedgerSteps /\ <<Even, Do("leave", L), Even>> \in LedgerSteps
  BY LedgerMoves, FunctionFacts, 0 + 1 = 1 DEF Even
<1>2. w \in Ledger
  BY AtIs
<1>3. \A op \in Ops : Do(op, L) \in Call /\ Do(op, L).op = op
  BY CallTypes DEF Do
<1>4. enter \in Call
  BY CallTypes, FunctionFacts DEF Ops
<1> HIDE DEF w, x, enter
<1> DEFINE s == <<Do("leave", L)>>
           t == <<enter, Do("end", L), Do("leave", L)>>
<1>5. Run(LedgerSteps, s, w, x) /\ Run(LedgerSteps, t, x, Even)
  BY <1>1, Run1, Run3
<1>6. s \in Seq(Call) /\ t \in Seq(Call)
  BY <1>3, <1>4 DEF Ops
<1>7. ApiReturn(L) = s \o t
  BY DEF ApiReturn, CloseGuard, enter
<1> HIDE DEF s, t
<1>8. Run(LedgerSteps, ApiReturn(L), w, Even) /\ ApiReturn(L) \in Seq(Call)
  BY <1>5, <1>6, <1>7, RunCat, CatProperties
<1>9. StopCpu(L) \in Seq({c \in Call : c.op \in LedgerOthers})
  BY <1>3 DEF LedgerOthers, Ops, StopCpu
<1>10. Run(LedgerSteps, StopCpu(L), w, w) /\ StopCpu(L) \in Seq(Call)
  BY <1>2, <1>9, LedgerSteady, SeqWithin
<1> QED
  BY <1>8, <1>10 DEF w

\* A function of the module does something, and returns.
LEMMA LedgerApi ==
    ASSUME TypeOK, LedgerInv, Application, InApi, NEW L, L = Running, frames' = frames,
           NEW body \in Seq(Call), todo' = body \o ApiReturn(L),
           Run(LedgerSteps, body, At(0, L, FALSE), At(0, L, FALSE))
    PROVE  LedgerInv'
<1> DEFINE w == At(0, L, FALSE)
<1>1. L \in States /\ UNCHANGED <<workDepth, cpuActive, timer>> /\ LedgerFits(Even)
  BY ChainStates, ApplicationFrame, LedgerIdle DEF Idle, bridge
<1>2. /\ w \in Ledger /\ w.spare = 0 /\ w.top = L /\ w.starting = FALSE
      /\ Even.spare = 0 /\ Even.starting = FALSE /\ Even \in Ledger
  <2>1. 0 \in Nat /\ L \in States \cup {NoState} /\ NoState \in States \cup {NoState}
        /\ FALSE \in BOOLEAN
    BY <1>1
  <2> QED
    BY <2>1, AtIs DEF Even
<1>3. frames[L] # <<>> /\ Top(L).work
  BY DEF InApi
<1> HIDE DEF w
<1>4. LedgerFits(w)
  BY <1>1, <1>2, <1>3 DEF LedgerFits
<1>5. LedgerFits(w)'
  BY <1>1, <1>4, LedgerFrame
<1>6. Run(LedgerSteps, todo', w, Even)
  BY <1>1, LedgerReturn, RunCat DEF w
<1> QED
  BY <1>2, <1>5, <1>6 DEF LedgerInv

LEMMA LedgerFunctions ==
    ASSUME TypeOK, LedgerInv, Application, CpuStart \/ CpuStop \/ MemoryToggle \/ ApiOther
    PROVE  LedgerInv'
<1> DEFINE L == Running
           w == At(0, L, FALSE)
           x == At(0, L, TRUE)
<1>1. L \in States
  BY ChainStates
<1>2. w \in Ledger /\ x \in Ledger /\ <<w, Do("activate", L), x>> \in LedgerSteps
      /\ <<x, Do("arm", L), w>> \in LedgerSteps
  BY <1>1, LedgerMoves, AtIs
<1> HIDE DEF L, w, x
<1>3. /\ \A op \in Ops : Do(op, L) \in Call /\ Do(op, L).op = op
      /\ {"activate", "arm", "hooks", "memory", "allocate"} \subseteq Ops
      /\ {"hooks", "memory", "allocate"} \subseteq LedgerOthers
  BY <1>1, CallTypes DEF Do, Ops, LedgerOthers
<1>4. \A a \in Ledger, c \in Call : c.op \in LedgerOthers => <<a, c, a>> \in LedgerSteps
  BY DEF LedgerSteps, LedgerStep
<1>5. /\ <<x, Do("hooks", L), x>> \in LedgerSteps /\ <<w, Do("hooks", L), w>> \in LedgerSteps
      /\ <<w, Do("memory", L), w>> \in LedgerSteps /\ <<w, Do("allocate", L), w>> \in LedgerSteps
  BY <1>2, <1>3, <1>4
<1>6. /\ Run(LedgerSteps, <<Do("activate", L), Do("hooks", L), Do("arm", L)>>, w, w)
      /\ Run(LedgerSteps, <<Do("memory", L), Do("hooks", L)>>, w, w)
      /\ Run(LedgerSteps, <<Do("allocate", L)>>, w, w)
  BY <1>2, <1>5, Run1, Run2, Run3
<1>7. /\ <<Do("activate", L), Do("hooks", L), Do("arm", L)>> \in Seq(Call)
      /\ <<Do("memory", L), Do("hooks", L)>> \in Seq(Call) /\ <<Do("allocate", L)>> \in Seq(Call)
  BY <1>3
<1>8. \E body \in Seq(Call) : todo' = body \o ApiReturn(L) /\ Run(LedgerSteps, body, w, w)
  <2>1. CASE CpuStart
    BY <1>6, <1>7, <2>1 DEF CpuStart, L
  <2>2. CASE CpuStop
    BY <2>2, <1>1, LedgerReturn DEF CpuStop, L, w
  <2>3. CASE MemoryToggle
    BY <1>6, <1>7, <2>3 DEF MemoryToggle, L
  <2>4. CASE ApiOther
    BY <1>6, <1>7, <2>4 DEF ApiOther, L
  <2> QED
    BY <2>1, <2>2, <2>3, <2>4
<1>9. InApi /\ frames' = frames
  BY DEF CpuStart, CpuStop, MemoryToggle, ApiOther, vm
<1> QED
  BY <1>8, <1>9, LedgerApi DEF w, L

LEMMA LedgerFinalize == ASSUME TypeOK, LedgerInv, Application, FinalizeRecorder PROVE LedgerInv'
<1> DEFINE L == Running
           w == At(0, L, FALSE)
           gc == DoAs("enter", L, "gc", NoFunction)
           api == DoAs("enter", L, "c", Api)
           s == <<gc, api, Do("guard", L)>>
<1>1. L \in States
  BY ChainStates
<1>2. /\ <<Even, gc, Even>> \in LedgerSteps /\ <<Even, api, Even>> \in LedgerSteps
      /\ <<Even, Do("guard", L), w>> \in LedgerSteps /\ <<Even, Do("leave", L), Even>> \in LedgerSteps
  BY <1>1, LedgerMoves, FunctionFacts DEF Even
<1>3. gc \in Call /\ api \in Call /\ Do("guard", L) \in Call /\ Do("leave", L) \in Call
  BY <1>1, CallTypes, FunctionFacts DEF Ops
<1>4. frames' = frames /\ todo' = s \o StopCpu(L) \o ApiReturn(L) \o <<Do("leave", L)>>
  BY DEF FinalizeRecorder, vm
<1> HIDE DEF L, w, gc, api
<1>5. /\ Run(LedgerSteps, s, Even, w) /\ s \in Seq(Call)
      /\ Run(LedgerSteps, <<Do("leave", L)>>, Even, Even) /\ <<Do("leave", L)>> \in Seq(Call)
  BY <1>2, <1>3, Run1, Run3
<1> HIDE DEF s
<1>6. /\ Run(LedgerSteps, StopCpu(L), w, w) /\ StopCpu(L) \in Seq(Call)
      /\ Run(LedgerSteps, ApiReturn(L), w, Even) /\ ApiReturn(L) \in Seq(Call)
  BY <1>1, LedgerReturn DEF w
<1>7. Run(LedgerSteps, s \o StopCpu(L), Even, w) /\ s \o StopCpu(L) \in Seq(Call)
  BY <1>5, <1>6, RunCat, CatProperties
<1>8. /\ Run(LedgerSteps, (s \o StopCpu(L)) \o ApiReturn(L), Even, Even)
      /\ (s \o StopCpu(L)) \o ApiReturn(L) \in Seq(Call)
  BY <1>6, <1>7, RunCat, CatProperties
<1>9. Run(LedgerSteps, todo', Even, Even)
  BY <1>4, <1>5, <1>8, RunCat
<1> QED
  BY <1>4, <1>9, LedgerGoesOn

LEMMA LedgerApplication == ASSUME TypeOK, LedgerInv, Application PROVE LedgerInv'
BY LedgerCalm, LedgerThrow, LedgerSafePoint, LedgerClose, LedgerFunctions, LedgerFinalize
   DEF Application, CalmAction

LEMMA LedgerInit == ASSUME Init PROVE LedgerInv
<1>1. Even \in Ledger /\ Even.spare = 0 /\ Even.top = NoState /\ Even.starting = FALSE
  BY AtIs DEF Even
<1>2. Open = {}
  BY NoGuards DEF Init, Open, OpenGuards
<1>3. LedgerFits(Even)
  BY <1>1, <1>2, FS_EmptySet DEF LedgerFits, Init
<1> QED
  BY <1>1, <1>3, RunNone DEF LedgerInv, Init

LEMMA LedgerNext == Inv /\ Inv' /\ LedgerInv /\ [Next]_vars => LedgerInv'
<1> SUFFICES ASSUME Inv, LedgerInv, [Next]_vars PROVE LedgerInv'
  OBVIOUS
<1>1. TypeOK /\ ShapeInv /\ Staged
  BY RecorderParts DEF Inv
<1>2. CASE Application
  BY <1>1, <1>2, LedgerApplication
<1>3. CASE Perform \/ Disarm
  BY <1>3, <1>1, ShapeReady, LedgerPerform DEF Perform, Disarm
<1>4. CASE \E overrun \in 0 .. MaxOverrun : Tick(overrun)
  BY <1>1, <1>4, LedgerTick
<1>5. CASE UNCHANGED vars
  BY <1>5, LedgerFrame DEF vars, vm, bridge, LedgerInv
<1> QED
  BY <1>2, <1>3, <1>4, <1>5 DEF Next

\* Ticks in the profiler's own functions are not the application's: between two
\* primitives the timer drains exactly while some work is open, and no guard that is
\* still on a stack has had its work ended, whatever errors, closes and finalizers
\* unwound those above it.
THEOREM WorkHidden == Spec => []WorkIsOverhead
<1>1. Init => LedgerInv
  BY LedgerInit
<1>2. ASSUME TypeOK, LedgerInv PROVE WorkIsOverhead
  <2>1. SUFFICES ASSUME Idle, cpuActive
                 PROVE  /\ timer.draining <=> workDepth > 0
                        /\ workDepth >= Cardinality(OpenGuards(States))
    BY DEF WorkIsOverhead
  <2>2. LedgerFits(Even) /\ Even.spare = 0 /\ Even.starting = FALSE
    BY <1>2, <2>1, LedgerIdle, AtIs DEF Idle, Even
  <2>3. workDepth \in Nat /\ IsFiniteSet(Open) /\ timer.draining \in BOOLEAN
    BY <1>2, <2>2 DEF TypeOK, LedgerFits, Timer
  <2>4. Cardinality(Open) \in Nat
    BY <2>3, FS_CardinalityType
  <2> QED
    BY <2>1, <2>2, <2>3, <2>4 DEF LedgerFits, Open
<1>3. Inv => TypeOK
  BY DEF Inv
<1> QED
  BY <1>1, <1>2, <1>3, LedgerNext, SpecInv, PTL DEF Spec

==============================================================================
