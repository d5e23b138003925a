------------------------ MODULE MemoryProfile_proofs ------------------------
(***************************************************************************)
(* Proofs about MemoryProfile, for any addresses, stacks, buckets and      *)
(* capacities: its types, the live table with its chains, the sums of the  *)
(* report, the aggregates, and that the table implements LiveMap.          *)
(***************************************************************************)
EXTENDS MemoryProfile, Integers, FiniteSetTheorems, WellFoundedInduction, TLAPS

------------------------------------------------------------------------------
(* Induction, as the existence of minimal elements. *)

LEMMA Minimal ==
    ASSUME NEW F, F # {}, \A S \in F : IsFiniteSet(S)
    PROVE  \E m \in F : \A k \in F : ~(k \subseteq m /\ k # m)
<1> DEFINE U == UNION F
<1>1. F \subseteq FiniteSubsetsOf(U)
  BY DEF FiniteSubsetsOf
<1>2. \E x \in F : \A y \in F : ~ (<<y, x>> \in StrictSubsetOrdering(U))
  <2> HIDE DEF U
  <2> QED
    BY <1>1, FS_StrictSubsetOrderingWellFounded, WFMin
<1> QED
  BY <1>2 DEF StrictSubsetOrdering

LEMMA NatMin == ASSUME NEW T \in SUBSET Nat, T # {} PROVE \E m \in T : \A k \in T : m <= k
<1> DEFINE F == {1 .. n : n \in T}
<1>1. \A n \in T : IsFiniteSet(1 .. n)
  BY FS_Interval
<1>2. \E S \in F : \A k \in F : ~(k \subseteq S /\ k # S)
  <2> HIDE DEF F
  <2>1. F # {} /\ \A S \in F : IsFiniteSet(S)
    BY <1>1 DEF F
  <2> QED
    BY <2>1, Minimal
<1>3. PICK m \in T : \A k \in F : ~(k \subseteq 1 .. m /\ k # 1 .. m)
  BY <1>2
<1>4. ASSUME NEW k \in T, ~(m <= k) PROVE FALSE
  <2>1. 1 .. k \in F
    OBVIOUS
  <2>2. 1 .. k \subseteq 1 .. m /\ m \in 1 .. m /\ m \notin 1 .. k
    BY <1>4
  <2> QED
    BY <2>1, <2>2, <1>3
<1> QED
  BY <1>4

\* Zero is good and some number is not: a good number has a successor that is not.
LEMMA FirstBad ==
    ASSUME NEW Good, NEW n \in Nat, n \notin Good, 0 \in Good
    PROVE  \E m \in Nat : m + 1 \notin Good /\ m \in Good /\ m + 1 <= n
<1> DEFINE T == {k \in Nat : k \notin Good}
<1>1. n \in T
  OBVIOUS
<1>2. \E m \in T : \A k \in T : m <= k
  <2> HIDE DEF T
  <2>1. T \in SUBSET Nat
    BY DEF T
  <2> QED
    BY <1>1, <2>1, NatMin
<1>3. PICK m \in T : \A k \in T : m <= k
  BY <1>2
<1>4. m \in Nat /\ m # 0 /\ m - 1 \in Nat /\ m - 1 \notin T /\ m <= n
  BY <1>1, <1>3
<1>5. m - 1 \in Good /\ (m - 1) + 1 = m /\ m \notin Good
  BY <1>4, <1>3
<1> QED
  BY <1>4, <1>5

------------------------------------------------------------------------------
(* Sums over finite sets. *)

Chosen(s) == CHOOSE x \in s : TRUE
SumBody(w, g, s) == IF s = {} THEN 0 ELSE w[Chosen(s)] + g[s \ {Chosen(s)}]
SumIter(w, S) == CHOOSE iter : iter = [s \in SUBSET S |-> SumBody(w, iter, s)]
Sums(w, g, S) == \A s \in SUBSET S : g[s] = SumBody(w, g, s)

LEMMA SumDef == ASSUME NEW w, NEW S PROVE SumFunctionOnSet(w, S) = SumIter(w, S)[S]
BY DEF SumFunctionOnSet, FoldFunctionOnSet, MapThenFoldSet, SumIter, SumBody, Chosen

LEMMA ChosenSmaller ==
    ASSUME NEW s, s # {}, IsFiniteSet(s)
    PROVE  /\ Chosen(s) \in s /\ s \ {Chosen(s)} \in SUBSET s
           /\ Cardinality(s) \in Nat /\ Cardinality(s) > 0
           /\ Cardinality(s \ {Chosen(s)}) = Cardinality(s) - 1
<1>1. Chosen(s) \in s
  BY DEF Chosen
<1>2. Cardinality(s) \in Nat /\ Cardinality(s) # 0
  BY FS_CardinalityType, FS_EmptySet
<1> QED
  BY <1>1, <1>2, FS_RemoveElement

LEMMA SumsExist ==
    ASSUME NEW w, NEW S, IsFiniteSet(S)
    PROVE  \E g : g = [s \in SUBSET S |-> SumBody(w, g, s)]
<1> DEFINE UpTo(n) == \E g : \A s \in SUBSET S : Cardinality(s) <= n => g[s] = SumBody(w, g, s)
           Good == {n \in Nat : UpTo(n)}
<1>1. \A s \in SUBSET S : IsFiniteSet(s) /\ Cardinality(s) \in Nat
  BY FS_Subset, FS_CardinalityType
<1>2. UpTo(0)
  <2> DEFINE g == [s \in SUBSET S |-> 0]
  <2>1. \A s \in SUBSET S : Cardinality(s) <= 0 => g[s] = SumBody(w, g, s)
    <3> SUFFICES ASSUME NEW s \in SUBSET S, Cardinality(s) <= 0 PROVE g[s] = SumBody(w, g, s)
      OBVIOUS
    <3>1. s = {}
      BY <1>1, FS_EmptySet
    <3> QED
      BY <3>1 DEF SumBody
  <2> QED
    BY <2>1
<1>3. ASSUME NEW n \in Nat, UpTo(n) PROVE UpTo(n + 1)
  <2>1. PICK g : \A s \in SUBSET S : Cardinality(s) <= n => g[s] = SumBody(w, g, s)
    BY <1>3
  <2> DEFINE h == [s \in SUBSET S |-> IF Cardinality(s) <= n THEN g[s] ELSE SumBody(w, g, s)]
  <2>2. ASSUME NEW s \in SUBSET S, Cardinality(s) <= n + 1 PROVE h[s] = SumBody(w, h, s)
    <3>1. h[s] = SumBody(w, g, s)
      BY <2>1
    <3>2. CASE s = {}
      BY <3>1, <3>2 DEF SumBody
    <3>3. CASE s # {}
      <4>1. /\ s \ {Chosen(s)} \in SUBSET S
            /\ Cardinality(s \ {Chosen(s)}) <= n
        BY <1>1, <2>2, <3>3, ChosenSmaller
      <4>2. h[s \ {Chosen(s)}] = g[s \ {Chosen(s)}]
        BY <4>1
      <4> HIDE DEF h
      <4> QED
        BY <3>1, <4>2 DEF SumBody
    <3> QED
      BY <3>2, <3>3
  <2> QED
    BY <2>2
<1>4. UpTo(Cardinality(S))
  <2>1. 0 \in Good /\ Cardinality(S) \in Nat
    BY <1>1, <1>2
  <2>2. ASSUME NEW n \in Nat, n \in Good PROVE n + 1 \in Good
    BY <1>3, <2>2
  <2> HIDE DEF Good
  <2>3. Cardinality(S) \in Good
    BY <2>1, <2>2, FirstBad
  <2> QED
    BY <2>3 DEF Good
<1>5. PICK g : \A s \in SUBSET S : Cardinality(s) <= Cardinality(S) => g[s] = SumBody(w, g, s)
  BY <1>4
<1>6. \A s \in SUBSET S : g[s] = SumBody(w, g, s)
  BY <1>5, FS_Subset
<1> DEFINE h == [s \in SUBSET S |-> g[s]]
<1>7. \A s \in SUBSET S : h[s] = SumBody(w, h, s)
  <2> SUFFICES ASSUME NEW s \in SUBSET S PROVE h[s] = SumBody(w, h, s)
    OBVIOUS
  <2>1. h[s] = SumBody(w, g, s)
    BY <1>6
  <2>2. s # {} => s \ {Chosen(s)} \in SUBSET S
    OBVIOUS
  <2> QED
    BY <2>1, <2>2 DEF SumBody
<1>8. h = [s \in SUBSET S |-> SumBody(w, h, s)]
  <2>1. h = [s \in SUBSET S |-> h[s]]
    OBVIOUS
  <2> HIDE DEF h
  <2> QED
    BY <1>7, <2>1
<1> HIDE DEF h
<1> QED
  BY <1>8

LEMMA SumIs ==
    ASSUME NEW w, NEW S, IsFiniteSet(S)
    PROVE  Sums(w, SumIter(w, S), S)
<1> DEFINE g == SumIter(w, S)
<1>1. g = [s \in SUBSET S |-> SumBody(w, g, s)]
  BY SumsExist DEF SumIter
<1> HIDE DEF g
<1>2. \A s \in SUBSET S : g[s] = SumBody(w, g, s)
  BY <1>1
<1> QED
  BY <1>2 DEF Sums, g

LEMMA SumsUnique ==
    ASSUME NEW w, NEW S, IsFiniteSet(S), NEW g, NEW h, Sums(w, g, S), Sums(w, h, S)
    PROVE  g[S] = h[S]
<1> DEFINE F == {s \in SUBSET S : g[s] # h[s]}
<1>1. SUFFICES ASSUME S \in F PROVE FALSE
  OBVIOUS
<1>2. F # {} /\ \A s \in F : IsFiniteSet(s)
  BY <1>1, FS_Subset
<1>3. \E m \in F : \A k \in F : ~(k \subseteq m /\ k # m)
  <2> HIDE DEF F
  <2> QED
    BY <1>2, Minimal
<1>4. PICK m \in F : \A k \in F : ~(k \subseteq m /\ k # m)
  BY <1>3
<1>5. g[m] = SumBody(w, g, m) /\ h[m] = SumBody(w, h, m)
  BY DEF Sums
<1>6. m # {}
  BY <1>5 DEF SumBody
<1>7. m \ {Chosen(m)} \in SUBSET m /\ m \ {Chosen(m)} # m
  BY <1>2, <1>6, ChosenSmaller
<1>8. g[m \ {Chosen(m)}] = h[m \ {Chosen(m)}]
  BY <1>4, <1>7
<1>9. g[m] = h[m]
  BY <1>5, <1>8 DEF SumBody
<1> QED
  BY <1>9

\* A sum over a part is the value there of the function that sums over the whole.
LEMMA SumPart ==
    ASSUME NEW w, NEW S, IsFiniteSet(S), NEW T \in SUBSET S
    PROVE  SumFunctionOnSet(w, T) = SumIter(w, S)[T]
<1>1. Sums(w, SumIter(w, S), T) /\ Sums(w, SumIter(w, T), T)
  BY SumIs, FS_Subset DEF Sums
<1> QED
  BY <1>1, SumsUnique, SumDef, FS_Subset

LEMMA SumStep ==
    ASSUME NEW w, NEW S, IsFiniteSet(S)
    PROVE  SumFunctionOnSet(w, S) = IF S = {} THEN 0
                ELSE w[Chosen(S)] + SumFunctionOnSet(w, S \ {Chosen(S)})
<1>1. SumIter(w, S)[S] = SumBody(w, SumIter(w, S), S)
  BY SumIs DEF Sums
<1>2. SumFunctionOnSet(w, S \ {Chosen(S)}) = SumIter(w, S)[S \ {Chosen(S)}]
  BY SumPart
<1>3. SumFunctionOnSet(w, S) = SumIter(w, S)[S]
  BY SumDef
<1> QED
  BY <1>1, <1>2, <1>3 DEF SumBody

LEMMA SumType ==
    ASSUME NEW w, NEW S, IsFiniteSet(S), \A x \in S : w[x] \in Nat
    PROVE  SumFunctionOnSet(w, S) \in Nat
<1> DEFINE F == {s \in SUBSET S : SumFunctionOnSet(w, s) \notin Nat}
<1>1. SUFFICES ASSUME S \in F PROVE FALSE
  OBVIOUS
<1>2. F # {} /\ \A s \in F : IsFiniteSet(s)
  BY <1>1, FS_Subset
<1>3. \E m \in F : \A k \in F : ~(k \subseteq m /\ k # m)
  <2> HIDE DEF F
  <2> QED
    BY <1>2, Minimal
<1>4. PICK m \in F : \A k \in F : ~(k \subseteq m /\ k # m)
  BY <1>3
<1>5. m # {}
  <2>1. SumFunctionOnSet(w, {}) = 0
    BY SumStep, FS_EmptySet
  <2> QED
    BY <2>1
<1>6. /\ m \ {Chosen(m)} \in SUBSET m /\ m \ {Chosen(m)} # m /\ Chosen(m) \in m
      /\ SumFunctionOnSet(w, m) = w[Chosen(m)] + SumFunctionOnSet(w, m \ {Chosen(m)})
  <2>1. IsFiniteSet(m)
    BY <1>2
  <2> QED
    BY <2>1, <1>5, ChosenSmaller, SumStep
<1>7. SumFunctionOnSet(w, m \ {Chosen(m)}) \in Nat
  BY <1>4, <1>6
<1>8. w[Chosen(m)] \in Nat
  BY <1>6
<1>9. SumFunctionOnSet(w, m) \in Nat
  BY <1>6, <1>7, <1>8
<1> QED
  BY <1>9

\* Whichever element is taken out first.
LEMMA SumRemove ==
    ASSUME NEW w, NEW S, IsFiniteSet(S), \A x \in S : w[x] \in Nat, NEW y \in S
    PROVE  SumFunctionOnSet(w, S) = w[y] + SumFunctionOnSet(w, S \ {y})
<1> DEFINE Sum(s) == SumFunctionOnSet(w, s)
           Bad(s) == \E z \in s : Sum(s) # w[z] + Sum(s \ {z})
           F == {s \in SUBSET S : Bad(s)}
<1>1. SUFFICES ASSUME Bad(S) PROVE FALSE
  OBVIOUS
<1>2. F # {} /\ \A s \in F : IsFiniteSet(s)
  BY <1>1, FS_Subset
<1>3. \E m \in F : \A k \in F : ~(k \subseteq m /\ k # m)
  <2> HIDE DEF F
  <2> QED
    BY <1>2, Minimal
<1>4. PICK m \in F : \A k \in F : ~(k \subseteq m /\ k # m)
  BY <1>3
<1>5. PICK z \in m : Sum(m) # w[z] + Sum(m \ {z})
  OBVIOUS
<1> DEFINE x == Chosen(m)
           rest == m \ {x, z}
<1>6. x \in m /\ Sum(m) = w[x] + Sum(m \ {x})
  BY <1>2, ChosenSmaller, SumStep
<1>7. x # z
  BY <1>5, <1>6
<1>8. m \in SUBSET S /\ IsFiniteSet(m)
  BY <1>2
<1> HIDE DEF x, F
<1>9. Sum(m \ {x}) = w[z] + Sum(rest)
  <2>1. m \ {x} \subseteq m /\ m \ {x} # m
    BY <1>6
  <2>2. m \ {x} \notin F
    BY <1>4, <2>1
  <2>3. z \in m \ {x} /\ (m \ {x}) \ {z} = rest /\ m \ {x} \in SUBSET S
    BY <1>7, <1>8
  <2> QED
    BY <2>2, <2>3 DEF F
<1>10. Sum(m \ {z}) = w[x] + Sum(rest)
  <2>1. m \ {z} \subseteq m /\ m \ {z} # m
    OBVIOUS
  <2>2. m \ {z} \notin F
    BY <1>4, <2>1
  <2>3. x \in m \ {z} /\ (m \ {z}) \ {x} = rest /\ m \ {z} \in SUBSET S
    BY <1>6, <1>7, <1>8
  <2> QED
    BY <2>2, <2>3 DEF F
<1>11. w[x] \in Nat /\ w[z] \in Nat /\ Sum(rest) \in Nat
  <2>1. rest \in SUBSET S
    BY <1>8
  <2> QED
    BY <1>6, <1>8, <2>1, SumType, FS_Subset
<1> HIDE DEF rest, Sum
<1>12. Sum(m) = w[z] + Sum(m \ {z})
  BY <1>6, <1>9, <1>10, <1>11
<1> QED
  BY <1>5, <1>12

LEMMA SumAdd ==
    ASSUME NEW w, NEW S, IsFiniteSet(S), NEW y, y \notin S,
           \A x \in S \cup {y} : w[x] \in Nat
    PROVE  SumFunctionOnSet(w, S \cup {y}) = w[y] + SumFunctionOnSet(w, S)
<1>1. IsFiniteSet(S \cup {y}) /\ (S \cup {y}) \ {y} = S /\ y \in S \cup {y}
  BY FS_AddElement
<1> QED
  BY <1>1, SumRemove

LEMMA SumEmpty == ASSUME NEW w PROVE SumFunctionOnSet(w, {}) = 0
BY SumStep, FS_EmptySet

\* A sum depends on the summands only.
LEMMA SumSame ==
    ASSUME NEW S, IsFiniteSet(S), NEW v, NEW w, \A x \in S : v[x] = w[x]
    PROVE  SumFunctionOnSet(v, S) = SumFunctionOnSet(w, S)
<1> DEFINE F == {s \in SUBSET S : SumFunctionOnSet(v, s) # SumFunctionOnSet(w, s)}
<1>1. SUFFICES ASSUME S \in F PROVE FALSE
  OBVIOUS
<1>2. F # {} /\ \A s \in F : IsFiniteSet(s)
  BY <1>1, FS_Subset
<1>3. \E m \in F : \A k \in F : ~(k \subseteq m /\ k # m)
  <2> HIDE DEF F
  <2> QED
    BY <1>2, Minimal
<1>4. PICK m \in F : \A k \in F : ~(k \subseteq m /\ k # m)
  BY <1>3
<1>5. m # {}
  BY SumEmpty
<1>6. /\ m \ {Chosen(m)} \in SUBSET m /\ m \ {Chosen(m)} # m /\ Chosen(m) \in m
      /\ SumFunctionOnSet(w, m) = w[Chosen(m)] + SumFunctionOnSet(w, m \ {Chosen(m)})
      /\ SumFunctionOnSet(v, m) = v[Chosen(m)] + SumFunctionOnSet(v, m \ {Chosen(m)})
  <2>1. IsFiniteSet(m)
    BY <1>2
  <2> QED
    BY <2>1, <1>5, ChosenSmaller, SumStep
<1>7. SumFunctionOnSet(w, m \ {Chosen(m)}) = SumFunctionOnSet(v, m \ {Chosen(m)})
  BY <1>4, <1>6
<1>8. SumFunctionOnSet(v, m) = SumFunctionOnSet(w, m)
  BY <1>6, <1>7
<1> QED
  BY <1>8

------------------------------------------------------------------------------
(* Chained lists.  A list is given by its links "next" and its head; c is the *)
(* sequence of its members, which are the set S.                              *)

At(c, k) == IF k <= Len(c) THEN c[k] ELSE NoEntry

IsList(next, head, S, c) ==
    /\ c \in Seq(S)
    /\ \A i \in S : \E k \in 1 .. Len(c) : c[k] = i
    /\ \A j, k \in 1 .. Len(c) : c[j] = c[k] => j = k
    /\ head = At(c, 1)
    /\ \A k \in 1 .. Len(c) : next[c[k]] = At(c, k + 1)

ListOf(next, head, S) == \E c : IsList(next, head, S, c)

\* A list does not see the links of what is not in it.
LEMMA ListFrame ==
    ASSUME NEW next, NEW link, NEW head, NEW S, ListOf(next, head, S),
           \A i \in S : link[i] = next[i]
    PROVE  ListOf(link, head, S)
<1>1. PICK c : IsList(next, head, S, c)
  BY DEF ListOf
<1>2. \A k \in 1 .. Len(c) : c[k] \in S
  BY <1>1 DEF IsList
<1>3. IsList(link, head, S, c)
  BY <1>1, <1>2 DEF IsList
<1> QED
  BY <1>3 DEF ListOf

LEMMA ListEmpty == ASSUME NEW next PROVE ListOf(next, NoEntry, {})
<1>1. IsList(next, NoEntry, {}, <<>>)
  BY DEF IsList, At
<1> QED
  BY <1>1 DEF ListOf

LEMMA ListHead ==
    ASSUME NEW next, NEW head, NEW S, ListOf(next, head, S), NoEntry \notin S
    PROVE  /\ head # NoEntry => head \in S
           /\ head = NoEntry => S = {}
<1>1. PICK c : IsList(next, head, S, c)
  BY DEF ListOf
<1>2. CASE Len(c) = 0
  BY <1>1, <1>2 DEF IsList, At
<1>3. CASE Len(c) # 0
  <2>1. 1 \in 1 .. Len(c) /\ c[1] \in S /\ head = c[1]
    BY <1>1, <1>3 DEF IsList, At
  <2> QED
    BY <2>1
<1> QED
  BY <1>2, <1>3

\* A new head.
LEMMA ListPush ==
    ASSUME NEW next, NEW link, NEW head, NEW S, ListOf(next, head, S),
           NEW i, i \notin S, link[i] = head, \A j \in S : link[j] = next[j]
    PROVE  ListOf(link, i, S \cup {i})
<1>1. PICK c : IsList(next, head, S, c)
  BY DEF ListOf
<1> DEFINE T == S \cup {i}
           d == <<i>> \o c
           n == Len(c)
<1>2. /\ n \in Nat /\ c \in Seq(S) /\ d \in Seq(T) /\ Len(d) = n + 1 /\ d[1] = i
      /\ \A k \in 1 .. n : c[k] \in S /\ d[k + 1] = c[k]
      /\ \A k \in 2 .. n + 1 : d[k] = c[k - 1] /\ k - 1 \in 1 .. n
  <2>1. c \in Seq(S)
    BY <1>1 DEF IsList
  <2>2. c \in Seq(T) /\ <<i>> \in Seq(T) /\ Len(<<i>>) = 1
    BY <2>1
  <2> QED
    BY <2>1, <2>2
<1> HIDE DEF d, n
<1>3. \A j \in T : \E k \in 1 .. Len(d) : d[k] = j
  <2> SUFFICES ASSUME NEW j \in T PROVE \E k \in 1 .. Len(d) : d[k] = j
    OBVIOUS
  <2>1. CASE j = i
    <3>1. 1 \in 1 .. Len(d)
      BY <1>2
    <3> QED
      BY <1>2, <2>1, <3>1
  <2>2. CASE j # i
    <3>1. PICK k \in 1 .. n : c[k] = j
      BY <1>1, <2>2 DEF IsList, n
    <3>2. k + 1 \in 1 .. Len(d) /\ d[k + 1] = j
      BY <1>2, <3>1
    <3> QED
      BY <3>2
  <2> QED
    BY <2>1, <2>2
<1>4. \A j, k \in 1 .. Len(d) : d[j] = d[k] => j = k
  <2> SUFFICES ASSUME NEW j \in 1 .. n + 1, NEW k \in 1 .. n + 1, d[j] = d[k] PROVE j = k
    BY <1>2
  <2>1. CASE j = 1 \/ k = 1
    <3>1. ASSUME NEW l \in 2 .. n + 1 PROVE d[l] # i
      <4>1. d[l] = c[l - 1] /\ l - 1 \in 1 .. n
        BY <1>2
      <4>2. c[l - 1] \in S
        BY <1>2, <4>1
      <4> QED
        BY <4>1, <4>2
    <3> QED
      BY <1>2, <2>1, <3>1
  <2>2. CASE j # 1 /\ k # 1
    <3>1. j \in 2 .. n + 1 /\ k \in 2 .. n + 1
      BY <1>2, <2>2
    <3>2. c[j - 1] = c[k - 1] /\ j - 1 \in 1 .. n /\ k - 1 \in 1 .. n
      BY <1>2, <3>1
    <3>3. j - 1 = k - 1
      BY <1>1, <3>2 DEF IsList, n
    <3> QED
      BY <3>3
  <2> QED
    BY <2>1, <2>2
<1>5. i = At(d, 1)
  BY <1>2 DEF At
<1>6. \A k \in 1 .. Len(d) : link[d[k]] = At(d, k + 1)
  <2> SUFFICES ASSUME NEW k \in 1 .. n + 1 PROVE link[d[k]] = At(d, k + 1)
    BY <1>2
  <2>1. At(d, k + 1) = At(c, k)
    <3>1. CASE k <= n
      BY <1>2, <3>1 DEF At, n
    <3>2. CASE ~(k <= n)
      BY <1>2, <3>2 DEF At, n
    <3> QED
      BY <3>1, <3>2
  <2>2. CASE k = 1
    BY <1>1, <1>2, <2>1, <2>2 DEF IsList
  <2>3. CASE k # 1
    <3>1. k \in 2 .. n + 1
      BY <1>2, <2>3
    <3>2. d[k] = c[k - 1] /\ k - 1 \in 1 .. n /\ c[k - 1] \in S /\ (k - 1) + 1 = k
      BY <1>2, <3>1
    <3>3. next[c[k - 1]] = At(c, k)
      BY <1>1, <3>2 DEF IsList, n
    <3> QED
      BY <2>1, <3>2, <3>3
  <2> QED
    BY <2>2, <2>3
<1>7. IsList(link, i, T, d)
  BY <1>2, <1>3, <1>4, <1>5, <1>6 DEF IsList
<1> QED
  BY <1>7 DEF ListOf

LEMMA IsSequence ==
    ASSUME NEW T, NEW m \in Nat, NEW d \in [1 .. m -> T]
    PROVE  d \in Seq(T) /\ Len(d) = m
OBVIOUS

\* Entry i, the k-th member, is passed over.
PassesOver(next, link, head, new, S, c, i, k) ==
    IF k = 1 THEN new = next[i] /\ \A j \in S \ {i} : link[j] = next[j]
    ELSE /\ new = head /\ link[c[k - 1]] = next[i]
         /\ \A j \in S \ {i, c[k - 1]} : link[j] = next[j]

LEMMA ListRemove ==
    ASSUME NEW next, NEW link, NEW head, NEW S, NEW c, IsList(next, head, S, c),
           NEW i, NEW k \in 1 .. Len(c), c[k] = i, NEW new,
           PassesOver(next, link, head, new, S, c, i, k)
    PROVE  ListOf(link, new, S \ {i})
<1> DEFINE n == Len(c)
           T == S \ {i}
           d == [j \in 1 .. n - 1 |-> IF j < k THEN c[j] ELSE c[j + 1]]
<1>0. /\ k = 1 => new = next[i] /\ \A j \in S \ {i} : link[j] = next[j]
      /\ k # 1 => new = head /\ link[c[k - 1]] = next[i]
                /\ \A j \in S \ {i, c[k - 1]} : link[j] = next[j]
  BY DEF PassesOver
<1>1. /\ n \in Nat /\ k \in 1 .. n /\ n - 1 \in Nat
      /\ \A j \in 1 .. n : c[j] \in S
      /\ \A j \in S : \E l \in 1 .. n : c[l] = j
      /\ \A j, l \in 1 .. n : c[j] = c[l] => j = l
      /\ head = At(c, 1)
      /\ \A j \in 1 .. n : next[c[j]] = At(c, j + 1)
  <2>1. c \in Seq(S)
    BY DEF IsList
  <2>2. n \in Nat /\ \A j \in 1 .. n : c[j] \in S
    BY <2>1
  <2>3. n - 1 \in Nat
    BY <2>2
  <2> QED
    BY <2>2, <2>3 DEF IsList
<1>2. \A j \in 1 .. n : j # k => c[j] \in T
  BY <1>1
<1>3. \A j \in 1 .. n - 1 : /\ j < k => d[j] = c[j] /\ j \in 1 .. n /\ j # k
                            /\ ~(j < k) => d[j] = c[j + 1] /\ j + 1 \in 1 .. n /\ j + 1 # k
  BY <1>1
<1>4. d \in Seq(T) /\ Len(d) = n - 1
  <2>1. \A j \in 1 .. n - 1 : d[j] \in T
    BY <1>2, <1>3
  <2>2. d \in [1 .. n - 1 -> T]
    BY <2>1
  <2> HIDE DEF d, n
  <2> QED
    BY <1>1, <2>2, IsSequence
<1> HIDE DEF d, n
<1>5. \A j \in T : \E l \in 1 .. n - 1 : d[l] = j
  <2> SUFFICES ASSUME NEW j \in T PROVE \E l \in 1 .. n - 1 : d[l] = j
    OBVIOUS
  <2>1. PICK l \in 1 .. n : c[l] = j
    BY <1>1
  <2>2. CASE l < k
    <3>1. l \in 1 .. n - 1 /\ d[l] = j
      BY <1>1, <1>3, <2>1, <2>2
    <3> QED
      BY <3>1
  <2>3. CASE ~(l < k)
    <3>1. l # k
      BY <2>1
    <3>2. l - 1 \in 1 .. n - 1 /\ ~(l - 1 < k) /\ (l - 1) + 1 = l
      BY <1>1, <2>3, <3>1
    <3>3. d[l - 1] = j
      BY <1>3, <2>1, <3>2
    <3> QED
      BY <3>2, <3>3
  <2> QED
    BY <2>2, <2>3
<1>6. \A j, l \in 1 .. n - 1 : d[j] = d[l] => j = l
  <2> SUFFICES ASSUME NEW j \in 1 .. n - 1, NEW l \in 1 .. n - 1, d[j] = d[l] PROVE j = l
    OBVIOUS
  <2>1. PICK x \in 1 .. n : d[j] = c[x] /\ x = IF j < k THEN j ELSE j + 1
    BY <1>3
  <2>2. PICK y \in 1 .. n : d[l] = c[y] /\ y = IF l < k THEN l ELSE l + 1
    BY <1>3
  <2>3. c[x] = c[y]
    BY <2>1, <2>2
  <2>4. x = y
    BY <1>1, <2>3
  <2> QED
    BY <1>1, <2>1, <2>2, <2>4
<1>7. \A j \in 1 .. n : At(d, j) = IF j < k THEN c[j] ELSE At(c, j + 1)
  <2> SUFFICES ASSUME NEW j \in 1 .. n PROVE At(d, j) = IF j < k THEN c[j] ELSE At(c, j + 1)
    OBVIOUS
  <2>1. CASE j = n
    BY <1>1, <1>4, <2>1 DEF At, n
  <2>2. CASE j # n
    <3>1. j \in 1 .. n - 1 /\ j <= n - 1 /\ j + 1 <= n
      BY <1>1, <2>2
    <3>2. At(d, j) = d[j] /\ At(c, j + 1) = c[j + 1]
      BY <1>4, <3>1 DEF At, n
    <3> QED
      BY <1>3, <3>1, <3>2
  <2> QED
    BY <2>1, <2>2
<1>8. new = At(d, 1)
  <2>1. 1 \in 1 .. n /\ At(c, 1) = c[1]
    BY <1>1 DEF At, n
  <2>2. CASE k = 1
    BY <1>0, <1>1, <1>7, <2>1, <2>2
  <2>3. CASE k # 1
    BY <1>0, <1>1, <1>7, <2>1, <2>3
  <2> QED
    BY <2>2, <2>3
<1>9. \A j \in 1 .. n - 1 : link[d[j]] = At(d, j + 1)
  <2> SUFFICES ASSUME NEW j \in 1 .. n - 1 PROVE link[d[j]] = At(d, j + 1)
    OBVIOUS
  <2>1. j + 1 \in 1 .. n /\ j \in 1 .. n
    BY <1>1
  <2>2. CASE ~(j < k)
    <3>1. d[j] = c[j + 1] /\ j + 1 # k /\ j + 1 \in 1 .. n
      BY <1>3, <2>2
    <3>2. c[j + 1] \in S \ {i}
      BY <1>2, <3>1
    <3>3. k # 1 => k - 1 \in 1 .. n /\ k - 1 # j + 1
      BY <1>1, <2>2
    <3>4. k # 1 => c[j + 1] # c[k - 1]
      BY <1>1, <3>1, <3>3
    <3>5. link[c[j + 1]] = next[c[j + 1]]
      BY <1>0, <3>2, <3>4
    <3>6. ~(j + 1 < k)
      BY <1>1, <2>2
    <3> QED
      BY <1>1, <1>7, <2>1, <3>1, <3>5, <3>6
  <2>3. CASE j < k - 1
    <3>1. d[j] = c[j] /\ j # k /\ j \in 1 .. n /\ j + 1 < k /\ k # 1 /\ k - 1 \in 1 .. n /\ j # k - 1
      BY <1>1, <1>3, <2>3
    <3>2. c[j] \in S \ {i} /\ c[j] # c[k - 1]
      BY <1>1, <1>2, <3>1
    <3>3. link[c[j]] = next[c[j]] /\ next[c[j]] = At(c, j + 1)
      BY <1>0, <1>1, <3>1, <3>2
    <3>4. At(c, j + 1) = c[j + 1]
      BY <2>1 DEF At, n
    <3> QED
      BY <1>7, <2>1, <3>1, <3>3, <3>4
  <2>4. CASE j = k - 1
    <3>1. d[j] = c[j] /\ k # 1 /\ j + 1 = k /\ ~(j + 1 < k)
      BY <1>1, <1>3, <2>4
    <3>2. link[d[j]] = next[i] /\ next[i] = At(c, k + 1)
      BY <1>0, <1>1, <2>4, <3>1
    <3> QED
      BY <1>7, <2>1, <3>1, <3>2
  <2> QED
    BY <1>1, <2>2, <2>3, <2>4
<1>10. IsList(link, new, T, d)
  BY <1>4, <1>5, <1>6, <1>8, <1>9 DEF IsList
<1> QED
  BY <1>10 DEF ListOf

\* A list of entries is no longer than the table.
LEMMA ListLength ==
    ASSUME NEW next, NEW head, NEW S \in SUBSET Entries, NEW c, IsList(next, head, S, c)
    PROVE  Len(c) \in Nat /\ Len(c) <= LiveCapacity
<1>1. c \in Seq(S)
  BY DEF IsList
<1>2. Len(c) \in Nat /\ c \in [1 .. Len(c) -> S]
  BY <1>1
<1>3. c \in [1 .. Len(c) -> Entries]
  BY <1>2
<1>4. \A j, k \in 1 .. Len(c) : c[j] = c[k] => j = k
  BY DEF IsList
<1>5. c \in Injection(1 .. Len(c), Entries)
  BY <1>3, <1>4 DEF Injection, IsInjective
<1>6. LiveCapacity \in Nat
  BY CapacitiesAssumption
<1>7. IsFiniteSet(Entries) /\ Cardinality(Entries) = LiveCapacity
  BY <1>6, FS_Interval DEF Entries
<1>8. Cardinality(1 .. Len(c)) = Len(c)
  <2>1. \A n \in Nat : Cardinality(1 .. n) = n
    BY FS_Interval
  <2> QED
    BY <1>2, <2>1
<1>9. Cardinality(1 .. Len(c)) <= Cardinality(Entries)
  BY <1>5, <1>7, FS_Injection
<1> QED
  BY <1>2, <1>7, <1>8, <1>9

\* What the chain of a profile is, if its links are those of a list.
ChainStep(prof, head, at) == [n \in Entries |->
    IF n = 1 THEN head
    ELSE IF at[n - 1] = NoEntry THEN NoEntry ELSE prof.entries[at[n - 1]].next]
ChainAt(prof, head) == CHOOSE at : at = ChainStep(prof, head, at)
Links(prof) == [i \in Entries |-> prof.entries[i].next]

LEMMA ChainDef ==
    ASSUME NEW prof, NEW head
    PROVE  Chain(prof, head) = [n \in {k \in Entries : ChainAt(prof, head)[k] # NoEntry}
                                    |-> ChainAt(prof, head)[n]]
BY DEF Chain, ChainAt, ChainStep

LEMMA ChainIs ==
    ASSUME NEW prof, NEW head, NEW S \in SUBSET Entries, NEW c,
           IsList(Links(prof), head, S, c)
    PROVE  Chain(prof, head) = c
<1> DEFINE f == [n \in Entries |-> At(c, n)]
           at == ChainAt(prof, head)
<1>1. Len(c) \in Nat /\ Len(c) <= LiveCapacity /\ LiveCapacity \in Nat
  BY ListLength, CapacitiesAssumption
<1>2. /\ \A k \in 1 .. Len(c) : c[k] \in Entries
      /\ head = At(c, 1)
      /\ \A k \in 1 .. Len(c) : prof.entries[c[k]].next = At(c, k + 1)
  <2>1. c \in Seq(S)
    BY DEF IsList
  <2>2. \A k \in 1 .. Len(c) : c[k] \in Entries
    BY <2>1
  <2>3. \A k \in 1 .. Len(c) : Links(prof)[c[k]] = prof.entries[c[k]].next
    BY <2>2 DEF Links
  <2> QED
    BY <2>2, <2>3 DEF IsList
<1>3. \A n \in Nat \ {0} : At(c, n) = NoEntry <=> n > Len(c)
  BY <1>1, <1>2 DEF At, NoEntry, Entries
<1>4. \A n \in Nat \ {0} : At(c, n + 1) = IF At(c, n) = NoEntry THEN NoEntry
                                ELSE prof.entries[At(c, n)].next
  <2> SUFFICES ASSUME NEW n \in Nat \ {0}
               PROVE  At(c, n + 1) = IF At(c, n) = NoEntry THEN NoEntry
                                ELSE prof.entries[At(c, n)].next
    OBVIOUS
  <2>1. CASE n > Len(c)
    <3>1. At(c, n) = NoEntry /\ At(c, n + 1) = NoEntry
      BY <1>1, <2>1 DEF At
    <3> QED
      BY <3>1
  <2>2. CASE ~(n > Len(c))
    <3>1. n \in 1 .. Len(c) /\ At(c, n) = c[n] /\ At(c, n) # NoEntry
      BY <1>1, <1>3, <2>2 DEF At
    <3> QED
      BY <1>2, <3>1
  <2> QED
    BY <2>1, <2>2
<1>5. f = ChainStep(prof, head, f)
  <2>1. ASSUME NEW n \in Entries
        PROVE  f[n] = IF n = 1 THEN head
                      ELSE IF f[n - 1] = NoEntry THEN NoEntry ELSE prof.entries[f[n - 1]].next
    <3>1. CASE n = 1
      BY <1>2, <3>1
    <3>2. CASE n # 1
      <4>1. n - 1 \in Entries /\ n - 1 \in Nat \ {0} /\ (n - 1) + 1 = n
        BY <1>1, <3>2 DEF Entries
      <4>2. f[n] = At(c, n) /\ f[n - 1] = At(c, n - 1)
        BY <4>1
      <4>3. At(c, (n - 1) + 1) = IF At(c, n - 1) = NoEntry THEN NoEntry
                                ELSE prof.entries[At(c, n - 1)].next
        BY <1>4, <4>1
      <4> QED
        BY <3>2, <4>1, <4>2, <4>3
    <3> QED
      BY <3>1, <3>2
  <2>2. f = [n \in Entries |-> f[n]]
    OBVIOUS
  <2> HIDE DEF f
  <2> QED
    BY <2>1, <2>2 DEF ChainStep
<1>6. at = ChainStep(prof, head, at)
  <2> HIDE DEF f
  <2> QED
    BY <1>5 DEF ChainAt
<1> HIDE DEF at, f
<1>7. \A n \in Entries : at[n] = IF n = 1 THEN head
            ELSE IF at[n - 1] = NoEntry THEN NoEntry ELSE prof.entries[at[n - 1]].next
  BY <1>6 DEF ChainStep
<1>8. \A n \in Entries : at[n] = At(c, n)
  <2> DEFINE Good == {n \in Nat : n \in Entries => at[n] = At(c, n)}
  <2>1. 0 \in Good
    BY DEF Entries
  <2>2. ASSUME NEW n \in Nat, n \in Good PROVE n + 1 \in Good
    <3> SUFFICES ASSUME n + 1 \in Entries PROVE at[n + 1] = At(c, n + 1)
      OBVIOUS
    <3>1. CASE n = 0
      BY <1>2, <1>7, <3>1
    <3>2. CASE n # 0
      <4>1. n \in Entries /\ n + 1 # 1 /\ (n + 1) - 1 = n /\ n \in Nat \ {0}
        BY <1>1, <3>2 DEF Entries
      <4>2. at[n] = At(c, n)
        BY <2>2, <4>1
      <4>3. at[n + 1] = IF at[n] = NoEntry THEN NoEntry ELSE prof.entries[at[n]].next
        BY <1>7, <4>1
      <4> QED
        BY <1>4, <4>1, <4>2, <4>3
    <3> QED
      BY <3>1, <3>2
  <2>3. \A n \in Nat : n \in Good
    <3> HIDE DEF Good
    <3> QED
      BY <2>1, <2>2, FirstBad
  <2> QED
    BY <2>3 DEF Entries
<1>9. {k \in Entries : at[k] # NoEntry} = 1 .. Len(c)
  <2>1. ASSUME NEW k \in Entries PROVE k \in Nat \ {0} /\ (at[k] # NoEntry <=> k <= Len(c))
    <3>1. k \in Nat \ {0} /\ at[k] = At(c, k)
      BY <1>8 DEF Entries
    <3> QED
      BY <1>1, <1>3, <3>1
  <2>2. 1 .. Len(c) \subseteq Entries
    BY <1>1 DEF Entries
  <2> QED
    BY <1>1, <2>1, <2>2
<1>10. Chain(prof, head) = [n \in 1 .. Len(c) |-> at[n]]
  BY <1>9, ChainDef DEF at
<1>11. \A n \in 1 .. Len(c) : at[n] = c[n]
  <2>1. \A n \in 1 .. Len(c) : n \in Entries /\ At(c, n) = c[n]
    BY <1>1 DEF Entries, At
  <2> QED
    BY <1>8, <2>1
<1>12. c = [n \in 1 .. Len(c) |-> c[n]]
  BY DEF IsList
<1> QED
  BY <1>10, <1>11, <1>12

------------------------------------------------------------------------------
(* Profiles, and what the operations on one do to each of its fields.         *)

Sum == [alloc: Words, inuse: Words]
AggregateTables == UNION {[D -> Sum] : D \in SUBSET Keys}
Entry == [pointer: Pointers \cup {NoPointer}, weight: 0 .. MaxWeight,
          stack: Keys \cup {<<>>}, next: Entries \cup {NoEntry}]
Flags == [symbol: BOOLEAN, aggregate: BOOLEAN, live: BOOLEAN]
Profiles ==
    [symbols: SUBSET Symbols, aggregates: AggregateTables, tracks: BOOLEAN,
     entries: [Entries -> Entry], buckets: [Buckets -> Entries \cup {NoEntry}],
     free: Entries \cup {NoEntry}, liveCount: Int, alloc: Words, inuse: Words,
     overflowed: Flags]

SameTable(p, q) ==
    /\ p.tracks = q.tracks /\ p.entries = q.entries /\ p.buckets = q.buckets
    /\ p.free = q.free /\ p.liveCount = q.liveCount
SameSums(p, q) == p.alloc = q.alloc /\ p.inuse = q.inuse /\ p.aggregates = q.aggregates
\* What the live table leaves alone.
SameSamples(p, q) ==
    /\ p.symbols = q.symbols /\ p.alloc = q.alloc
    /\ p.overflowed.symbol = q.overflowed.symbol
    /\ p.overflowed.aggregate = q.overflowed.aggregate
    /\ DOMAIN p.aggregates = DOMAIN q.aggregates
    /\ \A k \in DOMAIN p.aggregates : p.aggregates[k].alloc = q.aggregates[k].alloc

LEMMA TableIs == \A a : a \in AggregateTables <=> DOMAIN a \in SUBSET Keys /\ a \in [DOMAIN a -> Sum]
<1>1. ASSUME NEW a, a \in AggregateTables PROVE DOMAIN a \in SUBSET Keys /\ a \in [DOMAIN a -> Sum]
  <2>1. PICK D \in SUBSET Keys : a \in [D -> Sum]
    BY <1>1 DEF AggregateTables
  <2> QED
    BY <2>1
<1>2. ASSUME NEW a, DOMAIN a \in SUBSET Keys, a \in [DOMAIN a -> Sum] PROVE a \in AggregateTables
  BY <1>2 DEF AggregateTables
<1> QED
  BY <1>1, <1>2

LEMMA Arithmetic ==
    /\ MaxWord \in Nat /\ MaxWeight \in Nat /\ LiveCapacity \in Nat
    /\ \A v \in Words, d \in Nat :
        /\ Plus(v, d) \in Words /\ Less(v, d) \in Words
        /\ Plus(v, d) >= v /\ Less(v, d) <= v
BY CapacitiesAssumption DEF Words, Plus, Less

\* The weight of entry i is taken from, or a weight is added to, what is in use.
InUse(p, q, k, total, part) ==
    /\ q \in Profiles
    /\ SameTable(q, p) /\ SameSamples(q, p) /\ q.overflowed = p.overflowed
    /\ q.inuse = total
    /\ q.aggregates[k].inuse = part
    /\ \A l \in DOMAIN p.aggregates \ {k} : q.aggregates[l].inuse = p.aggregates[l].inuse

PutInUse(p, k, total, part) == [p EXCEPT !.aggregates[k].inuse = part, !.inuse = total]

LEMMA InUseSet ==
    ASSUME NEW p \in Profiles, NEW k \in DOMAIN p.aggregates, NEW total \in Words,
           NEW part \in Words
    PROVE  InUse(p, PutInUse(p, k, total, part), k, total, part)
<1> DEFINE a == [p.aggregates EXCEPT ![k].inuse = part]
           q == [p EXCEPT !.aggregates = a, !.inuse = total]
<1>1. /\ DOMAIN p.aggregates \in SUBSET Keys /\ p.aggregates \in [DOMAIN p.aggregates -> Sum]
  BY TableIs DEF Profiles
<1>2. /\ DOMAIN a = DOMAIN p.aggregates /\ a[k].inuse = part /\ a[k].alloc = p.aggregates[k].alloc
      /\ \A l \in DOMAIN p.aggregates : a[l].alloc = p.aggregates[l].alloc /\ a[l] \in Sum
      /\ \A l \in DOMAIN p.aggregates \ {k} : a[l].inuse = p.aggregates[l].inuse
  BY <1>1 DEF Sum
<1>3. a \in AggregateTables
  <2>1. a \in [DOMAIN a -> Sum]
    BY <1>2
  <2> HIDE DEF a
  <2> QED
    BY <1>1, <1>2, <2>1, TableIs
<1>4. PutInUse(p, k, total, part) = q
  BY DEF PutInUse
<1> HIDE DEF a
<1>5. /\ q \in Profiles /\ q.aggregates = a /\ q.inuse = total /\ q.alloc = p.alloc
      /\ q.symbols = p.symbols /\ q.overflowed = p.overflowed /\ q.tracks = p.tracks
      /\ q.entries = p.entries /\ q.buckets = p.buckets /\ q.free = p.free
      /\ q.liveCount = p.liveCount
  BY <1>3 DEF Profiles
<1> HIDE DEF q
<1> QED
  BY <1>2, <1>4, <1>5 DEF InUse, SameTable, SameSamples

LEMMA SubtractIs ==
    ASSUME NEW p \in Profiles, NEW i \in Entries, NEW k, k = p.entries[i].stack,
           k \in DOMAIN p.aggregates
    PROVE  InUse(p, SubtractWeight(p, i), k, Less(p.inuse, p.entries[i].weight),
                 Less(p.aggregates[k].inuse, p.entries[i].weight))
<1> DEFINE total == Less(p.inuse, p.entries[i].weight)
           part == Less(p.aggregates[k].inuse, p.entries[i].weight)
<1>1. p.inuse \in Words /\ p.aggregates[k].inuse \in Words /\ p.entries[i].weight \in Nat
  BY SMTT(30), TableIs, Arithmetic DEF Profiles, Sum, Entry
<1>2. total \in Words /\ part \in Words
  BY <1>1, Arithmetic
<1>3. SubtractWeight(p, i) = PutInUse(p, k, total, part)
  BY DEF PutInUse, SubtractWeight, Profiles
<1> HIDE DEF total, part
<1>4. InUse(p, SubtractWeight(p, i), k, total, part)
  BY <1>2, <1>3, InUseSet
<1> USE DEF total, part
<1> QED
  BY <1>4

LEMMA AddIs ==
    ASSUME NEW p \in Profiles, NEW k \in DOMAIN p.aggregates, NEW w \in Weights
    PROVE  InUse(p, AddWeight(p, k, w), k, Plus(p.inuse, w), Plus(p.aggregates[k].inuse, w))
<1> DEFINE total == Plus(p.inuse, w)
           part == Plus(p.aggregates[k].inuse, w)
<1>1. p.inuse \in Words /\ p.aggregates[k].inuse \in Words /\ w \in Nat
  BY TableIs, Arithmetic DEF Profiles, Sum, Weights
<1>2. total \in Words /\ part \in Words
  BY <1>1, Arithmetic
<1>3. AddWeight(p, k, w) = PutInUse(p, k, total, part)
  BY DEF PutInUse, AddWeight, Profiles
<1> HIDE DEF total, part
<1>4. InUse(p, AddWeight(p, k, w), k, total, part)
  BY <1>2, <1>3, InUseSet
<1> USE DEF total, part
<1> QED
  BY <1>4

------------------------------------------------------------------------------
(* The live table.                                                            *)

HeldIn(prof) == {i \in Entries : prof.entries[i].pointer # NoPointer}
InBucket(prof, hash, b) == {i \in HeldIn(prof) : hash[prof.entries[i].pointer] = b}
Unused(prof) == IF prof.tracks THEN Entries \ HeldIn(prof) ELSE {}

Table(prof, hash) ==
    /\ ListOf(Links(prof), prof.free, Unused(prof))
    /\ \A b \in Buckets : ListOf(Links(prof), prof.buckets[b], InBucket(prof, hash, b))
    /\ \A i, j \in HeldIn(prof) : prof.entries[i].pointer = prof.entries[j].pointer => i = j
    /\ prof.tracks => prof.liveCount = Cardinality(HeldIn(prof))
    /\ ~prof.tracks => HeldIn(prof) = {} /\ prof.liveCount = 0
    /\ \A i \in HeldIn(prof) : /\ prof.entries[i].stack \in DOMAIN prof.aggregates
                               /\ prof.entries[i].weight \in Weights

LEMMA NoEntryIs == NoEntry \notin Entries
BY DEF NoEntry, Entries

LEMMA HeldTypes ==
    ASSUME NEW prof \in Profiles
    PROVE  /\ HeldIn(prof) \in SUBSET Entries /\ IsFiniteSet(HeldIn(prof))
           /\ \A i \in HeldIn(prof) : prof.entries[i].pointer \in Pointers
<1>1. IsFiniteSet(Entries)
  BY Arithmetic, FS_Interval DEF Entries
<1>2. HeldIn(prof) \in SUBSET Entries
  BY DEF HeldIn
<1>3. \A i \in HeldIn(prof) : prof.entries[i].pointer \in Pointers
  BY DEF HeldIn, Profiles, Entry
<1> QED
  BY <1>1, <1>2, <1>3, FS_Subset

LEMMA BucketIs ==
    ASSUME bucketOf \in [Pointers -> Buckets], NEW prof \in Profiles, Table(prof, bucketOf),
           NEW p \in Pointers
    PROVE  \E c : /\ IsList(Links(prof), prof.buckets[bucketOf[p]],
                            InBucket(prof, bucketOf, bucketOf[p]), c)
                  /\ BucketChain(prof, p) = c
<1>1. bucketOf[p] \in Buckets
  OBVIOUS
<1>2. PICK c : IsList(Links(prof), prof.buckets[bucketOf[p]],
                      InBucket(prof, bucketOf, bucketOf[p]), c)
  BY <1>1 DEF Table, ListOf
<1>3. InBucket(prof, bucketOf, bucketOf[p]) \in SUBSET Entries
  BY DEF InBucket, HeldIn
<1>4. Chain(prof, prof.buckets[bucketOf[p]]) = c
  BY <1>2, <1>3, ChainIs
<1> QED
  BY <1>2, <1>4 DEF BucketChain

\* Find finds the entry that holds the pointer.
LEMMA FindIs ==
    ASSUME bucketOf \in [Pointers -> Buckets], NEW prof \in Profiles, Table(prof, bucketOf),
           NEW p \in Pointers
    PROVE  /\ \A i \in HeldIn(prof) : prof.entries[i].pointer = p => Find(prof, p) = i
           /\ Find(prof, p) # NoEntry =>
                Find(prof, p) \in HeldIn(prof) /\ prof.entries[Find(prof, p)].pointer = p
<1>1. PICK c : /\ IsList(Links(prof), prof.buckets[bucketOf[p]],
                            InBucket(prof, bucketOf, bucketOf[p]), c)
               /\ BucketChain(prof, p) = c
  BY BucketIs
<1> DEFINE S == InBucket(prof, bucketOf, bucketOf[p])
           found == {i \in ToSet(BucketChain(prof, p)) : prof.entries[i].pointer = p}
<1>2. ToSet(c) = S
  <2>1. c \in Seq(S) /\ \A i \in S : \E k \in 1 .. Len(c) : c[k] = i
    BY <1>1 DEF IsList
  <2>2. DOMAIN c = 1 .. Len(c) /\ \A k \in 1 .. Len(c) : c[k] \in S
    BY <2>1
  <2> QED
    BY <2>1, <2>2 DEF ToSet
<1>3. found = {i \in HeldIn(prof) : prof.entries[i].pointer = p}
  <2>1. found = {i \in S : prof.entries[i].pointer = p}
    BY <1>1, <1>2
  <2> QED
    BY <2>1 DEF InBucket
<1>4. Find(prof, p) = IF found = {} THEN NoEntry ELSE CHOOSE i \in found : TRUE
  BY DEF Find
<1> HIDE DEF found
<1>5. \A i \in HeldIn(prof) : prof.entries[i].pointer = p => found = {i}
  BY <1>3 DEF Table
<1>6. ASSUME NEW i \in HeldIn(prof), prof.entries[i].pointer = p PROVE Find(prof, p) = i
  <2>1. found = {i}
    BY <1>5, <1>6
  <2> QED
    BY <1>4, <2>1
<1>7. ASSUME Find(prof, p) # NoEntry
      PROVE  Find(prof, p) \in HeldIn(prof) /\ prof.entries[Find(prof, p)].pointer = p
  <2>1. found # {} /\ Find(prof, p) \in found
    BY <1>4, <1>7
  <2> QED
    BY <1>3, <2>1
<1> QED
  BY <1>6, <1>7

\* What the operations on the table leave alone.
SameRest(p, q) ==
    /\ p.symbols = q.symbols /\ p.aggregates = q.aggregates /\ p.tracks = q.tracks
    /\ p.alloc = q.alloc /\ p.inuse = q.inuse /\ p.overflowed = q.overflowed
SameEntry(e, f) == e.pointer = f.pointer /\ e.weight = f.weight /\ e.stack = f.stack

LEMMA UnlinkIs ==
    ASSUME NEW p, NEW b, b = bucketOf[p], b \in Buckets, NEW q \in Profiles, NEW i \in Entries,
           NEW c, BucketChain(q, p) = c, NEW k \in 1 .. Len(c), DOMAIN c = 1 .. Len(c),
           c[k] = i, \A j, l \in 1 .. Len(c) : c[j] = c[l] => j = l,
           k # 1 => c[k - 1] \in Entries
    PROVE  LET u == Unlink(q, p, i) IN
           /\ u \in Profiles
           /\ SameRest(u, q) /\ u.free = q.free /\ u.liveCount = q.liveCount
           /\ \A j \in Entries :
                /\ SameEntry(u.entries[j], q.entries[j])
                /\ u.entries[j].next = IF k # 1 /\ j = c[k - 1] THEN q.entries[i].next
                                       ELSE q.entries[j].next
           /\ \A d \in Buckets : u.buckets[d] = IF k = 1 /\ d = b THEN q.entries[i].next
                                                ELSE q.buckets[d]
<1> DEFINE place == CHOOSE l \in DOMAIN c : c[l] = i
           u == Unlink(q, p, i)
<1>1. place = k
  <2>1. place \in 1 .. Len(c) /\ c[place] = i
    OBVIOUS
  <2> QED
    BY <2>1
<1>2. u = IF k = 1 THEN [q EXCEPT !.buckets[b] = q.entries[i].next]
          ELSE [q EXCEPT !.entries[c[k - 1]].next = q.entries[i].next]
  <2>1. u = IF place = 1 THEN [q EXCEPT !.buckets[b] = q.entries[i].next]
          ELSE [q EXCEPT !.entries[c[place - 1]].next = q.entries[i].next]
    BY DEF Unlink
  <2> HIDE DEF place, u
  <2> QED
    BY <1>1, <2>1
<1> HIDE DEF place, u
<1>3. q.entries[i].next \in Entries \cup {NoEntry}
  BY DEF Profiles, Entry
<1>4. CASE k = 1
  <2> DEFINE buckets == [q.buckets EXCEPT ![b] = q.entries[i].next]
  <2>1. buckets \in [Buckets -> Entries \cup {NoEntry}]
    BY <1>3 DEF Profiles
  <2>2. \A d \in Buckets : buckets[d] = IF d = b THEN q.entries[i].next ELSE q.buckets[d]
    BY DEF Profiles
  <2>3. u = [q EXCEPT !.buckets = buckets]
    BY <1>2, <1>4
  <2> HIDE DEF buckets
  <2>4. u \in Profiles /\ u.buckets = buckets /\ u.entries = q.entries /\ SameRest(u, q)
        /\ u.free = q.free /\ u.liveCount = q.liveCount
    BY <2>1, <2>3 DEF Profiles, SameRest
  <2> QED
    BY <1>4, <2>2, <2>4 DEF SameEntry, u
<1>5. CASE k # 1
  <2> DEFINE l == c[k - 1]
             entries == [q.entries EXCEPT ![l].next = q.entries[i].next]
  <2>1. l \in Entries /\ q.entries \in [Entries -> Entry]
    BY <1>5 DEF Profiles
  <2>2. u = [q EXCEPT !.entries = entries]
    BY <1>2, <1>5
  <2> HIDE DEF l
  <2>3. \A j \in Entries : /\ SameEntry(entries[j], q.entries[j])
            /\ entries[j].next = IF j = l THEN q.entries[i].next ELSE q.entries[j].next
    BY <2>1 DEF SameEntry, Entry
  <2>4. entries \in [Entries -> Entry]
    BY <1>3, <2>1 DEF Entry
  <2> HIDE DEF entries
  <2>5. u \in Profiles /\ u.buckets = q.buckets /\ u.entries = entries /\ SameRest(u, q)
        /\ u.free = q.free /\ u.liveCount = q.liveCount
    BY <2>2, <2>4 DEF Profiles, SameRest
  <2> QED
    BY <1>5, <2>3, <2>5 DEF l, u
<1> QED
  BY <1>4, <1>5

\* Entry i goes to the head of the free list.
Released(u, i, free) == [u EXCEPT !.entries[i].pointer = NoPointer, !.entries[i].next = free,
                            !.free = i, !.liveCount = @ - 1]

LEMMA ReleasedIs ==
    ASSUME NEW u \in Profiles, NEW i \in Entries, NEW free, free = u.free
    PROVE  LET r == Released(u, i, free) IN
           /\ r \in Profiles
           /\ SameRest(r, u) /\ r.buckets = u.buckets
           /\ r.free = i /\ r.liveCount = u.liveCount - 1
           /\ r.entries[i].pointer = NoPointer /\ r.entries[i].next = u.free
           /\ \A j \in Entries \ {i} : r.entries[j] = u.entries[j]
<1> DEFINE e == [u.entries[i] EXCEPT !.pointer = NoPointer, !.next = u.free]
           entries == [u.entries EXCEPT ![i] = e]
           r == Released(u, i, free)
<1>1. u.entries \in [Entries -> Entry] /\ u.free \in Entries \cup {NoEntry} /\ u.liveCount - 1 \in Int
  BY DEF Profiles
<1>2. e \in Entry /\ e.pointer = NoPointer /\ e.next = u.free
  BY <1>1 DEF Entry
<1>3. r = [u EXCEPT !.entries = entries, !.free = i, !.liveCount = u.liveCount - 1]
  BY <1>1 DEF Released, Profiles
<1> HIDE DEF e, r
<1>4. entries \in [Entries -> Entry] /\ entries[i] = e /\ \A j \in Entries \ {i} : entries[j] = u.entries[j]
  BY <1>1, <1>2
<1> HIDE DEF entries
<1>5. r \in Profiles /\ SameRest(r, u) /\ r.buckets = u.buckets
      /\ r.free = i /\ r.liveCount = u.liveCount - 1 /\ r.entries = entries
  BY <1>1, <1>3, <1>4 DEF Profiles, SameRest
<1> QED
  BY <1>2, <1>4, <1>5 DEF r

\* Entry i is removed: its weight is no longer in use.
Removed(prof, r, hash, i) ==
    LET w == prof.entries[i].weight
        k == prof.entries[i].stack
    IN  /\ r \in Profiles /\ Table(r, hash)
        /\ SameSamples(r, prof) /\ r.overflowed = prof.overflowed /\ r.tracks = prof.tracks
        /\ r.inuse = Less(prof.inuse, w)
        /\ \A l \in DOMAIN prof.aggregates : r.aggregates[l].inuse =
                IF l = k THEN Less(prof.aggregates[l].inuse, w) ELSE prof.aggregates[l].inuse
        /\ HeldIn(r) = HeldIn(prof) \ {i}
        /\ \A j \in HeldIn(r) : SameEntry(r.entries[j], prof.entries[j])

LEMMA RemoveIs ==
    ASSUME bucketOf \in [Pointers -> Buckets], NEW prof \in Profiles, Table(prof, bucketOf),
           NEW p \in Pointers, NEW i \in HeldIn(prof), prof.entries[i].pointer = p
    PROVE  Removed(prof, RemoveLive(prof, p), bucketOf, i)
<1> DEFINE b == bucketOf[p]
           w == prof.entries[i].weight
           stack == prof.entries[i].stack
           S == InBucket(prof, bucketOf, b)
           q == SubtractWeight(prof, i)
           u == Unlink(q, p, i)
           r == Released(u, i, prof.free)
<1>1. /\ b \in Buckets /\ i \in Entries /\ i \in S /\ prof.tracks /\ Find(prof, p) = i
      /\ stack \in DOMAIN prof.aggregates /\ i # NoEntry
  BY FindIs, NoEntryIs DEF HeldIn, InBucket, Table
<1>2. RemoveLive(prof, p) = r
  <2>1. RemoveLive(prof, p) = IF ~prof.tracks \/ Find(prof, p) = NoEntry THEN prof
            ELSE Released(Unlink(SubtractWeight(prof, Find(prof, p)), p, Find(prof, p)),
                          Find(prof, p), prof.free)
    BY DEF RemoveLive, Released
  <2> QED
    BY <1>1, <2>1
<1>3. InUse(prof, q, stack, Less(prof.inuse, w), Less(prof.aggregates[stack].inuse, w))
  BY <1>1, SubtractIs
<1> HIDE DEF q
<1>4. PICK c : IsList(Links(prof), prof.buckets[b], S, c) /\ BucketChain(prof, p) = c
  BY BucketIs
<1>5. /\ q \in Profiles /\ q.tracks = prof.tracks /\ q.entries = prof.entries
      /\ q.buckets = prof.buckets /\ q.free = prof.free /\ q.liveCount = prof.liveCount
      /\ q.overflowed = prof.overflowed
  BY <1>3 DEF InUse, SameTable
<1>6. BucketChain(q, p) = c
  <2>1. \A h : Chain(q, h) = Chain(prof, h)
    BY <1>5 DEF Chain
  <2> QED
    BY <1>4, <1>5, <2>1 DEF BucketChain
<1>7. c \in Seq(S) /\ Len(c) \in Nat /\ DOMAIN c = 1 .. Len(c)
  BY <1>4 DEF IsList
<1>8. PICK k \in 1 .. Len(c) : c[k] = i
  BY <1>1, <1>4 DEF IsList
<1>9. \A j, l \in 1 .. Len(c) : c[j] = c[l] => j = l
  BY <1>4 DEF IsList
<1>10. \A j \in 1 .. Len(c) : c[j] \in S /\ c[j] \in Entries
  BY <1>7 DEF InBucket, HeldIn
<1>11. k # 1 => k - 1 \in 1 .. Len(c) /\ c[k - 1] \in S /\ c[k - 1] \in Entries /\ c[k - 1] # i
  <2>1. k # 1 => k - 1 \in 1 .. Len(c) /\ k - 1 # k
    BY <1>7
  <2> QED
    BY <1>8, <1>9, <1>10, <2>1
<1>12. /\ u \in Profiles
       /\ SameRest(u, q) /\ u.free = q.free /\ u.liveCount = q.liveCount
       /\ \A j \in Entries :
            /\ SameEntry(u.entries[j], q.entries[j])
            /\ u.entries[j].next = IF k # 1 /\ j = c[k - 1] THEN q.entries[i].next
                                   ELSE q.entries[j].next
       /\ \A d \in Buckets : u.buckets[d] = IF k = 1 /\ d = b THEN q.entries[i].next
                                            ELSE q.buckets[d]
  BY <1>1, <1>5, <1>6, <1>7, <1>8, <1>9, <1>11, UnlinkIs
<1> HIDE DEF u
<1>13. /\ r \in Profiles
       /\ SameRest(r, u) /\ r.buckets = u.buckets
       /\ r.free = i /\ r.liveCount = u.liveCount - 1
       /\ r.entries[i].pointer = NoPointer /\ r.entries[i].next = u.free
       /\ \A j \in Entries \ {i} : r.entries[j] = u.entries[j]
  BY <1>1, <1>5, <1>12, ReleasedIs
<1> HIDE DEF r
\* The fields of the result.
<1>14. /\ r.free = i /\ r.liveCount = prof.liveCount - 1 /\ r.tracks = prof.tracks
       /\ r.entries[i].pointer = NoPointer /\ r.entries[i].next = prof.free
       /\ \A j \in Entries \ {i} :
            /\ SameEntry(r.entries[j], prof.entries[j])
            /\ r.entries[j].next = IF k # 1 /\ j = c[k - 1] THEN prof.entries[i].next
                                   ELSE prof.entries[j].next
       /\ \A d \in Buckets : r.buckets[d] = IF k = 1 /\ d = b THEN prof.entries[i].next
                                            ELSE prof.buckets[d]
       /\ r.overflowed = prof.overflowed
  BY <1>5, <1>12, <1>13 DEF SameRest
<1>15. SameRest(r, q)
  BY <1>12, <1>13 DEF SameRest
<1>16. HeldIn(r) = HeldIn(prof) \ {i}
  BY <1>14, <1>1 DEF HeldIn, SameEntry
<1>17. \A j \in HeldIn(r) : SameEntry(r.entries[j], prof.entries[j])
  BY <1>14, <1>16 DEF HeldIn
<1>18. \A d : InBucket(r, bucketOf, d) = IF d = b THEN S \ {i} ELSE InBucket(prof, bucketOf, d)
  <2>1. \A d : InBucket(r, bucketOf, d) = InBucket(prof, bucketOf, d) \ {i}
    BY <1>16, <1>17 DEF InBucket, SameEntry
  <2>2. \A d : d # b => i \notin InBucket(prof, bucketOf, d)
    BY DEF InBucket
  <2> QED
    BY <2>1, <2>2
<1>19. \A j \in Entries : Links(r)[j] = r.entries[j].next /\ Links(prof)[j] = prof.entries[j].next
  BY DEF Links
<1>20. \A d \in Buckets : ListOf(Links(r), r.buckets[d], InBucket(r, bucketOf, d))
  <2> SUFFICES ASSUME NEW d \in Buckets
               PROVE  ListOf(Links(r), r.buckets[d], InBucket(r, bucketOf, d))
    OBVIOUS
  <2>1. CASE d = b
    <3> DEFINE next == Links(prof)
               link == Links(r)
               head == prof.buckets[b]
               new == r.buckets[b]
    <3>1. k = 1 => new = next[i] /\ \A j \in S \ {i} : link[j] = next[j]
      BY <1>1, <1>14, <1>19 DEF InBucket, HeldIn
    <3>2. k # 1 => new = head /\ link[c[k - 1]] = next[i]
                   /\ \A j \in S \ {i, c[k - 1]} : link[j] = next[j]
      BY <1>1, <1>11, <1>14, <1>19 DEF InBucket, HeldIn
    <3>3. IsList(next, head, S, c)
      BY <1>4
    <3> HIDE DEF next, link, head, new, S
    <3>5. PassesOver(next, link, head, new, S, c, i, k)
      BY <3>1, <3>2 DEF PassesOver
    <3>4. ListOf(link, new, S \ {i})
      BY <1>8, <3>3, <3>5, ListRemove
    <3> QED
      BY <1>18, <2>1, <3>4 DEF link, new
  <2>2. CASE d # b
    <3>1. ListOf(Links(prof), prof.buckets[d], InBucket(prof, bucketOf, d))
      BY DEF Table
    <3>2. \A j \in InBucket(prof, bucketOf, d) : j \in Entries /\ j \notin S
      BY <2>2 DEF InBucket, HeldIn
    <3>3. \A j \in InBucket(prof, bucketOf, d) : Links(r)[j] = Links(prof)[j]
      BY <1>1, <1>11, <1>14, <1>19, <3>2
    <3>4. ListOf(Links(r), prof.buckets[d], InBucket(prof, bucketOf, d))
      BY <3>1, <3>3, ListFrame
    <3> QED
      BY <1>14, <1>18, <2>2, <3>4
  <2> QED
    BY <2>1, <2>2
<1>21. ListOf(Links(r), r.free, Unused(r))
  <2> DEFINE U == Unused(prof)
  <2>1. U = Entries \ HeldIn(prof) /\ Unused(r) = U \cup {i} /\ i \notin U
    BY <1>1, <1>14, <1>16 DEF Unused
  <2>2. ListOf(Links(prof), prof.free, U)
    BY DEF Table
  <2>3. \A j \in U : j \in Entries \ {i} /\ j \notin S
    BY <1>1, <2>1 DEF InBucket
  <2>4. \A j \in U : Links(r)[j] = Links(prof)[j]
    BY <1>11, <1>14, <1>19, <2>3
  <2>5. Links(r)[i] = prof.free
    BY <1>1, <1>14, <1>19
  <2> HIDE DEF U
  <2>6. ListOf(Links(r), i, U \cup {i})
    BY <2>1, <2>2, <2>4, <2>5, ListPush
  <2> QED
    BY <1>14, <2>1, <2>6
<1>22. Cardinality(HeldIn(r)) = Cardinality(HeldIn(prof)) - 1
  BY <1>16, HeldTypes, FS_RemoveElement
<1>23. DOMAIN r.aggregates = DOMAIN prof.aggregates
  BY <1>3, <1>15 DEF InUse, SameRest, SameSamples
<1>24. Table(r, bucketOf)
  <2>1. \A j, l \in HeldIn(r) : r.entries[j].pointer = r.entries[l].pointer => j = l
    BY <1>16, <1>17 DEF Table, SameEntry
  <2>2. \A j \in HeldIn(r) : /\ r.entries[j].stack \in DOMAIN r.aggregates
                             /\ r.entries[j].weight \in Weights
    BY <1>16, <1>17, <1>23 DEF Table, SameEntry
  <2>3. r.tracks /\ r.liveCount = Cardinality(HeldIn(r))
    BY <1>1, <1>14, <1>22 DEF Table
  <2> QED
    BY <1>20, <1>21, <2>1, <2>2, <2>3 DEF Table
<1>25. SameSamples(r, prof)
  BY <1>3, <1>15 DEF InUse, SameRest, SameSamples
<1>26. /\ r.inuse = Less(prof.inuse, w)
       /\ \A l \in DOMAIN prof.aggregates : r.aggregates[l].inuse =
                IF l = stack THEN Less(prof.aggregates[l].inuse, w) ELSE prof.aggregates[l].inuse
  BY <1>3, <1>15 DEF InUse, SameRest
<1> QED
  BY <1>2, <1>13, <1>14, <1>16, <1>17, <1>24, <1>25, <1>26 DEF Removed

LEMMA RemoveNone ==
    ASSUME bucketOf \in [Pointers -> Buckets], NEW prof \in Profiles, Table(prof, bucketOf),
           NEW p \in Pointers, \A i \in HeldIn(prof) : prof.entries[i].pointer # p
    PROVE  RemoveLive(prof, p) = prof
<1>1. Find(prof, p) = NoEntry
  BY FindIs
<1> QED
  BY <1>1 DEF RemoveLive

\* Entry i is taken for a block p that has none.
Added(prof, r, hash, i, p, k, w) ==
    /\ r \in Profiles /\ Table(r, hash)
    /\ SameSamples(r, prof) /\ r.tracks = prof.tracks
    /\ r.inuse = Plus(prof.inuse, w)
    /\ \A l \in DOMAIN prof.aggregates : r.aggregates[l].inuse =
            IF l = k THEN Plus(prof.aggregates[l].inuse, w) ELSE prof.aggregates[l].inuse
    /\ i \in Entries \ HeldIn(prof)
    /\ HeldIn(r) = HeldIn(prof) \cup {i}
    /\ \A j \in HeldIn(prof) : SameEntry(r.entries[j], prof.entries[j])
    /\ r.entries[i].pointer = p /\ r.entries[i].weight = w /\ r.entries[i].stack = k

\* Only the report that a live entry was lost changes.
Kept(prof, r) ==
    /\ r \in Profiles
    /\ SameTable(r, prof) /\ SameSums(r, prof)
    /\ r.symbols = prof.symbols /\ r.overflowed.symbol = prof.overflowed.symbol
    /\ r.overflowed.aggregate = prof.overflowed.aggregate

Taken(prof, i, entry, b) ==
    [prof EXCEPT !.free = prof.entries[i].next, !.entries[i] = entry,
                 !.buckets[b] = i, !.liveCount = @ + 1]

LEMMA TakenIs ==
    ASSUME NEW prof \in Profiles, NEW i \in Entries, NEW entry \in Entry, NEW b \in Buckets
    PROVE  LET r == Taken(prof, i, entry, b) IN
           /\ r \in Profiles /\ SameRest(r, prof)
           /\ r.free = prof.entries[i].next /\ r.liveCount = prof.liveCount + 1
           /\ r.entries[i] = entry /\ \A j \in Entries \ {i} : r.entries[j] = prof.entries[j]
           /\ \A d \in Buckets : r.buckets[d] = IF d = b THEN i ELSE prof.buckets[d]
<1> DEFINE entries == [prof.entries EXCEPT ![i] = entry]
           buckets == [prof.buckets EXCEPT ![b] = i]
           r == Taken(prof, i, entry, b)
<1>1. /\ prof.entries \in [Entries -> Entry] /\ prof.liveCount + 1 \in Int
      /\ prof.buckets \in [Buckets -> Entries \cup {NoEntry}]
      /\ prof.entries[i].next \in Entries \cup {NoEntry}
  BY DEF Profiles, Entry
<1>2. r = [prof EXCEPT !.free = prof.entries[i].next, !.entries = entries,
                       !.buckets = buckets, !.liveCount = prof.liveCount + 1]
  BY <1>1 DEF Taken, Profiles
<1> HIDE DEF r
<1>3. entries \in [Entries -> Entry] /\ entries[i] = entry
      /\ \A j \in Entries \ {i} : entries[j] = prof.entries[j]
  BY <1>1
<1>4. buckets \in [Buckets -> Entries \cup {NoEntry}]
      /\ \A d \in Buckets : buckets[d] = IF d = b THEN i ELSE prof.buckets[d]
  BY <1>1
<1> HIDE DEF entries, buckets
<1>5. r \in Profiles /\ SameRest(r, prof) /\ r.free = prof.entries[i].next
      /\ r.liveCount = prof.liveCount + 1 /\ r.entries = entries /\ r.buckets = buckets
  BY <1>1, <1>2, <1>3, <1>4 DEF Profiles, SameRest
<1> QED
  BY <1>3, <1>4, <1>5 DEF r

LEMMA LiveOverflow ==
    ASSUME NEW prof \in Profiles
    PROVE  Kept(prof, [prof EXCEPT !.overflowed.live = TRUE])
<1> DEFINE flags == [prof.overflowed EXCEPT !.live = TRUE]
           r == [prof EXCEPT !.overflowed = flags]
<1>1. flags \in Flags /\ flags.symbol = prof.overflowed.symbol
      /\ flags.aggregate = prof.overflowed.aggregate
  BY DEF Profiles, Flags
<1>2. [prof EXCEPT !.overflowed.live = TRUE] = r
  OBVIOUS
<1> HIDE DEF flags
<1>3. r \in Profiles /\ SameTable(r, prof) /\ SameSums(r, prof) /\ r.symbols = prof.symbols
      /\ r.overflowed = flags
  BY <1>1 DEF Profiles, SameTable, SameSums
<1> HIDE DEF r
<1> QED
  BY <1>1, <1>2, <1>3 DEF Kept

LEMMA KeptTable ==
    ASSUME NEW prof, NEW r, Kept(prof, r), NEW hash, Table(prof, hash)
    PROVE  Table(r, hash) /\ HeldIn(r) = HeldIn(prof) /\ SameSamples(r, prof)
<1>1. r.entries = prof.entries /\ r.buckets = prof.buckets /\ r.free = prof.free
      /\ r.liveCount = prof.liveCount /\ r.tracks = prof.tracks
      /\ r.aggregates = prof.aggregates /\ r.alloc = prof.alloc
  BY DEF Kept, SameTable, SameSums
<1>2. HeldIn(r) = HeldIn(prof) /\ Links(r) = Links(prof) /\ Unused(r) = Unused(prof)
      /\ \A b : InBucket(r, hash, b) = InBucket(prof, hash, b)
  BY <1>1 DEF HeldIn, Links, Unused, InBucket
<1> QED
  BY <1>1, <1>2 DEF Table, SameSamples, Kept

LEMMA AddTaken ==
    ASSUME bucketOf \in [Pointers -> Buckets], NEW prof \in Profiles, Table(prof, bucketOf),
           NEW p \in Pointers, \A i \in HeldIn(prof) : prof.entries[i].pointer # p,
           prof.tracks, prof.free # NoEntry, NEW k \in DOMAIN prof.aggregates, NEW w \in Weights
    PROVE  Added(prof, AddLive(prof, p, k, w), bucketOf, prof.free, p, k, w)
<1> DEFINE b == bucketOf[p]
           i == prof.free
           S == InBucket(prof, bucketOf, b)
           entry == [pointer |-> p, weight |-> w, stack |-> k, next |-> prof.buckets[b]]
           t == Taken(prof, i, entry, b)
           r == AddWeight(t, k, w)
<1>1. b \in Buckets /\ Find(prof, p) = NoEntry
  BY FindIs
<1>2. AddLive(prof, p, k, w) = r
  BY <1>1 DEF AddLive, Taken
<1>3. i \in Entries \ HeldIn(prof) /\ i # NoEntry
  <2> DEFINE F == Unused(prof)
             link == Links(prof)
             head == prof.free
  <2>1. ListOf(link, head, F) /\ F = Entries \ HeldIn(prof)
    BY DEF Table, Unused
  <2>2. NoEntry \notin F
    BY <2>1, NoEntryIs
  <2> HIDE DEF F, link
  <2>3. head \in F
    BY <2>1, <2>2, ListHead
  <2> QED
    BY <2>1, <2>3
<1>4. entry \in Entry
  <2>1. k \in Keys /\ prof.buckets[b] \in Entries \cup {NoEntry} /\ w \in 0 .. MaxWeight
    BY SMTT(30), <1>1, TableIs, Arithmetic DEF Profiles, Weights
  <2> QED
    BY <2>1 DEF Entry
<1> HIDE DEF i
<1>5. entry.pointer = p /\ entry.weight = w /\ entry.stack = k /\ entry.next = prof.buckets[b]
  OBVIOUS
<1> HIDE DEF entry
<1>6. /\ t \in Profiles /\ SameRest(t, prof)
      /\ t.free = prof.entries[i].next /\ t.liveCount = prof.liveCount + 1
      /\ t.entries[i] = entry /\ \A j \in Entries \ {i} : t.entries[j] = prof.entries[j]
      /\ \A d \in Buckets : t.buckets[d] = IF d = b THEN i ELSE prof.buckets[d]
  BY <1>1, <1>3, <1>4, TakenIs
<1> HIDE DEF t
<1>7. t.aggregates = prof.aggregates /\ t.inuse = prof.inuse /\ t.tracks = prof.tracks
      /\ t.overflowed = prof.overflowed /\ t.symbols = prof.symbols /\ t.alloc = prof.alloc
  BY <1>6 DEF SameRest
<1>8. InUse(t, r, k, Plus(t.inuse, w), Plus(t.aggregates[k].inuse, w))
  BY <1>6, <1>7, AddIs
<1> HIDE DEF r
<1>9. /\ r \in Profiles /\ r.tracks /\ r.overflowed = prof.overflowed
      /\ r.free = prof.entries[i].next /\ r.liveCount = prof.liveCount + 1
      /\ r.entries[i] = entry /\ \A j \in Entries \ {i} : r.entries[j] = prof.entries[j]
      /\ \A d \in Buckets : r.buckets[d] = IF d = b THEN i ELSE prof.buckets[d]
      /\ SameSamples(r, prof)
  BY <1>6, <1>7, <1>8 DEF InUse, SameTable, SameSamples
<1>10. p # NoPointer
  BY PointersAssumption
<1>11. HeldIn(r) = HeldIn(prof) \cup {i}
  BY <1>3, <1>5, <1>9, <1>10 DEF HeldIn
<1>12. \A j \in HeldIn(prof) : SameEntry(r.entries[j], prof.entries[j]) /\ j # i /\ j \in Entries
  BY <1>3, <1>9 DEF SameEntry, HeldIn
<1>13. \A d : InBucket(r, bucketOf, d) = IF d = b THEN S \cup {i} ELSE InBucket(prof, bucketOf, d)
  <2> SUFFICES ASSUME NEW d
               PROVE  InBucket(r, bucketOf, d) = IF d = b THEN S \cup {i} ELSE InBucket(prof, bucketOf, d)
    OBVIOUS
  <2>1. r.entries[i].pointer = p
    BY <1>5, <1>9
  <2>2. \A j \in HeldIn(prof) : r.entries[j].pointer = prof.entries[j].pointer
    BY <1>12 DEF SameEntry
  <2> QED
    BY <1>11, <2>1, <2>2 DEF InBucket
<1>14. \A j \in Entries : Links(r)[j] = r.entries[j].next /\ Links(prof)[j] = prof.entries[j].next
  BY DEF Links
<1>15. \A j \in Entries \ {i} : Links(r)[j] = Links(prof)[j]
  BY <1>9, <1>14
<1>16. \A d \in Buckets : ListOf(Links(r), r.buckets[d], InBucket(r, bucketOf, d))
  <2> SUFFICES ASSUME NEW d \in Buckets
               PROVE  ListOf(Links(r), r.buckets[d], InBucket(r, bucketOf, d))
    OBVIOUS
  <2> DEFINE T == InBucket(prof, bucketOf, d)
             link == Links(r)
             next == Links(prof)
             head == prof.buckets[d]
  <2>1. ListOf(next, head, T)
    BY DEF Table
  <2>2. \A j \in T : link[j] = next[j]
    BY <1>12, <1>15 DEF InBucket
  <2>3. i \notin T
    BY <1>3 DEF InBucket
  <2>4. d = b => link[i] = head
    BY <1>3, <1>5, <1>9, <1>14
  <2> HIDE DEF link, next, head, T
  <2>5. ASSUME d = b PROVE ListOf(Links(r), r.buckets[d], InBucket(r, bucketOf, d))
    <3>1. link[i] = head
      BY <2>4, <2>5
    <3>2. ListOf(link, i, T \cup {i})
      BY <2>1, <2>2, <2>3, <3>1, ListPush
    <3> QED
      BY <1>9, <1>13, <2>5, <3>2 DEF link, T
  <2>6. ASSUME d # b PROVE ListOf(Links(r), r.buckets[d], InBucket(r, bucketOf, d))
    <3>1. ListOf(link, head, T)
      BY <2>1, <2>2, ListFrame
    <3> QED
      BY <1>9, <1>13, <2>6, <3>1 DEF link, T, head
  <2> QED
    BY <2>5, <2>6
<1>17. ListOf(Links(r), r.free, Unused(r))
  <2> DEFINE F == Unused(prof)
             link == Links(r)
             next == Links(prof)
             new == r.free
  <2>1. F = Entries \ HeldIn(prof) /\ Unused(r) = F \ {i} /\ i \in F
    BY <1>3, <1>9, <1>11 DEF Unused
  <2>2. PICK c : IsList(next, i, F, c)
    BY DEF Table, ListOf, i
  <2>3. new = next[i] /\ \A j \in F \ {i} : link[j] = next[j]
    BY <1>3, <1>9, <1>14, <1>15, <2>1
  <2> HIDE DEF F, link, next, new
  <2>4. 1 \in 1 .. Len(c) /\ c[1] = i
    <3>1. c \in Seq(F) /\ i = At(c, 1)
      BY <2>2 DEF IsList
    <3>2. Len(c) \in Nat /\ Len(c) >= 1
      BY <1>3, <3>1 DEF At
    <3> QED
      BY <3>1, <3>2 DEF At
  <2>5. PassesOver(next, link, i, new, F, c, i, 1)
    BY <2>3 DEF PassesOver
  <2>6. ListOf(link, new, F \ {i})
    BY <2>2, <2>4, <2>5, ListRemove
  <2> QED
    BY <2>1, <2>6 DEF link, new
<1>18. Cardinality(HeldIn(r)) = Cardinality(HeldIn(prof)) + 1
  BY <1>3, <1>11, HeldTypes, FS_AddElement
<1>19. Table(r, bucketOf)
  <2>1. \A j, l \in HeldIn(r) : r.entries[j].pointer = r.entries[l].pointer => j = l
    <3>1. \A j, l \in HeldIn(prof) : r.entries[j].pointer = r.entries[l].pointer => j = l
      BY <1>12 DEF Table, SameEntry
    <3>2. \A j \in HeldIn(prof) : r.entries[j].pointer # p
      BY <1>12 DEF SameEntry
    <3>3. r.entries[i].pointer = p
      BY <1>5, <1>9
    <3> QED
      BY <1>11, <3>1, <3>2, <3>3
  <2>2. \A j \in HeldIn(r) : /\ r.entries[j].stack \in DOMAIN r.aggregates
                             /\ r.entries[j].weight \in Weights
    <3>1. DOMAIN r.aggregates = DOMAIN prof.aggregates
      BY <1>9 DEF SameSamples
    <3>2. \A j \in HeldIn(prof) : /\ r.entries[j].stack \in DOMAIN r.aggregates
                                  /\ r.entries[j].weight \in Weights
      BY <1>12, <3>1 DEF Table, SameEntry
    <3> QED
      BY <1>5, <1>9, <1>11, <3>1, <3>2
  <2>3. r.liveCount = Cardinality(HeldIn(r))
    BY <1>9, <1>18 DEF Table
  <2> QED
    BY <1>9, <1>16, <1>17, <2>1, <2>2, <2>3 DEF Table
<1>20. /\ r.inuse = Plus(prof.inuse, w)
       /\ \A l \in DOMAIN prof.aggregates : r.aggregates[l].inuse =
            IF l = k THEN Plus(prof.aggregates[l].inuse, w) ELSE prof.aggregates[l].inuse
  BY <1>7, <1>8 DEF InUse
<1>21. r.entries[i].pointer = p /\ r.entries[i].weight = w /\ r.entries[i].stack = k
  BY <1>5, <1>9
<1>22. Added(prof, r, bucketOf, i, p, k, w)
  BY <1>3, <1>9, <1>11, <1>12, <1>19, <1>20, <1>21 DEF Added
<1> QED
  BY <1>2, <1>22 DEF i

\* A sample of a block that has none is added, or is lost.
LEMMA AddLiveIs ==
    ASSUME bucketOf \in [Pointers -> Buckets], NEW prof \in Profiles, Table(prof, bucketOf),
           NEW p \in Pointers, \A i \in HeldIn(prof) : prof.entries[i].pointer # p,
           NEW k \in DOMAIN prof.aggregates, NEW w \in Weights
    PROVE  \/ Kept(prof, AddLive(prof, p, k, w))
           \/ \E i \in Entries :
                    prof.tracks /\ Added(prof, AddLive(prof, p, k, w), bucketOf, i, p, k, w)
<1>1. Find(prof, p) = NoEntry
  BY FindIs
<1>2. CASE ~prof.tracks
  <2>1. AddLive(prof, p, k, w) = prof
    BY <1>2 DEF AddLive
  <2> QED
    BY <2>1 DEF Kept, SameTable, SameSums
<1>3. CASE prof.tracks /\ prof.free = NoEntry
  <2>1. AddLive(prof, p, k, w) = [prof EXCEPT !.overflowed.live = TRUE]
    BY <1>1, <1>3 DEF AddLive
  <2> QED
    BY <2>1, LiveOverflow
<1>4. CASE prof.tracks /\ prof.free # NoEntry
  <2>1. Added(prof, AddLive(prof, p, k, w), bucketOf, prof.free, p, k, w)
    BY <1>4, AddTaken
  <2>2. prof.free \in Entries
    BY <1>4 DEF Profiles
  <2> QED
    BY <1>4, <2>1, <2>2
<1> QED
  BY <1>2, <1>3, <1>4

------------------------------------------------------------------------------
(* Symbols and aggregates.                                                    *)

SymbolsFit(prof) ==
    IsFiniteSet(prof.symbols) /\ Cardinality(prof.symbols) <= SymbolCapacity
\* The symbols S are interned, or lost and reported so.
Interned(prof, r, S) ==
    /\ r \in Profiles /\ SameTable(r, prof) /\ SameSums(r, prof) /\ SymbolsFit(r)
    /\ prof.symbols \subseteq r.symbols
    /\ ~r.overflowed.symbol => ~prof.overflowed.symbol /\ S \subseteq r.symbols
    /\ r.overflowed.aggregate = prof.overflowed.aggregate

LEMMA InternIs ==
    ASSUME NEW prof \in Profiles, SymbolsFit(prof), NEW s \in Symbols
    PROVE  Interned(prof, Intern(prof, s), {s})
<1>1. CASE s \in prof.symbols
  <2>1. Intern(prof, s) = prof
    BY <1>1 DEF Intern
  <2> QED
    BY <1>1, <2>1 DEF Interned, SameTable, SameSums
<1>2. CASE s \notin prof.symbols /\ Cardinality(prof.symbols) < SymbolCapacity
  <2> DEFINE T == prof.symbols \cup {s}
             r == [prof EXCEPT !.symbols = T]
  <2>1. Intern(prof, s) = r
    BY <1>2 DEF Intern
  <2>2. IsFiniteSet(T) /\ Cardinality(T) = Cardinality(prof.symbols) + 1
    BY <1>2, FS_AddElement DEF SymbolsFit
  <2>3. T \in SUBSET Symbols
    BY DEF Profiles
  <2>4. SymbolCapacity \in Nat /\ Cardinality(prof.symbols) \in Nat
    BY CapacitiesAssumption, FS_CardinalityType DEF SymbolsFit
  <2>5. prof.symbols \subseteq T /\ {s} \subseteq T
    OBVIOUS
  <2> HIDE DEF T
  <2>6. r \in Profiles /\ SameTable(r, prof) /\ SameSums(r, prof) /\ r.symbols = T
        /\ r.overflowed = prof.overflowed
    BY <2>3 DEF Profiles, SameTable, SameSums
  <2> HIDE DEF r
  <2>7. SymbolsFit(r)
    BY <1>2, <2>2, <2>4, <2>6 DEF SymbolsFit
  <2> QED
    BY <2>1, <2>5, <2>6, <2>7 DEF Interned
<1>3. CASE s \notin prof.symbols /\ ~(Cardinality(prof.symbols) < SymbolCapacity)
  <2> DEFINE flags == [prof.overflowed EXCEPT !.symbol = TRUE]
             r == [prof EXCEPT !.overflowed = flags]
  <2>1. Intern(prof, s) = r
    BY <1>3 DEF Intern
  <2>2. flags \in Flags /\ flags.symbol /\ flags.aggregate = prof.overflowed.aggregate
    BY DEF Profiles, Flags
  <2> HIDE DEF flags
  <2>3. r \in Profiles /\ SameTable(r, prof) /\ SameSums(r, prof) /\ r.symbols = prof.symbols
        /\ r.overflowed = flags
    BY <2>2 DEF Profiles, SameTable, SameSums
  <2> HIDE DEF r
  <2> QED
    BY <2>1, <2>2, <2>3 DEF Interned, SymbolsFit
<1> QED
  BY <1>1, <1>2, <1>3

InternStep(prof, stack, g) ==
    [n \in 0 .. Len(stack) |-> IF n = 0 THEN prof ELSE Intern(g[n - 1], stack[n])]
InternSteps(prof, stack) == CHOOSE g : g = InternStep(prof, stack, g)

LEMMA InternStepsExist ==
    ASSUME NEW prof, NEW stack, Len(stack) \in Nat
    PROVE  \E g : g = InternStep(prof, stack, g)
<1> DEFINE L == Len(stack)
           Body(g, n) == IF n = 0 THEN prof ELSE Intern(g[n - 1], stack[n])
           UpTo(m) == \E g : \A n \in 0 .. m : g[n] = Body(g, n)
           Good == {m \in Nat : UpTo(m)}
<1>1. UpTo(0)
  <2> DEFINE g == [n \in 0 .. 0 |-> prof]
  <2>1. \A n \in 0 .. 0 : n = 0
    OBVIOUS
  <2>2. \A n \in 0 .. 0 : g[n] = Body(g, n)
    BY <2>1
  <2> HIDE DEF Body
  <2> QED
    BY <2>2
<1>2. ASSUME NEW m \in Nat, UpTo(m) PROVE UpTo(m + 1)
  <2>1. PICK g : \A n \in 0 .. m : g[n] = Body(g, n)
    BY <1>2
  <2> DEFINE h == [n \in 0 .. m + 1 |-> IF n <= m THEN g[n] ELSE Intern(g[m], stack[m + 1])]
  <2>2. ASSUME NEW n \in 0 .. m + 1 PROVE h[n] = Body(h, n)
    <3>1. CASE n = 0
      BY <2>1, <3>1
    <3>2. CASE n # 0 /\ n <= m
      <4>1. n \in 0 .. m /\ n - 1 \in 0 .. m + 1 /\ n - 1 <= m
        BY <3>2
      <4>2. h[n] = g[n] /\ h[n - 1] = g[n - 1]
        BY <3>2, <4>1
      <4> HIDE DEF h
      <4> QED
        BY <2>1, <3>2, <4>1, <4>2
    <3>3. CASE n = m + 1
      <4>1. n - 1 = m /\ m \in 0 .. m + 1 /\ ~(n <= m) /\ n # 0
        BY <3>3
      <4>2. h[n] = Intern(g[m], stack[m + 1]) /\ h[m] = g[m]
        BY <4>1
      <4> HIDE DEF h
      <4> QED
        BY <3>3, <4>1, <4>2
    <3> QED
      BY <3>1, <3>2, <3>3
  <2> HIDE DEF h, Body
  <2> QED
    BY <2>2
<1>3. UpTo(L)
  <2>1. 0 \in Good /\ \A m \in Nat : m \in Good => m + 1 \in Good
    <3> HIDE DEF UpTo
    <3> QED
      BY <1>1, <1>2
  <2> HIDE DEF Good, UpTo
  <2>2. L \in Good
    BY <2>1, FirstBad
  <2> QED
    BY <2>2 DEF Good
<1>4. PICK g : \A n \in 0 .. L : g[n] = Body(g, n)
  BY <1>3
<1> DEFINE h == [n \in 0 .. L |-> g[n]]
<1>5. \A n \in 0 .. L : n # 0 => n - 1 \in 0 .. L
  OBVIOUS
<1>6. \A n \in 0 .. L : h[n] = Body(h, n)
  BY <1>4, <1>5
<1>7. h = [n \in 0 .. L |-> h[n]]
  OBVIOUS
<1> HIDE DEF h
<1>8. h = InternStep(prof, stack, h)
  BY <1>6, <1>7 DEF InternStep
<1> QED
  BY <1>8

LEMMA InternAllIs ==
    ASSUME NEW prof \in Profiles, SymbolsFit(prof), NEW stack \in Seq(Symbols)
    PROVE  Interned(prof, InternAll(prof, stack), {stack[k] : k \in 1 .. Len(stack)})
<1> DEFINE g == InternSteps(prof, stack)
           L == Len(stack)
           Upto(n) == {stack[k] : k \in 1 .. n}
<1>1. L \in Nat /\ \A k \in 1 .. L : stack[k] \in Symbols
  OBVIOUS
<1>2. InternAll(prof, stack) = g[L]
  BY DEF InternAll, InternSteps, InternStep
<1>3. g = InternStep(prof, stack, g)
  BY <1>1, InternStepsExist DEF InternSteps
<1> HIDE DEF g
<1>4. g[0] = prof /\ \A n \in 1 .. L : g[n] = Intern(g[n - 1], stack[n])
  <2>1. \A n \in 0 .. L : g[n] = IF n = 0 THEN prof ELSE Intern(g[n - 1], stack[n])
    BY <1>3 DEF InternStep
  <2>2. 0 \in 0 .. L /\ \A n \in 1 .. L : n \in 0 .. L /\ n # 0
    BY <1>1
  <2> QED
    BY <2>1, <2>2
<1> DEFINE Good == {n \in Nat : n <= L => Interned(prof, g[n], Upto(n))}
<1>5. 0 \in Good
  <2>1. Upto(0) = {}
    OBVIOUS
  <2> QED
    BY <1>4, <2>1 DEF Interned, SameTable, SameSums
<1>6. ASSUME NEW n \in Nat, n \in Good PROVE n + 1 \in Good
  <2> SUFFICES ASSUME n + 1 <= L PROVE Interned(prof, g[n + 1], Upto(n + 1))
    OBVIOUS
  <2>1. n + 1 \in 1 .. L /\ (n + 1) - 1 = n /\ n <= L
    BY <1>1
  <2>2. Interned(prof, g[n], Upto(n))
    BY <1>6, <2>1
  <2>3. g[n + 1] = Intern(g[n], stack[n + 1]) /\ stack[n + 1] \in Symbols
    BY <1>1, <1>4, <2>1
  <2>4. g[n] \in Profiles /\ SymbolsFit(g[n])
    BY <2>2 DEF Interned
  <2>5. Interned(g[n], g[n + 1], {stack[n + 1]})
    BY <2>3, <2>4, InternIs
  <2>6. Upto(n + 1) = Upto(n) \cup {stack[n + 1]}
    <3>1. 1 .. n + 1 = (1 .. n) \cup {n + 1}
      OBVIOUS
    <3> QED
      BY <3>1
  <2> HIDE DEF Upto
  <2> QED
    BY <2>2, <2>5, <2>6 DEF Interned, SameTable, SameSums
<1>7. L \in Good
  <2> HIDE DEF Good
  <2> QED
    BY <1>1, <1>5, <1>6, FirstBad
<1> QED
  BY <1>1, <1>2, <1>7

\* A compact stack is a key; with no symbol lost it is the stack itself.
LEMMA CompactIs ==
    ASSUME NEW prof \in Profiles, NEW stack \in Stacks
    PROVE  /\ Compact(prof, stack) \in Keys
           /\ {stack[k] : k \in 1 .. Len(stack)} \subseteq prof.symbols => Compact(prof, stack) = stack
<1>1. stack \in Seq(Symbols) /\ DOMAIN stack = 1 .. Len(stack)
  BY StacksAssumption
<1>2. prof.symbols \subseteq Symbols
  BY DEF Profiles
<1>3. \A k \in DOMAIN stack : stack[k] \in Symbols
  BY <1>1
<1>4. Compact(prof, stack) \in [DOMAIN stack -> Symbols \cup {Overflow}]
  BY <1>3 DEF Compact
<1>5. ASSUME {stack[k] : k \in 1 .. Len(stack)} \subseteq prof.symbols PROVE Compact(prof, stack) = stack
  <2>1. \A k \in DOMAIN stack : stack[k] \in prof.symbols
    BY <1>1, <1>5
  <2>2. Compact(prof, stack) = [k \in DOMAIN stack |-> stack[k]]
    BY <2>1 DEF Compact
  <2>3. stack = [k \in DOMAIN stack |-> stack[k]]
    BY <1>1
  <2> QED
    BY <2>2, <2>3
<1> QED
  BY <1>4, <1>5 DEF Keys

\* The aggregate of the key k gains w.
Aggregated(prof, q, k, w) ==
    /\ q \in Profiles /\ SameTable(q, prof) /\ q.symbols = prof.symbols
    /\ q.overflowed = prof.overflowed /\ q.inuse = prof.inuse
    /\ q.alloc = Plus(prof.alloc, w)
    /\ DOMAIN q.aggregates = DOMAIN prof.aggregates \cup {k}
    /\ \A l \in DOMAIN prof.aggregates \ {k} : q.aggregates[l] = prof.aggregates[l]
    /\ k \in DOMAIN prof.aggregates =>
            /\ q.aggregates[k].alloc = Plus(prof.aggregates[k].alloc, w)
            /\ q.aggregates[k].inuse = prof.aggregates[k].inuse
    /\ k \notin DOMAIN prof.aggregates =>
            q.aggregates[k].alloc = Plus(0, w) /\ q.aggregates[k].inuse = 0

LEMMA AggregateIs ==
    ASSUME NEW prof \in Profiles, NEW k \in Keys, NEW w \in Weights
    PROVE  Aggregated(prof, Aggregate(prof, k, w), k, w)
<1> DEFINE old == IF k \in DOMAIN prof.aggregates THEN prof.aggregates[k] ELSE NoAggregate
           new == [old EXCEPT !.alloc = Plus(old.alloc, w)]
           D == DOMAIN prof.aggregates \cup {k}
           a == [l \in D |-> IF l = k THEN new ELSE prof.aggregates[l]]
           alloc == Plus(prof.alloc, w)
           q == [prof EXCEPT !.aggregates = a, !.alloc = alloc]
<1>1. /\ DOMAIN prof.aggregates \in SUBSET Keys /\ prof.aggregates \in [DOMAIN prof.aggregates -> Sum]
      /\ prof.alloc \in Words /\ w \in Nat /\ 0 \in Words
  BY TableIs, Arithmetic DEF Profiles, Weights, Words
<1>2. old \in Sum /\ old.alloc \in Words
  BY <1>1 DEF Sum, NoAggregate
<1>3. Plus(old.alloc, w) \in Words /\ alloc \in Words
  BY <1>1, <1>2, Arithmetic
<1>4. Aggregate(prof, k, w) = q
  BY DEF Aggregate, Profiles
<1>5. k \in DOMAIN prof.aggregates => old = prof.aggregates[k]
  OBVIOUS
<1>6. k \notin DOMAIN prof.aggregates => old.alloc = 0 /\ old.inuse = 0
  BY DEF NoAggregate
<1> HIDE DEF old, alloc
<1>7. new \in Sum /\ new.alloc = Plus(old.alloc, w) /\ new.inuse = old.inuse
  BY <1>2, <1>3 DEF Sum
<1> HIDE DEF new
<1>8. DOMAIN a = D /\ a[k] = new /\ \A l \in DOMAIN prof.aggregates \ {k} : a[l] = prof.aggregates[l]
  OBVIOUS
<1>9. a \in AggregateTables
  <2>1. a \in [D -> Sum] /\ D \in SUBSET Keys
    BY <1>1, <1>7
  <2> HIDE DEF a, D
  <2> QED
    BY <1>8, <2>1, TableIs
<1> HIDE DEF a
<1>10. q \in Profiles /\ SameTable(q, prof) /\ q.symbols = prof.symbols
       /\ q.overflowed = prof.overflowed /\ q.inuse = prof.inuse /\ q.alloc = alloc
       /\ q.aggregates = a
  BY <1>3, <1>9 DEF Profiles, SameTable
<1> HIDE DEF q
<1> QED
  BY <1>4, <1>5, <1>6, <1>7, <1>8, <1>10 DEF Aggregated, alloc

\* The entries do not see a new aggregate.
LEMMA SameTableIs ==
    ASSUME NEW p, NEW q, SameTable(q, p), DOMAIN p.aggregates \subseteq DOMAIN q.aggregates,
           NEW hash, Table(p, hash)
    PROVE  Table(q, hash) /\ HeldIn(q) = HeldIn(p)
<1>1. q.entries = p.entries /\ q.buckets = p.buckets /\ q.free = p.free
      /\ q.liveCount = p.liveCount /\ q.tracks = p.tracks
  BY DEF SameTable
<1>2. HeldIn(q) = HeldIn(p) /\ Links(q) = Links(p) /\ Unused(q) = Unused(p)
      /\ \A b : InBucket(q, hash, b) = InBucket(p, hash, b)
  BY <1>1 DEF HeldIn, Links, Unused, InBucket
<1> QED
  BY <1>1, <1>2 DEF Table

------------------------------------------------------------------------------
(* The sums.                                                                  *)

AllocOf(prof) == [k \in DOMAIN prof.aggregates |-> prof.aggregates[k].alloc]
Total(prof) == SumFunctionOnSet(AllocOf(prof), DOMAIN prof.aggregates)
Weighed(prof) == [i \in Entries |-> prof.entries[i].weight]
WeightOf(prof, S) == SumFunctionOnSet(Weighed(prof), S)
HeldFor(prof, k) == {i \in HeldIn(prof) : prof.entries[i].stack = k}

AggregatesFit(prof) ==
    IsFiniteSet(DOMAIN prof.aggregates) /\ Cardinality(DOMAIN prof.aggregates) <= AggregateCapacity

Sound(prof, lost) ==
    /\ prof.alloc = Plus(Total(prof), 0)
    /\ prof.inuse <= prof.alloc
    /\ \A k \in DOMAIN prof.aggregates : prof.aggregates[k].inuse <= prof.aggregates[k].alloc
    /\ (prof.tracks /\ ~lost) =>
        /\ prof.inuse = WeightOf(prof, HeldIn(prof))
        /\ \A k \in DOMAIN prof.aggregates : prof.aggregates[k].inuse = WeightOf(prof, HeldFor(prof, k))

LEMMA SoundFrame ==
    ASSUME NEW p, NEW q, SameTable(q, p), SameSums(q, p), NEW lost, Sound(p, lost)
    PROVE  Sound(q, lost)
<1>1. q.aggregates = p.aggregates /\ q.entries = p.entries /\ q.alloc = p.alloc
      /\ q.inuse = p.inuse /\ q.tracks = p.tracks
  BY DEF SameTable, SameSums
<1>2. Total(q) = Total(p) /\ HeldIn(q) = HeldIn(p) /\ Weighed(q) = Weighed(p)
      /\ \A k : HeldFor(q, k) = HeldFor(p, k)
  BY <1>1 DEF Total, AllocOf, HeldIn, Weighed, HeldFor
<1> QED
  BY <1>1, <1>2 DEF Sound, WeightOf

LEMMA AggregateTypes ==
    ASSUME NEW prof \in Profiles
    PROVE  /\ prof.alloc \in Words /\ prof.inuse \in Words
           /\ DOMAIN prof.aggregates \in SUBSET Keys
           /\ \A k \in DOMAIN prof.aggregates :
                prof.aggregates[k].alloc \in Words /\ prof.aggregates[k].inuse \in Words
           /\ \A i \in Entries : Weighed(prof)[i] = prof.entries[i].weight /\ Weighed(prof)[i] \in Nat
           /\ \A k \in DOMAIN prof.aggregates : AllocOf(prof)[k] = prof.aggregates[k].alloc
<1>1. prof.aggregates \in [DOMAIN prof.aggregates -> Sum] /\ DOMAIN prof.aggregates \in SUBSET Keys
  BY TableIs DEF Profiles
<1>2. \A k \in DOMAIN prof.aggregates :
                prof.aggregates[k].alloc \in Words /\ prof.aggregates[k].inuse \in Words
  BY <1>1 DEF Sum
<1>3. \A i \in Entries : prof.entries[i].weight \in Nat
  BY Arithmetic DEF Profiles, Entry
<1> QED
  BY <1>1, <1>2, <1>3 DEF Profiles, Weighed, AllocOf

\* The sum of all is at least the sum of one stack, saturated or not.
LEMMA TotalIs ==
    ASSUME NEW prof \in Profiles, AggregatesFit(prof)
    PROVE  /\ Total(prof) \in Nat
           /\ \A k \in DOMAIN prof.aggregates :
                /\ SumFunctionOnSet(AllocOf(prof), DOMAIN prof.aggregates \ {k}) \in Nat
                /\ Total(prof) = prof.aggregates[k].alloc +
                        SumFunctionOnSet(AllocOf(prof), DOMAIN prof.aggregates \ {k})
<1> DEFINE w == AllocOf(prof)
           D == DOMAIN prof.aggregates
<1>1. IsFiniteSet(D) /\ \A k \in D : w[k] = prof.aggregates[k].alloc /\ w[k] \in Nat
  BY AggregateTypes DEF AggregatesFit, Words
<1> HIDE DEF w, D
<1>2. SumFunctionOnSet(w, D) \in Nat
  BY <1>1, SumType
<1>3. ASSUME NEW k \in D
      PROVE  /\ SumFunctionOnSet(w, D \ {k}) \in Nat
             /\ SumFunctionOnSet(w, D) = w[k] + SumFunctionOnSet(w, D \ {k})
  <2>1. SumFunctionOnSet(w, D) = w[k] + SumFunctionOnSet(w, D \ {k})
    BY <1>1, SumRemove
  <2> DEFINE T == D \ {k}
  <2>2. IsFiniteSet(T) /\ \A l \in T : w[l] \in Nat
    BY <1>1, FS_Subset
  <2> HIDE DEF T
  <2>3. SumFunctionOnSet(w, T) \in Nat
    BY <2>2, SumType
  <2> QED
    BY <2>1, <2>3 DEF T
<1> QED
  BY <1>1, <1>2, <1>3 DEF Total, w, D

LEMMA WeightStep ==
    ASSUME NEW prof \in Profiles, NEW S \in SUBSET Entries, NEW i \in S
    PROVE  /\ WeightOf(prof, S \ {i}) \in Nat
           /\ WeightOf(prof, S) = prof.entries[i].weight + WeightOf(prof, S \ {i})
<1> DEFINE w == Weighed(prof)
           T == S \ {i}
<1>1. IsFiniteSet(Entries)
  BY Arithmetic, FS_Interval DEF Entries
<1>2. IsFiniteSet(S) /\ IsFiniteSet(T)
  BY <1>1, FS_Subset
<1>3. i \in Entries /\ \A j \in S : w[j] \in Nat
  BY AggregateTypes
<1>4. w[i] = prof.entries[i].weight
  BY <1>3, AggregateTypes
<1> HIDE DEF w
<1>5. SumFunctionOnSet(w, S) = w[i] + SumFunctionOnSet(w, S \ {i})
  BY <1>2, <1>3, SumRemove
<1>6. \A j \in T : w[j] \in Nat
  BY <1>3
<1> HIDE DEF T
<1>7. SumFunctionOnSet(w, T) \in Nat
  BY <1>2, <1>6, SumType
<1> QED
  BY <1>4, <1>5, <1>7 DEF WeightOf, w, T

LEMMA WeightSame ==
    ASSUME NEW p, NEW q, NEW S \in SUBSET Entries,
           \A i \in S : q.entries[i].weight = p.entries[i].weight
    PROVE  WeightOf(q, S) = WeightOf(p, S)
<1> DEFINE v == Weighed(q)
           w == Weighed(p)
<1>1. IsFiniteSet(Entries)
  BY Arithmetic, FS_Interval DEF Entries
<1>2. IsFiniteSet(S)
  BY <1>1, FS_Subset
<1>3. \A i \in S : v[i] = w[i]
  BY DEF Weighed
<1> HIDE DEF v, w
<1>4. SumFunctionOnSet(v, S) = SumFunctionOnSet(w, S)
  BY <1>2, <1>3, SumSame
<1> QED
  BY <1>4 DEF WeightOf, v, w

LEMMA SameTotal ==
    ASSUME NEW p, NEW q, SameSamples(q, p)
    PROVE  Total(q) = Total(p) /\ q.alloc = p.alloc
BY DEF SameSamples, Total, AllocOf

\* Nothing is lost when an entry is removed.
LEMMA RemovedSound ==
    ASSUME NEW prof \in Profiles, NEW hash, Table(prof, hash), NEW lost, Sound(prof, lost),
           NEW i \in HeldIn(prof), NEW r, Removed(prof, r, hash, i)
    PROVE  Sound(r, lost)
<1> DEFINE w == prof.entries[i].weight
           k == prof.entries[i].stack
           D == DOMAIN prof.aggregates
<1>1. /\ r \in Profiles /\ SameSamples(r, prof) /\ r.tracks = prof.tracks
      /\ r.inuse = Less(prof.inuse, w)
      /\ \A l \in D : r.aggregates[l].inuse =
              IF l = k THEN Less(prof.aggregates[l].inuse, w) ELSE prof.aggregates[l].inuse
      /\ HeldIn(r) = HeldIn(prof) \ {i}
      /\ \A j \in HeldIn(r) : SameEntry(r.entries[j], prof.entries[j])
  BY DEF Removed
<1>2. Total(r) = Total(prof) /\ r.alloc = prof.alloc /\ DOMAIN r.aggregates = D
      /\ \A l \in D : r.aggregates[l].alloc = prof.aggregates[l].alloc
  BY <1>1, SameTotal DEF SameSamples
<1>3. w \in Nat /\ i \in Entries
  BY Arithmetic DEF HeldIn, Profiles, Entry
<1>4. /\ \A v \in Words : Less(v, w) <= v
      /\ prof.inuse \in Words /\ prof.alloc \in Words
      /\ \A l \in D : prof.aggregates[l].inuse \in Words /\ prof.aggregates[l].alloc \in Words
  BY <1>3, Arithmetic, AggregateTypes
<1>5. r.inuse <= r.alloc
  <2>1. r.inuse = Less(prof.inuse, w) /\ r.alloc = prof.alloc /\ prof.inuse <= prof.alloc
        /\ prof.inuse \in Words /\ prof.alloc \in Words
    BY <1>1, <1>2, <1>4 DEF Sound
  <2>2. MaxWord \in Nat
    BY Arithmetic
  <2> QED
    BY <1>3, <2>1, <2>2 DEF Words, Less
<1>6. \A l \in D : r.aggregates[l].inuse <= r.aggregates[l].alloc
  <2> SUFFICES ASSUME NEW l \in D PROVE r.aggregates[l].inuse <= r.aggregates[l].alloc
    OBVIOUS
  <2>1. /\ r.aggregates[l].inuse = IF l = k THEN Less(prof.aggregates[l].inuse, w)
                                   ELSE prof.aggregates[l].inuse
        /\ r.aggregates[l].alloc = prof.aggregates[l].alloc
        /\ prof.aggregates[l].inuse <= prof.aggregates[l].alloc
        /\ prof.aggregates[l].inuse \in Words /\ prof.aggregates[l].alloc \in Words
    BY <1>1, <1>2, <1>4 DEF Sound
  <2>2. MaxWord \in Nat
    BY Arithmetic
  <2> QED
    BY <1>3, <2>1, <2>2 DEF Words, Less
<1>7. ASSUME prof.tracks, ~lost
      PROVE  /\ r.inuse = WeightOf(r, HeldIn(r))
             /\ \A l \in D : r.aggregates[l].inuse = WeightOf(r, HeldFor(r, l))
  <2>1. /\ prof.inuse = WeightOf(prof, HeldIn(prof))
        /\ \A l \in D : prof.aggregates[l].inuse = WeightOf(prof, HeldFor(prof, l))
    BY <1>7 DEF Sound
  <2>2. \A S \in SUBSET HeldIn(r) : WeightOf(r, S) = WeightOf(prof, S)
    <3> SUFFICES ASSUME NEW S \in SUBSET HeldIn(r) PROVE WeightOf(r, S) = WeightOf(prof, S)
      OBVIOUS
    <3>1. S \in SUBSET Entries
      BY DEF HeldIn
    <3>2. \A j \in S : r.entries[j].weight = prof.entries[j].weight
      BY <1>1 DEF SameEntry
    <3> QED
      BY <3>1, <3>2, WeightSame
  <2>3. HeldIn(prof) \in SUBSET Entries
    BY DEF HeldIn
  <2>4. \A S \in SUBSET HeldIn(prof) : i \in S =>
            Less(WeightOf(prof, S), w) = WeightOf(prof, S \ {i})
    <3> SUFFICES ASSUME NEW S \in SUBSET HeldIn(prof), i \in S
                 PROVE  Less(WeightOf(prof, S), w) = WeightOf(prof, S \ {i})
      OBVIOUS
    <3> DEFINE a == WeightOf(prof, S)
               b == WeightOf(prof, S \ {i})
    <3>1. b \in Nat /\ a = w + b
      BY <2>3, WeightStep
    <3> HIDE DEF a, b
    <3>2. Less(a, w) = b
      BY <1>3, <3>1 DEF Less
    <3> QED
      BY <3>2 DEF a, b
  <2>5. \A l : HeldFor(r, l) = IF l = k THEN HeldFor(prof, l) \ {i} ELSE HeldFor(prof, l)
    BY <1>1 DEF HeldFor, SameEntry
  <2>6. r.inuse = WeightOf(r, HeldIn(r))
    BY <1>1, <2>1, <2>2, <2>4
  <2>7. \A l \in D : r.aggregates[l].inuse = WeightOf(r, HeldFor(r, l))
    <3> SUFFICES ASSUME NEW l \in D PROVE r.aggregates[l].inuse = WeightOf(r, HeldFor(r, l))
      OBVIOUS
    <3>1. HeldFor(r, l) \in SUBSET HeldIn(r) /\ HeldFor(prof, l) \in SUBSET HeldIn(prof)
      BY DEF HeldFor
    <3>2. l = k => i \in HeldFor(prof, l)
      BY DEF HeldFor
    <3> QED
      BY <1>1, <2>1, <2>2, <2>4, <2>5, <3>1, <3>2
  <2> QED
    BY <2>6, <2>7
<1>8. r.alloc = Plus(Total(r), 0)
  BY <1>2 DEF Sound
<1> QED
  BY <1>1, <1>2, <1>5, <1>6, <1>7, <1>8 DEF Sound

\* There is room for the weight w of a sample of the key k.
Room(q, k, w, lost) ==
    /\ Plus(q.inuse, w) <= q.alloc
    /\ Plus(q.aggregates[k].inuse, w) <= q.aggregates[k].alloc
    /\ ~lost => q.inuse + w <= MaxWord /\ q.aggregates[k].inuse + w <= MaxWord

LEMMA Saturation ==
    ASSUME NEW a \in Nat, NEW w \in Nat, NEW rest \in Nat, a <= MaxWord
    PROVE  /\ Plus(Plus(a + rest, 0), w) = Plus(Plus(a, w) + rest, 0)
           /\ a <= Plus(a + rest, 0)
BY Arithmetic DEF Plus

LEMMA Grown ==
    ASSUME NEW v \in Words, NEW a \in Words, NEW w \in Nat, v <= a
    PROVE  Plus(v, w) <= Plus(a, w) /\ v <= Plus(a, w)
BY Arithmetic DEF Plus, Words

\* A new sum of an aggregate.
LEMMA AggregateSound ==
    ASSUME NEW prof \in Profiles, NEW hash, Table(prof, hash), NEW lost \in BOOLEAN,
           Sound(prof, lost), AggregatesFit(prof), NEW k \in Keys, HasAggregate(prof, k),
           NEW w \in Weights, NEW q, Aggregated(prof, q, k, w)
    PROVE  LET sat == lost \/ prof.alloc + w > MaxWord
           IN  AggregatesFit(q) /\ Sound(q, sat) /\ Room(q, k, w, sat)
<1> DEFINE D == DOMAIN prof.aggregates
           E == DOMAIN q.aggregates
           sat == lost \/ prof.alloc + w > MaxWord
           T == D \ {k}
           rest == SumFunctionOnSet(AllocOf(prof), T)
           a == IF k \in D THEN prof.aggregates[k].alloc ELSE 0
           u == IF k \in D THEN prof.aggregates[k].inuse ELSE 0
<1>1. /\ w \in Nat /\ w >= 1 /\ MaxWord \in Nat
      /\ \A v \in Nat : v \in Words <=> v <= MaxWord
      /\ \A v \in Words : v \in Nat
  BY Arithmetic DEF Weights, Words
<1>2. /\ q \in Profiles /\ SameTable(q, prof) /\ q.inuse = prof.inuse
      /\ q.alloc = Plus(prof.alloc, w) /\ E = D \cup {k}
      /\ \A l \in T : q.aggregates[l] = prof.aggregates[l]
      /\ q.aggregates[k].alloc = Plus(a, w) /\ q.aggregates[k].inuse = u
  BY DEF Aggregated
<1>3. /\ prof.alloc \in Words /\ prof.inuse \in Words
      /\ a \in Words /\ u \in Words /\ u <= a
      /\ \A l \in D : /\ prof.aggregates[l].alloc \in Words /\ prof.aggregates[l].inuse \in Words
                       /\ AllocOf(prof)[l] = prof.aggregates[l].alloc
  <2>1. 0 \in Words
    BY <1>1
  <2> QED
    BY <1>1, <2>1, AggregateTypes DEF Sound
<1>4. IsFiniteSet(D) /\ IsFiniteSet(T)
  BY FS_Subset DEF AggregatesFit
<1>5. AggregatesFit(q)
  <2>1. k \notin D => IsFiniteSet(E) /\ Cardinality(E) = Cardinality(D) + 1
    BY <1>2, <1>4, FS_AddElement
  <2>2. k \in D => E = D
    BY <1>2
  <2>3. Cardinality(D) \in Nat /\ AggregateCapacity \in Nat
    BY <1>4, FS_CardinalityType, CapacitiesAssumption
  <2> QED
    BY <2>1, <2>2, <2>3 DEF AggregatesFit, HasAggregate
<1>6. rest \in Nat /\ Total(prof) = a + rest
  <2>1. CASE k \in D
    BY <2>1, TotalIs
  <2>2. CASE k \notin D
    <3>1. T = D /\ a = 0 /\ Total(prof) \in Nat
      BY <2>2, TotalIs
    <3> QED
      BY <3>1 DEF Total
  <2> QED
    BY <2>1, <2>2
<1>7. Total(q) = Plus(a, w) + rest
  <2>1. k \in E /\ E \ {k} = T
    BY <1>2
  <2>2. Total(q) = q.aggregates[k].alloc + SumFunctionOnSet(AllocOf(q), T)
    BY <1>2, <1>5, <2>1, TotalIs
  <2>3. SumFunctionOnSet(AllocOf(q), T) = rest
    <3> DEFINE v == AllocOf(q)
               x == AllocOf(prof)
    <3>1. \A l \in T : v[l] = x[l]
      BY <1>2, <1>3 DEF AllocOf
    <3> HIDE DEF v, x, T
    <3>2. SumFunctionOnSet(v, T) = SumFunctionOnSet(x, T)
      BY <1>4, <3>1, SumSame
    <3> QED
      BY <3>2 DEF v, x
  <2> QED
    BY <1>2, <2>2, <2>3
<1> HIDE DEF rest, a, u, T, D, E
<1>8. a \in Nat /\ u \in Nat /\ a <= MaxWord
  BY <1>1, <1>3
<1>9. prof.alloc = Plus(a + rest, 0)
  BY <1>6 DEF Sound
<1>10. q.alloc = Plus(Total(q), 0) /\ a <= prof.alloc
  BY <1>1, <1>2, <1>6, <1>7, <1>8, <1>9, Saturation
<1>11. q.inuse <= q.alloc /\ Plus(q.inuse, w) <= q.alloc
  <2>1. prof.inuse <= prof.alloc
    BY DEF Sound
  <2> QED
    BY <1>1, <1>2, <1>3, <2>1, Grown
<1>12. q.aggregates[k].inuse <= q.aggregates[k].alloc
       /\ Plus(q.aggregates[k].inuse, w) <= q.aggregates[k].alloc
  BY <1>1, <1>2, <1>3, Grown
<1>13. \A l \in E : q.aggregates[l].inuse <= q.aggregates[l].alloc
  BY <1>2, <1>12 DEF Sound, T, D
<1>14. ASSUME ~sat
       PROVE  q.inuse + w <= MaxWord /\ q.aggregates[k].inuse + w <= MaxWord
  <2>1. prof.alloc + w <= MaxWord /\ prof.alloc \in Nat /\ prof.inuse \in Nat
    BY <1>1, <1>3, <1>14
  <2>2. prof.inuse <= prof.alloc
    BY DEF Sound
  <2>3. u <= prof.alloc
    BY <1>1, <1>3, <1>8, <1>10, <2>1
  <2> QED
    BY <1>1, <1>2, <1>8, <2>1, <2>2, <2>3
<1>15. ASSUME q.tracks, ~sat
       PROVE  /\ q.inuse = WeightOf(q, HeldIn(q))
              /\ \A l \in E : q.aggregates[l].inuse = WeightOf(q, HeldFor(q, l))
  <2>1. prof.tracks /\ q.entries = prof.entries
    BY <1>2, <1>15 DEF SameTable
  <2>2. /\ prof.inuse = WeightOf(prof, HeldIn(prof))
        /\ \A l \in D : prof.aggregates[l].inuse = WeightOf(prof, HeldFor(prof, l))
    BY <1>15, <2>1 DEF Sound, D
  <2>3. /\ HeldIn(q) = HeldIn(prof) /\ \A l : HeldFor(q, l) = HeldFor(prof, l)
        /\ \A S : WeightOf(q, S) = WeightOf(prof, S)
    BY <2>1 DEF HeldIn, HeldFor, WeightOf, Weighed
  <2>4. ASSUME k \notin D PROVE q.aggregates[k].inuse = WeightOf(q, HeldFor(q, k))
    <3>1. HeldFor(prof, k) = {}
      BY <2>4 DEF HeldFor, Table, D
    <3>2. WeightOf(q, {}) = 0
      BY SumEmpty DEF WeightOf
    <3>3. u = 0
      BY <2>4 DEF u
    <3> QED
      BY <1>2, <2>3, <3>1, <3>2, <3>3
  <2>5. ASSUME k \in D PROVE q.aggregates[k].inuse = WeightOf(q, HeldFor(q, k))
    <3>1. u = prof.aggregates[k].inuse
      BY <2>5 DEF u
    <3> QED
      BY <1>2, <2>2, <2>3, <2>5, <3>1
  <2>6. \A l \in E : l # k => l \in D /\ q.aggregates[l] = prof.aggregates[l]
    BY <1>2 DEF T
  <2> QED
    BY <1>2, <2>2, <2>3, <2>4, <2>5, <2>6
<1>16. Sound(q, sat)
  BY <1>10, <1>11, <1>13, <1>15 DEF Sound, E
<1>17. Room(q, k, w, sat)
  BY <1>11, <1>12, <1>14 DEF Room
<1> QED
  BY <1>5, <1>16, <1>17

\* With room for its weight, an entry more.
LEMMA AddedSound ==
    ASSUME NEW q \in Profiles, NEW hash, Table(q, hash), NEW lost \in BOOLEAN, Sound(q, lost),
           NEW k \in DOMAIN q.aggregates, NEW w \in Weights, Room(q, k, w, lost), q.tracks,
           NEW i, NEW p, NEW r, Added(q, r, hash, i, p, k, w)
    PROVE  Sound(r, lost)
<1> DEFINE D == DOMAIN q.aggregates
<1>1. /\ r \in Profiles /\ SameSamples(r, q) /\ r.tracks = q.tracks
      /\ r.inuse = Plus(q.inuse, w)
      /\ \A l \in D : r.aggregates[l].inuse =
              IF l = k THEN Plus(q.aggregates[l].inuse, w) ELSE q.aggregates[l].inuse
      /\ HeldIn(r) = HeldIn(q) \cup {i} /\ i \in Entries \ HeldIn(q)
      /\ \A j \in HeldIn(q) : SameEntry(r.entries[j], q.entries[j])
      /\ r.entries[i].weight = w /\ r.entries[i].stack = k
  BY DEF Added
<1>2. Total(r) = Total(q) /\ r.alloc = q.alloc /\ DOMAIN r.aggregates = D
      /\ \A l \in D : r.aggregates[l].alloc = q.aggregates[l].alloc
  BY <1>1, SameTotal DEF SameSamples
<1>3. r.alloc = Plus(Total(r), 0) /\ r.inuse <= r.alloc
  BY <1>1, <1>2 DEF Sound, Room
<1>4. \A l \in D : r.aggregates[l].inuse <= r.aggregates[l].alloc
  BY <1>1, <1>2 DEF Sound, Room
<1>5. ASSUME ~lost
      PROVE  /\ r.inuse = WeightOf(r, HeldIn(r))
             /\ \A l \in D : r.aggregates[l].inuse = WeightOf(r, HeldFor(r, l))
  <2>1. /\ q.inuse = WeightOf(q, HeldIn(q))
        /\ \A l \in D : q.aggregates[l].inuse = WeightOf(q, HeldFor(q, l))
    BY <1>5 DEF Sound
  <2>2. \A S \in SUBSET HeldIn(q) : WeightOf(r, S) = WeightOf(q, S)
    <3> SUFFICES ASSUME NEW S \in SUBSET HeldIn(q) PROVE WeightOf(r, S) = WeightOf(q, S)
      OBVIOUS
    <3>1. S \in SUBSET Entries
      BY DEF HeldIn
    <3>2. \A j \in S : r.entries[j].weight = q.entries[j].weight
      BY <1>1 DEF SameEntry
    <3> QED
      BY <3>1, <3>2, WeightSame
  <2>3. HeldIn(q) \in SUBSET Entries
    BY DEF HeldIn
  <2>4. w \in Nat /\ MaxWord \in Nat
    BY Arithmetic DEF Weights
  <2>5. \A S \in SUBSET HeldIn(q) :
            WeightOf(q, S) + w <= MaxWord => Plus(WeightOf(q, S), w) = WeightOf(r, S \cup {i})
    <3> SUFFICES ASSUME NEW S \in SUBSET HeldIn(q), WeightOf(q, S) + w <= MaxWord
                 PROVE  Plus(WeightOf(q, S), w) = WeightOf(r, S \cup {i})
      OBVIOUS
    <3> DEFINE a == WeightOf(q, S)
               T == S \cup {i}
               b == WeightOf(r, T)
    <3>1. i \in T /\ T \in SUBSET Entries /\ T \ {i} = S
      BY <1>1, <2>3
    <3> HIDE DEF T
    <3>2. b = w + WeightOf(r, S) /\ WeightOf(r, S) \in Nat
      BY <1>1, <3>1, WeightStep
    <3>3. WeightOf(r, S) = a
      BY <2>2
    <3>4. a + w <= MaxWord
      OBVIOUS
    <3> HIDE DEF a, b
    <3>5. Plus(a, w) = b
      BY <2>4, <3>2, <3>3, <3>4 DEF Plus
    <3> QED
      BY <3>5 DEF a, b, T
  <2>6. \A l : HeldFor(r, l) = IF l = k THEN HeldFor(q, l) \cup {i} ELSE HeldFor(q, l)
    <3>1. \A j \in HeldIn(q) : r.entries[j].stack = q.entries[j].stack
      BY <1>1 DEF SameEntry
    <3>2. HeldIn(r) = HeldIn(q) \cup {i} /\ r.entries[i].stack = k
      BY <1>1
    <3> QED
      BY <3>1, <3>2 DEF HeldFor
  <2>7. q.inuse + w <= MaxWord /\ q.aggregates[k].inuse + w <= MaxWord
    BY <1>5 DEF Room
  <2>8. r.inuse = WeightOf(r, HeldIn(r))
    BY <1>1, <2>1, <2>5, <2>7
  <2>9. \A l \in D : r.aggregates[l].inuse = WeightOf(r, HeldFor(r, l))
    <3> SUFFICES ASSUME NEW l \in D PROVE r.aggregates[l].inuse = WeightOf(r, HeldFor(r, l))
      OBVIOUS
    <3>1. HeldFor(q, l) \in SUBSET HeldIn(q)
      BY DEF HeldFor
    <3>2. CASE l = k
      BY <1>1, <2>1, <2>5, <2>6, <2>7, <3>1, <3>2
    <3>3. CASE l # k
      BY <1>1, <2>1, <2>2, <2>6, <3>1, <3>3
    <3> QED
      BY <3>2, <3>3
  <2> QED
    BY <2>8, <2>9
<1> QED
  BY <1>2, <1>3, <1>4, <1>5 DEF Sound

------------------------------------------------------------------------------
(* Whole operations keep a profile good.                                      *)

Good(prof, hash, lost) ==
    /\ prof \in Profiles /\ Table(prof, hash) /\ SymbolsFit(prof) /\ AggregatesFit(prof)
    /\ Sound(prof, lost)

\* The entries that hold a block hold the same.
MapSame(prof, r) ==
    HeldIn(r) = HeldIn(prof) /\ \A j \in HeldIn(prof) : SameEntry(r.entries[j], prof.entries[j])
MapAdds(prof, r, p) ==
    \E i \in Entries \ HeldIn(prof) :
        /\ HeldIn(r) = HeldIn(prof) \cup {i}
        /\ \A j \in HeldIn(prof) : SameEntry(r.entries[j], prof.entries[j])
        /\ r.entries[i].pointer = p
MapLacks(prof, r, p) ==
    /\ HeldIn(r) = {i \in HeldIn(prof) : prof.entries[i].pointer # p}
    /\ \A j \in HeldIn(r) : SameEntry(r.entries[j], prof.entries[j])

LEMMA RemoveGood ==
    ASSUME bucketOf \in [Pointers -> Buckets], NEW prof, NEW lost, Good(prof, bucketOf, lost),
           NEW p \in Pointers
    PROVE  LET r == RemoveLive(prof, p) IN
           /\ Good(r, bucketOf, lost) /\ MapLacks(prof, r, p)
           /\ r.tracks = prof.tracks /\ SameSamples(r, prof)
<1> DEFINE r == RemoveLive(prof, p)
<1>1. prof \in Profiles /\ Table(prof, bucketOf) /\ Sound(prof, lost)
  BY DEF Good
<1>2. ASSUME NEW i \in HeldIn(prof), prof.entries[i].pointer = p
      PROVE  /\ Good(r, bucketOf, lost) /\ MapLacks(prof, r, p)
             /\ r.tracks = prof.tracks /\ SameSamples(r, prof)
  <2>1. Removed(prof, r, bucketOf, i)
    BY <1>1, <1>2, RemoveIs
  <2> HIDE DEF r
  <2>2. Sound(r, lost)
    BY <1>1, <2>1, RemovedSound
  <2>3. r \in Profiles /\ Table(r, bucketOf) /\ SameSamples(r, prof) /\ r.tracks = prof.tracks
        /\ HeldIn(r) = HeldIn(prof) \ {i} /\ \A j \in HeldIn(r) : SameEntry(r.entries[j], prof.entries[j])
    BY <2>1 DEF Removed
  <2>4. \A j \in HeldIn(prof) : prof.entries[j].pointer = p => j = i
    BY <1>1, <1>2 DEF Table
  <2>5. MapLacks(prof, r, p)
    BY <1>2, <2>3, <2>4 DEF MapLacks
  <2>6. SymbolsFit(r) /\ AggregatesFit(r)
    BY <2>3 DEF Good, SymbolsFit, AggregatesFit, SameSamples
  <2> QED
    BY <2>2, <2>3, <2>5, <2>6 DEF Good
<1>3. ASSUME \A i \in HeldIn(prof) : prof.entries[i].pointer # p
      PROVE  /\ Good(r, bucketOf, lost) /\ MapLacks(prof, r, p)
             /\ r.tracks = prof.tracks /\ SameSamples(r, prof)
  <2>1. r = prof
    BY <1>1, <1>3, RemoveNone
  <2> HIDE DEF r
  <2> QED
    BY <1>3, <2>1 DEF MapLacks, SameEntry, SameSamples
<1> QED
  BY <1>2, <1>3

\* A sample that is dropped changes only the report that it was.
Dropped(prof, r) ==
    /\ r \in Profiles
    /\ SameTable(r, prof) /\ SameSums(r, prof)
    /\ r.symbols = prof.symbols /\ r.overflowed.symbol = prof.overflowed.symbol
    /\ r.overflowed.aggregate

LEMMA AggregateOverflow ==
    ASSUME NEW prof \in Profiles
    PROVE  Dropped(prof, [prof EXCEPT !.overflowed.aggregate = TRUE])
<1> DEFINE flags == [prof.overflowed EXCEPT !.aggregate = TRUE]
           r == [prof EXCEPT !.overflowed = flags]
<1>1. flags \in Flags /\ flags.symbol = prof.overflowed.symbol /\ flags.aggregate
  BY DEF Profiles, Flags
<1>2. [prof EXCEPT !.overflowed.aggregate = TRUE] = r
  OBVIOUS
<1> HIDE DEF flags
<1>3. r \in Profiles /\ SameTable(r, prof) /\ SameSums(r, prof) /\ r.symbols = prof.symbols
      /\ r.overflowed = flags
  BY <1>1 DEF Profiles, SameTable, SameSums
<1> HIDE DEF r
<1> QED
  BY <1>1, <1>2, <1>3 DEF Dropped

LEMMA DroppedGood ==
    ASSUME NEW prof, NEW hash, NEW lost, Good(prof, hash, lost), NEW r, Dropped(prof, r)
    PROVE  Good(r, hash, lost) /\ MapSame(prof, r) /\ r.tracks = prof.tracks
<1>1. prof \in Profiles /\ Table(prof, hash) /\ Sound(prof, lost)
  BY DEF Good
<1>2. /\ r \in Profiles /\ SameTable(r, prof) /\ SameSums(r, prof)
      /\ r.symbols = prof.symbols /\ r.aggregates = prof.aggregates
  BY DEF Dropped, SameSums
<1>3. Table(r, hash)
  BY <1>1, <1>2, SameTableIs
<1>4. Sound(r, lost)
  BY <1>1, <1>2, SoundFrame
<1>5. SymbolsFit(r) /\ AggregatesFit(r)
  BY <1>2 DEF Good, SymbolsFit, AggregatesFit
<1>6. r.entries = prof.entries /\ r.tracks = prof.tracks
  BY <1>2 DEF SameTable
<1>7. MapSame(prof, r)
  BY <1>6 DEF MapSame, HeldIn, SameEntry
<1> QED
  BY <1>2, <1>3, <1>4, <1>5, <1>6, <1>7 DEF Good

LEMMA KeptGood ==
    ASSUME NEW prof, NEW hash, NEW lost, Good(prof, hash, lost), NEW r, Kept(prof, r)
    PROVE  Good(r, hash, lost) /\ MapSame(prof, r) /\ SameSamples(r, prof) /\ r.tracks = prof.tracks
<1>1. prof \in Profiles /\ Table(prof, hash) /\ Sound(prof, lost)
  BY DEF Good
<1>2. r \in Profiles /\ SameTable(r, prof) /\ SameSums(r, prof) /\ r.symbols = prof.symbols
  BY DEF Kept
<1>3. Table(r, hash) /\ SameSamples(r, prof)
  BY <1>1, KeptTable
<1>4. Sound(r, lost)
  BY <1>1, <1>2, SoundFrame
<1>5. SymbolsFit(r) /\ AggregatesFit(r)
  BY <1>2 DEF Good, SymbolsFit, AggregatesFit, SameSums
<1>6. r.entries = prof.entries /\ r.tracks = prof.tracks
  BY <1>2 DEF SameTable
<1>7. MapSame(prof, r)
  BY <1>6 DEF MapSame, HeldIn, SameEntry
<1> QED
  BY <1>2, <1>3, <1>4, <1>5, <1>6, <1>7 DEF Good

\* What the key of a sample has been given so far.
Given(prof, key) ==
    IF key \in DOMAIN prof.aggregates THEN prof.aggregates[key].alloc ELSE 0

\* A sample of weight w is in the aggregate of its key and in the total, or it is in
\* neither and the profile says so.
Booked(prof, r, key, has, w) ==
    /\ DOMAIN r.aggregates = IF has THEN DOMAIN prof.aggregates \cup {key}
                             ELSE DOMAIN prof.aggregates
    /\ \A l \in DOMAIN r.aggregates : r.aggregates[l].alloc =
            IF has /\ l = key THEN Plus(Given(prof, l), w) ELSE prof.aggregates[l].alloc
    /\ r.alloc = IF has THEN Plus(prof.alloc, w) ELSE prof.alloc
    /\ r.overflowed.aggregate = (IF has THEN prof.overflowed.aggregate ELSE TRUE)

\* What a sample of a block that has none does.
Sampled(prof, r, p, stack, w, lost) ==
    LET i == InternAll(prof, stack)
        key == Compact(i, stack)
    IN  /\ Good(r, bucketOf, lost)
        /\ MapSame(prof, r) \/ (prof.tracks /\ MapAdds(prof, r, p))
        /\ r.tracks = prof.tracks
        /\ Booked(prof, r, key, HasAggregate(prof, key), w)
        /\ ~r.overflowed.symbol => ~prof.overflowed.symbol /\ key = stack

LEMMA RecordIs ==
    ASSUME bucketOf \in [Pointers -> Buckets], NEW prof, NEW lost \in BOOLEAN,
           Good(prof, bucketOf, lost),
           NEW p \in Pointers, \A i \in HeldIn(prof) : prof.entries[i].pointer # p,
           NEW stack \in Stacks, NEW w \in Weights
    PROVE  Sampled(prof, Record(prof, p, stack, w), p, stack, w,
                   lost \/ prof.alloc + w > MaxWord)
<1> DEFINE t == InternAll(prof, stack)
           k == Compact(t, stack)
           q == Aggregate(t, k, w)
           r == Record(prof, p, stack, w)
           sat == lost \/ prof.alloc + w > MaxWord
           S == {stack[l] : l \in 1 .. Len(stack)}
           D == DOMAIN prof.aggregates
<1>1. prof \in Profiles /\ Table(prof, bucketOf) /\ SymbolsFit(prof) /\ AggregatesFit(prof)
      /\ Sound(prof, lost)
  BY DEF Good
<1>2. Interned(prof, t, S)
  BY <1>1, StacksAssumption, InternAllIs
<1>3. r = IF HasAggregate(t, k) THEN AddLive(q, p, k, w)
          ELSE [t EXCEPT !.overflowed.aggregate = TRUE]
  BY DEF Record
<1> HIDE DEF t
<1>4. /\ t \in Profiles /\ SameTable(t, prof) /\ SameSums(t, prof) /\ SymbolsFit(t)
      /\ ~t.overflowed.symbol => ~prof.overflowed.symbol /\ S \subseteq t.symbols
      /\ t.overflowed.aggregate = prof.overflowed.aggregate
  BY <1>2 DEF Interned
<1>5. t.aggregates = prof.aggregates /\ t.alloc = prof.alloc
      /\ t.entries = prof.entries /\ t.tracks = prof.tracks
      /\ (HasAggregate(t, k) <=> HasAggregate(prof, k))
  BY <1>4 DEF SameSums, SameTable, HasAggregate
<1>6. Table(t, bucketOf) /\ HeldIn(t) = HeldIn(prof)
  BY <1>1, <1>4, <1>5, SameTableIs
<1>7. Sound(t, lost) /\ AggregatesFit(t)
  BY <1>1, <1>4, <1>5, SoundFrame DEF AggregatesFit
<1>8. k \in Keys /\ (~t.overflowed.symbol => k = stack /\ ~prof.overflowed.symbol)
  BY <1>4, CompactIs
<1> HIDE DEF k, S
<1>9. Good(t, bucketOf, lost) /\ Good(t, bucketOf, sat)
  BY <1>4, <1>6, <1>7 DEF Good, Sound
<1>10. MapSame(prof, t)
  BY <1>5 DEF MapSame, HeldIn, SameEntry
<1>11. ASSUME ~HasAggregate(t, k) PROVE Sampled(prof, r, p, stack, w, sat)
  <2>1. Dropped(t, r)
    BY <1>3, <1>4, <1>11, AggregateOverflow
  <2> HIDE DEF r, sat
  <2>2. Good(r, bucketOf, sat) /\ MapSame(t, r) /\ r.tracks = t.tracks
    BY <1>9, <2>1, DroppedGood
  <2>3. Booked(prof, r, k, HasAggregate(prof, k), w)
    BY <1>5, <1>11, <2>1 DEF Booked, Dropped, SameSums
  <2>4. MapSame(prof, r)
    BY <1>10, <2>2 DEF MapSame, SameEntry
  <2>5. ~r.overflowed.symbol => ~prof.overflowed.symbol /\ k = stack
    BY <1>8, <2>1 DEF Dropped
  <2> QED
    BY <1>5, <1>11, <2>2, <2>3, <2>4, <2>5 DEF Sampled, k, t
<1>12. ASSUME HasAggregate(t, k) PROVE Sampled(prof, r, p, stack, w, sat)
  <2>1. Aggregated(t, q, k, w)
    BY <1>4, <1>8, AggregateIs
  <2>2. r = AddLive(q, p, k, w)
    BY <1>3, <1>12
  <2> HIDE DEF q, r
  <2>3. sat = (lost \/ t.alloc + w > MaxWord)
    BY <1>5
  <2> HIDE DEF sat
  <2>4. AggregatesFit(q) /\ Sound(q, sat) /\ Room(q, k, w, sat)
    BY <1>4, <1>6, <1>7, <1>8, <1>12, <2>1, <2>3, AggregateSound
  <2>5. /\ q \in Profiles /\ SameTable(q, t) /\ q.symbols = t.symbols
        /\ q.overflowed = t.overflowed /\ DOMAIN q.aggregates = D \cup {k}
    BY <1>5, <2>1 DEF Aggregated
  <2>6. Table(q, bucketOf) /\ HeldIn(q) = HeldIn(t)
    BY <1>5, <1>6, <2>5, SameTableIs
  <2>7. q.entries = prof.entries /\ q.tracks = prof.tracks
    BY <1>5, <2>5 DEF SameTable
  <2>8. Good(q, bucketOf, sat)
    BY <1>4, <2>4, <2>5, <2>6 DEF Good, SymbolsFit
  <2>9. \A i \in HeldIn(q) : q.entries[i].pointer # p
    BY <1>6, <2>6, <2>7
  <2>10. k \in DOMAIN q.aggregates /\ HeldIn(q) = HeldIn(prof)
    BY <1>6, <2>5, <2>6
  <2>11. \/ Kept(q, r)
         \/ \E i \in Entries : q.tracks /\ Added(q, r, bucketOf, i, p, k, w)
    BY <2>2, <2>5, <2>6, <2>9, <2>10, AddLiveIs
  <2>12. ASSUME Good(r, bucketOf, sat), SameSamples(r, q), r.tracks = q.tracks,
                MapSame(prof, r) \/ (prof.tracks /\ MapAdds(prof, r, p))
         PROVE  Sampled(prof, r, p, stack, w, sat)
    <3>1. Booked(prof, r, k, HasAggregate(prof, k), w)
      <4>1. /\ DOMAIN r.aggregates = D \cup {k} /\ r.alloc = q.alloc
            /\ r.overflowed.aggregate = q.overflowed.aggregate
            /\ \A l \in D \cup {k} : r.aggregates[l].alloc = q.aggregates[l].alloc
        BY <2>5, <2>12 DEF SameSamples
      <4>2. /\ q.alloc = Plus(prof.alloc, w)
            /\ q.overflowed.aggregate = prof.overflowed.aggregate
            /\ q.aggregates[k].alloc = Plus(Given(prof, k), w)
            /\ \A l \in D \ {k} : q.aggregates[l].alloc = prof.aggregates[l].alloc
        BY <1>4, <1>5, <2>1 DEF Aggregated, Given
      <4> QED
        BY <1>5, <1>12, <4>1, <4>2 DEF Booked
    <3>2. ~r.overflowed.symbol => ~prof.overflowed.symbol /\ k = stack
      BY <1>8, <2>5, <2>12 DEF SameSamples
    <3> QED
      BY <1>12, <2>7, <2>12, <3>1, <3>2 DEF Sampled, k, t
  <2>13. CASE Kept(q, r)
    <3>1. Good(r, bucketOf, sat) /\ MapSame(q, r) /\ SameSamples(r, q) /\ r.tracks = q.tracks
      BY <2>8, <2>13, KeptGood
    <3>2. MapSame(prof, r)
      BY <2>7, <2>10, <3>1 DEF MapSame
    <3> QED
      BY <2>12, <3>1, <3>2
  <2>14. ASSUME NEW i \in Entries, q.tracks, Added(q, r, bucketOf, i, p, k, w)
         PROVE  Sampled(prof, r, p, stack, w, sat)
    <3>1. sat \in BOOLEAN
      BY <2>3
    <3>2. Sound(r, sat)
      BY <2>4, <2>5, <2>6, <2>10, <2>14, <3>1, AddedSound
    <3>3. r \in Profiles /\ Table(r, bucketOf) /\ SameSamples(r, q) /\ r.tracks = q.tracks
      BY <2>14 DEF Added
    <3>4. SymbolsFit(r) /\ AggregatesFit(r)
      BY <2>8, <3>3 DEF Good, SymbolsFit, AggregatesFit, SameSamples
    <3>5. MapAdds(prof, r, p)
      BY <2>7, <2>10, <2>14 DEF MapAdds, Added
    <3> QED
      BY <2>7, <2>12, <2>14, <3>2, <3>3, <3>4, <3>5 DEF Good
  <2> QED
    BY <2>11, <2>13, <2>14
<1> QED
  BY <1>11, <1>12

------------------------------------------------------------------------------
(* New and finished profiles.                                                 *)

NewTable(prof, t) ==
    /\ prof.tracks = t /\ prof.entries = NewProfile(t).entries
    /\ prof.buckets = [b \in Buckets |-> NoEntry] /\ prof.free = NewProfile(t).free
    /\ prof.liveCount = 0

LEMMA NewTableIs ==
    ASSUME NEW prof, NEW t \in BOOLEAN, NewTable(prof, t), NEW hash
    PROVE  Table(prof, hash) /\ HeldIn(prof) = {}
<1>1. LiveCapacity \in Nat
  BY Arithmetic
<1>2. /\ prof.tracks = t
      /\ \A i \in Entries : /\ prof.entries[i].pointer = NoPointer
                            /\ prof.entries[i].next = IF t /\ i < LiveCapacity THEN i + 1 ELSE NoEntry
      /\ \A b \in Buckets : prof.buckets[b] = NoEntry
      /\ prof.free = IF t /\ LiveCapacity > 0 THEN 1 ELSE NoEntry
      /\ prof.liveCount = 0
  BY DEF NewTable, NewProfile
<1>3. HeldIn(prof) = {}
  BY <1>2 DEF HeldIn
<1>4. \A b : InBucket(prof, hash, b) = {}
  BY <1>3 DEF InBucket
<1>5. ListOf(Links(prof), prof.free, Unused(prof))
  <2>1. CASE ~t
    BY <1>2, <2>1, ListEmpty DEF Unused
  <2>2. CASE t
    <3> DEFINE c == [k \in 1 .. LiveCapacity |-> k]
    <3>1. c \in [1 .. LiveCapacity -> Entries]
      BY DEF Entries
    <3>2. \A k \in 1 .. LiveCapacity : c[k] = k
      OBVIOUS
    <3> HIDE DEF c
    <3>3. c \in Seq(Entries) /\ Len(c) = LiveCapacity
      BY <1>1, <3>1, IsSequence
    <3>4. Unused(prof) = Entries
      BY <1>2, <1>3, <2>2 DEF Unused
    <3>5. \A i \in Entries : \E k \in 1 .. Len(c) : c[k] = i
      BY <3>2, <3>3 DEF Entries
    <3>6. \A j, k \in 1 .. Len(c) : c[j] = c[k] => j = k
      BY <3>2, <3>3
    <3>7. prof.free = At(c, 1)
      BY <1>1, <1>2, <2>2, <3>2, <3>3 DEF At
    <3>8. \A k \in 1 .. Len(c) : Links(prof)[c[k]] = At(c, k + 1)
      <4> SUFFICES ASSUME NEW k \in 1 .. LiveCapacity PROVE Links(prof)[c[k]] = At(c, k + 1)
        BY <3>3
      <4>1. c[k] = k /\ k \in Entries
        BY <3>2 DEF Entries
      <4>2. Links(prof)[k] = IF k < LiveCapacity THEN k + 1 ELSE NoEntry
        BY <1>2, <2>2, <4>1 DEF Links
      <4>3. k < LiveCapacity => k + 1 \in 1 .. LiveCapacity
        BY <1>1
      <4>4. At(c, k + 1) = IF k < LiveCapacity THEN k + 1 ELSE NoEntry
        BY <1>1, <3>2, <3>3, <4>3 DEF At
      <4> QED
        BY <4>1, <4>2, <4>4
    <3>9. IsList(Links(prof), prof.free, Entries, c)
      BY <3>3, <3>5, <3>6, <3>7, <3>8 DEF IsList
    <3> QED
      BY <3>4, <3>9 DEF ListOf
  <2> QED
    BY <2>1, <2>2
<1>6. \A b \in Buckets : ListOf(Links(prof), prof.buckets[b], InBucket(prof, hash, b))
  BY <1>2, <1>4, ListEmpty
<1>7. Cardinality(HeldIn(prof)) = 0
  BY <1>3, FS_EmptySet
<1> QED
  BY <1>2, <1>3, <1>5, <1>6, <1>7 DEF Table

LEMMA NewTypes ==
    ASSUME NEW t \in BOOLEAN
    PROVE  /\ NewProfile(t) \in Profiles
           /\ NewProfile(t).symbols = {} /\ DOMAIN NewProfile(t).aggregates = {}
           /\ NewProfile(t).alloc = 0 /\ NewProfile(t).inuse = 0 /\ NewProfile(t).tracks = t
           /\ NewTable(NewProfile(t), t) /\ ~NewProfile(t).overflowed.symbol
           /\ ~NewProfile(t).overflowed.aggregate
<1> DEFINE entries == [i \in Entries |->
                    [pointer |-> NoPointer, weight |-> 0, stack |-> <<>>,
                     next |-> IF t /\ i < LiveCapacity THEN i + 1 ELSE NoEntry]]
           aggregates == [stack \in {} |-> NoAggregate]
           buckets == [b \in Buckets |-> NoEntry]
           free == IF t /\ LiveCapacity > 0 THEN 1 ELSE NoEntry
           flags == [symbol |-> FALSE, aggregate |-> FALSE, live |-> FALSE]
<1>1. LiveCapacity \in Nat /\ MaxWeight \in Nat /\ MaxWord \in Nat
  BY Arithmetic
<1>2. entries \in [Entries -> Entry]
  <2> SUFFICES ASSUME NEW i \in Entries
               PROVE  [pointer |-> NoPointer, weight |-> 0, stack |-> <<>>,
                       next |-> IF t /\ i < LiveCapacity THEN i + 1 ELSE NoEntry] \in Entry
    OBVIOUS
  <2>1. (IF t /\ i < LiveCapacity THEN i + 1 ELSE NoEntry) \in Entries \cup {NoEntry}
    BY <1>1 DEF Entries
  <2>2. 0 \in 0 .. MaxWeight
    BY <1>1
  <2> QED
    BY <2>1, <2>2 DEF Entry
<1>3. aggregates \in AggregateTables /\ DOMAIN aggregates = {}
  <2>1. DOMAIN aggregates \in SUBSET Keys /\ aggregates \in [DOMAIN aggregates -> Sum]
    OBVIOUS
  <2> HIDE DEF aggregates
  <2>2. aggregates \in AggregateTables
    BY <2>1, TableIs
  <2> QED
    BY <2>2 DEF aggregates
<1>4. buckets \in [Buckets -> Entries \cup {NoEntry}] /\ free \in Entries \cup {NoEntry}
  BY <1>1 DEF Entries
<1>5. flags \in Flags /\ ~flags.symbol /\ ~flags.aggregate
  BY DEF Flags
<1>6. 0 \in Words /\ 0 \in Int
  BY <1>1 DEF Words
<1>7. NewProfile(t) = [symbols |-> {}, aggregates |-> aggregates, tracks |-> t,
                       entries |-> entries, buckets |-> buckets, free |-> free,
                       liveCount |-> 0, alloc |-> 0, inuse |-> 0, overflowed |-> flags]
  BY DEF NewProfile
<1> HIDE DEF entries, aggregates, buckets, free, flags
<1>8. NewProfile(t) \in Profiles
  BY <1>2, <1>3, <1>4, <1>5, <1>6, <1>7 DEF Profiles
<1> QED
  BY <1>3, <1>5, <1>7, <1>8 DEF NewTable, buckets

LEMMA NewGood ==
    ASSUME NEW t \in BOOLEAN, NEW hash
    PROVE  Good(NewProfile(t), hash, FALSE) /\ HeldIn(NewProfile(t)) = {}
<1> DEFINE p == NewProfile(t)
<1>1. /\ p \in Profiles /\ p.symbols = {} /\ DOMAIN p.aggregates = {}
      /\ p.alloc = 0 /\ p.inuse = 0 /\ NewTable(p, t)
  BY NewTypes
<1> HIDE DEF p
<1>2. Table(p, hash) /\ HeldIn(p) = {}
  BY <1>1, NewTableIs
<1>3. SymbolCapacity \in Nat /\ AggregateCapacity \in Nat
  BY CapacitiesAssumption
<1>4. SymbolsFit(p) /\ AggregatesFit(p)
  BY <1>1, <1>3, FS_EmptySet DEF SymbolsFit, AggregatesFit
<1>5. Total(p) = 0 /\ WeightOf(p, HeldIn(p)) = 0
  BY <1>1, <1>2, SumEmpty DEF Total, WeightOf
<1>6. Plus(0, 0) = 0
  BY Arithmetic DEF Plus
<1>7. Sound(p, FALSE)
  BY <1>1, <1>5, <1>6 DEF Sound
<1> QED
  BY <1>1, <1>2, <1>4, <1>7 DEF Good, p

LEMMA FinishGood ==
    ASSUME NEW prof, NEW hash, NEW lost, Good(prof, hash, lost)
    PROVE  LET r == Finish(prof) IN
           /\ Good(r, hash, lost) /\ HeldIn(r) = {} /\ ~r.tracks
           /\ r.aggregates = prof.aggregates /\ r.overflowed = prof.overflowed
           /\ r.alloc = prof.alloc
<1> DEFINE r == Finish(prof)
           n == NewProfile(FALSE)
           buckets == [b \in Buckets |-> NoEntry]
           entries == n.entries
<1>0. PICK no \in BOOLEAN : no = FALSE
  OBVIOUS
<1> DEFINE q == [prof EXCEPT !.tracks = no, !.liveCount = 0]
<1>1. n \in Profiles /\ NewTable(n, FALSE)
  BY NewTypes
<1>2. n.free = NoEntry
  BY DEF NewProfile
<1>3. entries \in [Entries -> Entry]
  <2> HIDE DEF n
  <2> QED
    BY <1>1 DEF Profiles
<1>4. buckets \in [Buckets -> Entries \cup {NoEntry}]
  OBVIOUS
<1>5. r = [q EXCEPT !.entries = entries, !.buckets = buckets, !.free = NoEntry]
  BY <1>0 DEF Finish
<1>6. prof \in Profiles /\ Sound(prof, lost) /\ SymbolsFit(prof) /\ AggregatesFit(prof)
  BY DEF Good
<1>7. /\ q \in Profiles /\ q.tracks = no /\ q.liveCount = 0 /\ q.symbols = prof.symbols
      /\ q.aggregates = prof.aggregates /\ q.alloc = prof.alloc /\ q.inuse = prof.inuse
      /\ q.overflowed = prof.overflowed
  <2> DEFINE o == [prof EXCEPT !.tracks = no]
             z == 0
  <2>1. /\ o \in Profiles /\ o.tracks = no /\ o.symbols = prof.symbols
        /\ o.aggregates = prof.aggregates /\ o.alloc = prof.alloc /\ o.inuse = prof.inuse
        /\ o.overflowed = prof.overflowed
    BY <1>0, <1>6 DEF Profiles
  <2>2. q = [o EXCEPT !.liveCount = z]
    OBVIOUS
  <2>3. z \in Int
    OBVIOUS
  <2> HIDE DEF o, q, z
  <2>4. /\ q \in Profiles /\ q.tracks = o.tracks /\ q.liveCount = z /\ q.symbols = o.symbols
        /\ q.aggregates = o.aggregates /\ q.alloc = o.alloc /\ q.inuse = o.inuse
        /\ q.overflowed = o.overflowed
    BY <2>1, <2>2, <2>3 DEF Profiles
  <2> QED
    BY <2>1, <2>4 DEF z
<1> HIDE DEF r, entries, buckets, q
<1>8. /\ r \in Profiles /\ r.tracks = no /\ r.liveCount = 0 /\ r.entries = entries
      /\ r.buckets = buckets /\ r.free = NoEntry /\ r.symbols = prof.symbols
      /\ r.aggregates = prof.aggregates /\ r.alloc = prof.alloc /\ r.inuse = prof.inuse
      /\ r.overflowed = prof.overflowed
  BY <1>3, <1>4, <1>5, <1>7 DEF Profiles
<1>9. NewTable(r, FALSE)
  BY <1>0, <1>2, <1>8 DEF NewTable, entries, buckets
<1>10. Table(r, hash) /\ HeldIn(r) = {}
  BY <1>9, NewTableIs
<1>11. Total(r) = Total(prof)
  BY <1>8 DEF Total, AllocOf
<1>12. Sound(r, lost)
  BY <1>0, <1>6, <1>8, <1>11 DEF Sound
<1>13. SymbolsFit(r) /\ AggregatesFit(r)
  BY <1>6, <1>8 DEF SymbolsFit, AggregatesFit
<1> QED
  BY <1>0, <1>8, <1>10, <1>12, <1>13 DEF Good, r

------------------------------------------------------------------------------
(* The inductive invariant.                                                   *)

\* A history of samples: a weight for each of finitely many stacks.
Weighted(h) == IsFiniteSet(DOMAIN h) /\ \A s \in DOMAIN h : h[s] \in Words
SampledTotal(h) == Plus(SumFunctionOnSet(h, DOMAIN h), 0)

\* An aggregate has what was sampled at its stack.  A sampled stack without an
\* aggregate never gets one: the table was full then and stays so.
Separate(prof, h) ==
    ~prof.overflowed.symbol =>
        /\ \A k \in DOMAIN prof.aggregates :
                k \in DOMAIN h /\ prof.aggregates[k].alloc = h[k]
        /\ \/ DOMAIN h \subseteq DOMAIN prof.aggregates
           \/ ~(Cardinality(DOMAIN prof.aggregates) < AggregateCapacity)

\* The total lacks something exactly when the profile says that it does.
Told(prof, total) ==
    /\ ~prof.overflowed.aggregate => prof.alloc = total
    /\ prof.overflowed.aggregate /\ prof.alloc < MaxWord => prof.alloc < total

\* What the profile has of the samples, and what it says it has lost.
Samples ==
    /\ Weighted(sampled) /\ Separate(profile, sampled)
    /\ Told(profile, SampledTotal(sampled))

\* The table is used only while the recording runs, and for blocks that exist.
Allocated ==
    /\ profile.tracks => active
    /\ \A i \in HeldIn(profile) : profile.entries[i].pointer \in heap

Inv ==
    /\ heap \subseteq Pointers /\ bucketOf \in [Pointers -> Buckets]
    /\ active \in BOOLEAN /\ working \in BOOLEAN /\ saturated \in BOOLEAN
    /\ Good(profile, bucketOf, saturated)
    /\ Allocated /\ Samples

\* A new profile has nothing of no samples.
LEMMA NothingSampled ==
    ASSUME NEW h, h = [stack \in {} |-> 0], NEW prof, DOMAIN prof.aggregates = {},
           ~prof.overflowed.aggregate, prof.alloc = 0
    PROVE  Weighted(h) /\ Separate(prof, h) /\ Told(prof, SampledTotal(h))
<1>1. DOMAIN h = {} /\ IsFiniteSet(DOMAIN h)
  BY FS_EmptySet
<1>2. Weighted(h) /\ Separate(prof, h)
  BY <1>1 DEF Weighted, Separate
<1>3. SampledTotal(h) = 0
  BY <1>1, SumEmpty, Arithmetic DEF SampledTotal, Plus
<1> QED
  BY <1>2, <1>3 DEF Told

LEMMA InvInit == Init => Inv
<1> SUFFICES ASSUME Init PROVE Inv
  OBVIOUS
<1> DEFINE n == NewProfile(FALSE)
<1>1. /\ heap = {} /\ bucketOf \in [Pointers -> Buckets] /\ active = FALSE /\ working = FALSE
      /\ profile = n /\ sampled = [stack \in {} |-> 0] /\ saturated = FALSE
  BY DEF Init
<1>2. Good(n, bucketOf, FALSE) /\ HeldIn(n) = {} /\ DOMAIN n.aggregates = {} /\ n.tracks = FALSE
      /\ ~n.overflowed.aggregate /\ n.alloc = 0
  BY NewGood, NewTypes
<1> HIDE DEF n
<1>3. Good(profile, bucketOf, saturated) /\ Allocated
  BY <1>1, <1>2 DEF Allocated
<1>4. Samples
  BY <1>1, <1>2, NothingSampled DEF Samples
<1> QED
  BY <1>1, <1>3, <1>4 DEF Inv

\* The old block is gone from the table, whether or not a recording runs.
LEMMA ReconciledIs ==
    ASSUME Inv, NEW old \in Pointers \cup {NoPointer}
    PROVE  LET r == Reconciled(old) IN
           /\ Good(r, bucketOf, saturated) /\ MapLacks(profile, r, old)
           /\ r.tracks = profile.tracks /\ SameSamples(r, profile)
<1> DEFINE r == Reconciled(old)
<1>1. bucketOf \in [Pointers -> Buckets] /\ Good(profile, bucketOf, saturated) /\ Allocated
  BY DEF Inv
<1>2. ASSUME r = profile, \A i \in HeldIn(profile) : profile.entries[i].pointer # old
      PROVE  /\ Good(r, bucketOf, saturated) /\ MapLacks(profile, r, old)
             /\ r.tracks = profile.tracks /\ SameSamples(r, profile)
  <2> HIDE DEF r
  <2> QED
    BY <1>1, <1>2 DEF MapLacks, SameEntry, SameSamples
<1>3. CASE ~active
  <2>1. HeldIn(profile) = {}
    BY <1>1, <1>3 DEF Allocated, Good, Table
  <2>2. r = profile
    BY <1>3 DEF Reconciled
  <2> QED
    BY <1>2, <2>1, <2>2
<1>4. CASE active /\ old = NoPointer
  <2>1. r = profile
    BY <1>4 DEF Reconciled, Reconcile
  <2>2. \A i \in HeldIn(profile) : profile.entries[i].pointer # old
    BY <1>4 DEF HeldIn
  <2> QED
    BY <1>2, <2>1, <2>2
<1>5. CASE active /\ old # NoPointer
  <2>1. r = RemoveLive(profile, old) /\ old \in Pointers
    BY <1>5 DEF Reconciled, Reconcile
  <2> HIDE DEF r
  <2> QED
    BY <1>1, <2>1, RemoveGood DEF r
<1> QED
  BY <1>3, <1>4, <1>5

\* The parts of the invariant that a profile has.
LEMMA SameSamplesKeep ==
    ASSUME NEW prof, NEW r, SameSamples(r, prof), NEW h, NEW total,
           Separate(prof, h), Told(prof, total)
    PROVE  Separate(r, h) /\ Told(r, total)
BY DEF SameSamples, Separate, Told

\* The history h with a sample of weight w at the stack k.
Another(h, k, w) ==
    [s \in DOMAIN h \cup {k} |->
        IF s # k THEN h[s] ELSE Plus(IF s \in DOMAIN h THEN h[s] ELSE 0, w)]

\* One sample adds its weight to the sum of all, up to saturation.
LEMMA AnotherTotal ==
    ASSUME NEW h, Weighted(h), NEW k, NEW w \in Weights
    PROVE  Weighted(Another(h, k, w)) /\ SampledTotal(h) \in Words
           /\ SampledTotal(Another(h, k, w)) = Plus(SampledTotal(h), w)
<1> DEFINE D == DOMAIN h
           T == D \ {k}
           g == Another(h, k, w)
           a == IF k \in D THEN h[k] ELSE 0
           rest == SumFunctionOnSet(h, T)
<1>1. /\ w \in Nat /\ MaxWord \in Nat /\ 0 \in Words
      /\ \A v \in Nat : v \in Words <=> v <= MaxWord
      /\ \A v \in Words : v \in Nat
  BY Arithmetic DEF Weights, Words
<1>2. IsFiniteSet(D) /\ \A s \in D : h[s] \in Words /\ h[s] \in Nat
  BY <1>1 DEF Weighted
<1>3. IsFiniteSet(T) /\ k \notin T /\ T \in SUBSET D
  BY <1>2, FS_Subset
<1>4. DOMAIN g = D \cup {k} /\ g[k] = Plus(a, w) /\ \A s \in T : g[s] = h[s]
  BY DEF Another
<1>5. a \in Words /\ a \in Nat /\ a <= MaxWord
  BY <1>1, <1>2
<1>6. rest \in Nat
  <2> HIDE DEF T
  <2> QED
    BY <1>2, <1>3, SumType
<1>7. SumFunctionOnSet(h, D) = a + rest
  <2>1. CASE k \in D
    <3>1. SumFunctionOnSet(h, D) = h[k] + rest
      <4> HIDE DEF D
      <4> QED
        BY <1>2, <2>1, SumRemove
    <3> QED
      BY <2>1, <3>1
  <2>2. CASE k \notin D
    <3>1. T = D /\ a = 0
      BY <2>2
    <3> HIDE DEF T, a, D
    <3> QED
      BY <1>6, <3>1
  <2> QED
    BY <2>1, <2>2
<1> HIDE DEF g, a
<1>8. g[k] \in Words /\ g[k] \in Nat
  BY <1>1, <1>4, <1>5, Arithmetic
<1>9. SumFunctionOnSet(g, D \cup {k}) = Plus(a, w) + rest
  <2>1. T \cup {k} = D \cup {k}
    OBVIOUS
  <2>2. \A s \in T \cup {k} : g[s] \in Nat
    BY <1>2, <1>3, <1>4, <1>8
  <2> HIDE DEF T
  <2>3. SumFunctionOnSet(g, T) = rest
    BY <1>3, <1>4, SumSame
  <2>4. SumFunctionOnSet(g, T \cup {k}) = g[k] + SumFunctionOnSet(g, T)
    BY <1>3, <2>2, SumAdd
  <2> HIDE DEF rest, D
  <2> QED
    BY <1>4, <2>1, <2>3, <2>4
<1>10. Weighted(g)
  <2>1. IsFiniteSet(D \cup {k})
    BY <1>2, FS_AddElement
  <2> QED
    BY <1>2, <1>3, <1>4, <1>8, <2>1 DEF Weighted
<1> HIDE DEF rest, T
<1>11. SampledTotal(h) = Plus(a + rest, 0) /\ SampledTotal(g) = Plus(Plus(a, w) + rest, 0)
  BY <1>4, <1>7, <1>9 DEF SampledTotal
<1>12. SampledTotal(g) = Plus(SampledTotal(h), w)
  BY <1>1, <1>5, <1>6, <1>11, Saturation
<1>13. SampledTotal(h) \in Words
  <2>1. a + rest \in Nat
    BY <1>5, <1>6
  <2> QED
    BY <1>1, <1>11, <2>1 DEF Plus
<1> QED
  BY <1>10, <1>12, <1>13 DEF g

\* What is told of the samples before is told of them with one more.
LEMMA TellsMore ==
    ASSUME NEW alloc \in Words, NEW total \in Words, NEW w \in Weights,
           NEW told \in BOOLEAN, NEW has \in BOOLEAN,
           ~told => alloc = total, told /\ alloc < MaxWord => alloc < total,
           NEW after, after = IF has THEN Plus(alloc, w) ELSE alloc
    PROVE  /\ has /\ ~told => after = Plus(total, w)
           /\ (~has \/ told) /\ after < MaxWord => after < Plus(total, w)
<1>1. alloc \in Nat /\ total \in Nat /\ w \in Nat /\ w >= 1 /\ MaxWord \in Nat
  BY Arithmetic DEF Words, Weights
<1> QED
  BY <1>1 DEF Plus

\* A sample keeps the aggregates separate and what is told true.
LEMMA RecordKeeps ==
    ASSUME NEW prof, NEW h, Weighted(h), Separate(prof, h), Told(prof, SampledTotal(h)),
           prof.alloc \in Words, prof.overflowed.aggregate \in BOOLEAN,
           NEW stack, NEW k, NEW w \in Weights, NEW r,
           Booked(prof, r, k, HasAggregate(prof, k), w),
           ~r.overflowed.symbol => ~prof.overflowed.symbol /\ k = stack
    PROVE  LET g == Another(h, stack, w)
           IN  Weighted(g) /\ Separate(r, g) /\ Told(r, SampledTotal(g))
<1> DEFINE g == Another(h, stack, w)
           D == DOMAIN prof.aggregates
           E == DOMAIN r.aggregates
           has == HasAggregate(prof, k)
           full == ~(Cardinality(D) < AggregateCapacity)
<1>1. Weighted(g) /\ SampledTotal(h) \in Words /\ SampledTotal(g) = Plus(SampledTotal(h), w)
  BY AnotherTotal
<1>2. /\ E = IF has THEN D \cup {k} ELSE D
      /\ \A l \in E : r.aggregates[l].alloc =
                IF has /\ l = k THEN Plus(Given(prof, l), w) ELSE prof.aggregates[l].alloc
      /\ r.alloc = IF has THEN Plus(prof.alloc, w) ELSE prof.alloc
      /\ r.overflowed.aggregate = (IF has THEN prof.overflowed.aggregate ELSE TRUE)
  BY DEF Booked
<1>3. has \in BOOLEAN /\ (has <=> k \in D \/ ~full)
  BY DEF HasAggregate
<1> HIDE DEF has
<1>4. Told(r, SampledTotal(g))
  BY <1>1, <1>2, <1>3, TellsMore DEF Told
<1>5. ASSUME ~r.overflowed.symbol
      PROVE  /\ \A l \in E : l \in DOMAIN g /\ r.aggregates[l].alloc = g[l]
             /\ DOMAIN g \subseteq E \/ ~(Cardinality(E) < AggregateCapacity)
  <2>1. /\ k = stack
        /\ \A l \in D : l \in DOMAIN h /\ prof.aggregates[l].alloc = h[l]
        /\ DOMAIN h \subseteq D \/ full
    BY <1>5 DEF Separate
  <2>2. /\ DOMAIN g = DOMAIN h \cup {k}
        /\ g[k] = Plus(IF k \in DOMAIN h THEN h[k] ELSE 0, w)
        /\ \A l \in DOMAIN h \ {k} : g[l] = h[l]
    BY <2>1 DEF Another
  <2> HIDE DEF g, full, D, E
  <2>3. CASE has
    <3>1. k \in DOMAIN h <=> k \in D
      BY <1>3, <2>1, <2>3
    <3>2. Plus(Given(prof, k), w) = g[k]
      BY <2>1, <2>2, <3>1 DEF Given, D
    <3>3. \A l \in E : l \in DOMAIN g /\ r.aggregates[l].alloc = g[l]
      BY <1>2, <2>1, <2>2, <2>3, <3>2
    <3>4. DOMAIN h \subseteq D => DOMAIN g \subseteq E
      BY <1>2, <2>2, <2>3
    <3>5. full => E = D
      BY <1>2, <1>3, <2>3
    <3> QED
      BY <2>1, <3>3, <3>4, <3>5 DEF full
  <2>4. CASE ~has
    <3>1. full /\ E = D /\ k \notin D
      BY <1>2, <1>3, <2>4
    <3>2. \A l \in E : l \in DOMAIN g /\ r.aggregates[l].alloc = g[l]
      BY <1>2, <2>1, <2>2, <2>4, <3>1
    <3> QED
      BY <3>1, <3>2 DEF full
  <2> QED
    BY <1>3, <2>3, <2>4
<1>6. Separate(r, g)
  BY <1>5 DEF Separate
<1> QED
  BY <1>1, <1>4, <1>6

LEMMA CallbackKeeps ==
    ASSUME Inv, NEW p \in Pointers, NEW old \in Pointers \cup {NoPointer}, Callback(old, p),
           p = old \/ p \notin heap, heap' = (heap \ {old}) \cup {p},
           UNCHANGED <<bucketOf, active, working>>
    PROVE  Inv'
<1> DEFINE r == Reconciled(old)
<1>1. /\ heap \subseteq Pointers /\ bucketOf \in [Pointers -> Buckets]
      /\ active \in BOOLEAN /\ working \in BOOLEAN /\ saturated \in BOOLEAN
      /\ Allocated /\ Samples
  BY DEF Inv
<1>2. /\ Good(r, bucketOf, saturated) /\ MapLacks(profile, r, old)
      /\ r.tracks = profile.tracks /\ SameSamples(r, profile)
  BY ReconciledIs
<1> HIDE DEF r
<1>3. heap' \subseteq Pointers /\ bucketOf' \in [Pointers -> Buckets]
      /\ active' \in BOOLEAN /\ working' \in BOOLEAN
  BY <1>1
<1>4. \A i \in HeldIn(r) : /\ r.entries[i].pointer \in heap \ {old}
                           /\ r.entries[i].pointer # p
  <2> SUFFICES ASSUME NEW i \in HeldIn(r)
               PROVE  r.entries[i].pointer \in heap \ {old} /\ r.entries[i].pointer # p
    OBVIOUS
  <2>1. i \in HeldIn(profile) /\ profile.entries[i].pointer # old
        /\ r.entries[i].pointer = profile.entries[i].pointer
    BY <1>2 DEF MapLacks, SameEntry
  <2> QED
    BY <1>1, <2>1 DEF Allocated
<1>5. Weighted(sampled) /\ Separate(r, sampled) /\ Told(r, SampledTotal(sampled))
  BY <1>1, <1>2, SameSamplesKeep DEF Samples
<1>6. ASSUME profile' = r, UNCHANGED <<sampled, saturated>> PROVE Inv'
  <2>1. Allocated'
    BY <1>1, <1>2, <1>4, <1>6 DEF Allocated
  <2>2. Samples'
    BY <1>5, <1>6 DEF Samples
  <2> QED
    BY <1>1, <1>2, <1>3, <1>6, <2>1, <2>2 DEF Inv
<1>7. ASSUME NEW stack \in Stacks, NEW w \in Weights, profile' = Record(r, p, stack, w),
             Remember(r, stack, w)
      PROVE  Inv'
  <2> DEFINE t == InternAll(r, stack)
             k == Compact(t, stack)
             sat == saturated \/ r.alloc + w > MaxWord
             q == profile'
  <2>1. Sampled(r, q, p, stack, w, sat)
    BY <1>1, <1>2, <1>4, <1>7, RecordIs
  <2>2. /\ Good(q, bucketOf, sat) /\ q.tracks = r.tracks
        /\ MapSame(r, q) \/ MapAdds(r, q, p)
        /\ Booked(r, q, k, HasAggregate(r, k), w)
        /\ ~q.overflowed.symbol => ~r.overflowed.symbol /\ k = stack
    BY <2>1 DEF Sampled
  <2>3. sampled' = Another(sampled, stack, w) /\ saturated' = sat
    BY <1>7 DEF Remember, Another
  <2> HIDE DEF t, k, sat
  <2>4. sat \in BOOLEAN
    BY <1>1 DEF sat
  <2>5. Allocated'
    <3>1. \A i \in HeldIn(q) : q.entries[i].pointer \in heap'
      <4>1. CASE MapSame(r, q)
        BY <1>4, <4>1 DEF MapSame, SameEntry
      <4>2. CASE MapAdds(r, q, p)
        <5>1. PICK i \in Entries :
                    /\ HeldIn(q) = HeldIn(r) \cup {i} /\ q.entries[i].pointer = p
                    /\ \A j \in HeldIn(r) : SameEntry(q.entries[j], r.entries[j])
          BY <4>2 DEF MapAdds
        <5>2. \A j \in HeldIn(r) : q.entries[j].pointer \in heap'
          BY <1>4, <5>1 DEF SameEntry
        <5> QED
          BY <5>1, <5>2
      <4> QED
        BY <2>2, <4>1, <4>2
    <3>2. q.tracks => active'
      BY <1>1, <1>2, <2>2 DEF Allocated
    <3> QED
      BY <3>1, <3>2 DEF Allocated
  <2>6. Samples'
    <3>1. r.alloc \in Words /\ r.overflowed.aggregate \in BOOLEAN
      BY <1>2 DEF Good, Profiles, Flags
    <3>2. /\ Weighted(Another(sampled, stack, w)) /\ Separate(q, Another(sampled, stack, w))
          /\ Told(q, SampledTotal(Another(sampled, stack, w)))
      BY <1>5, <1>7, <2>2, <3>1, RecordKeeps
    <3> QED
      BY <2>3, <3>2 DEF Samples
  <2>7. Good(profile', bucketOf', saturated') /\ saturated' \in BOOLEAN
    BY <2>2, <2>3, <2>4
  <2> QED
    BY <1>3, <2>5, <2>6, <2>7 DEF Inv
<1> QED
  BY <1>6, <1>7 DEF Callback, r

LEMMA AllocateKeeps == ASSUME Inv, NEW p \in Pointers, Allocate(p) PROVE Inv'
<1>1. NoPointer \notin heap
  BY PointersAssumption DEF Inv
<1>2. /\ p \notin heap /\ heap' = (heap \ {NoPointer}) \cup {p} /\ Callback(NoPointer, p)
      /\ UNCHANGED <<bucketOf, active, working>>
  BY <1>1 DEF Allocate
<1> QED
  BY <1>2, CallbackKeeps

LEMMA ReallocateKeeps ==
    ASSUME Inv, NEW old \in Pointers, NEW p \in Pointers, Reallocate(old, p) PROVE Inv'
BY CallbackKeeps DEF Reallocate

LEMMA FreeKeeps == ASSUME Inv, NEW p \in Pointers, Free(p) PROVE Inv'
<1> DEFINE r == Reconciled(p)
<1>1. /\ Good(r, bucketOf, saturated) /\ MapLacks(profile, r, p)
      /\ r.tracks = profile.tracks /\ SameSamples(r, profile)
  BY ReconciledIs
<1>2. /\ heap' = heap \ {p} /\ profile' = r
      /\ UNCHANGED <<bucketOf, active, working, sampled, saturated>>
  BY DEF Free
<1> HIDE DEF r
<1>3. Allocated'
  BY <1>1, <1>2 DEF Inv, Allocated, MapLacks, SameEntry
<1>4. Samples'
  BY <1>1, <1>2, SameSamplesKeep DEF Inv, Samples
<1> QED
  BY <1>1, <1>2, <1>3, <1>4 DEF Inv

LEMMA StartKeeps == ASSUME Inv, Start PROVE Inv'
<1>1. PICK t \in BOOLEAN : profile' = NewProfile(t)
  BY DEF Start
<1>2. /\ active' = TRUE /\ sampled' = [stack \in {} |-> 0] /\ saturated' = FALSE
      /\ UNCHANGED <<heap, bucketOf, working>>
  BY DEF Start
<1>3. Good(profile', bucketOf, FALSE) /\ HeldIn(profile') = {} /\ DOMAIN profile'.aggregates = {}
      /\ ~profile'.overflowed.aggregate /\ profile'.alloc = 0
  BY <1>1, NewGood, NewTypes
<1>4. Allocated'
  BY <1>2, <1>3 DEF Allocated
<1>5. Samples'
  BY <1>2, <1>3, NothingSampled DEF Samples
<1>6. Good(profile', bucketOf', saturated')
  BY <1>2, <1>3
<1> QED
  BY <1>2, <1>4, <1>5, <1>6 DEF Inv

LEMMA StopKeeps == ASSUME Inv, Stop PROVE Inv'
<1> DEFINE r == Finish(profile)
<1>1. Good(r, bucketOf, saturated) /\ HeldIn(r) = {} /\ ~r.tracks
      /\ r.aggregates = profile.aggregates /\ r.overflowed = profile.overflowed
      /\ r.alloc = profile.alloc
  BY FinishGood DEF Inv
<1>2. /\ active' = FALSE /\ profile' = r
      /\ UNCHANGED <<heap, bucketOf, working, sampled, saturated>>
  BY DEF Stop
<1> HIDE DEF r
<1>3. Allocated'
  BY <1>1, <1>2 DEF Allocated
<1>4. Samples'
  BY <1>1, <1>2 DEF Inv, Samples, Separate, Told
<1> QED
  BY <1>1, <1>2, <1>3, <1>4 DEF Inv

LEMMA InvNext == Inv /\ [Next]_vars => Inv'
<1> SUFFICES ASSUME Inv, [Next]_vars PROVE Inv'
  OBVIOUS
<1>1. ASSUME NEW p \in Pointers, Allocate(p) PROVE Inv'
  BY <1>1, AllocateKeeps
<1>2. ASSUME NEW p \in Pointers, Free(p) PROVE Inv'
  BY <1>2, FreeKeeps
<1>3. ASSUME NEW p \in Pointers, NEW old \in Pointers, Reallocate(old, p) PROVE Inv'
  BY <1>3, ReallocateKeeps
<1>4. CASE BeginWork \/ EndWork
  BY <1>4 DEF BeginWork, EndWork, Inv, Allocated, Samples
<1>5. CASE Start
  BY <1>5, StartKeeps
<1>6. CASE Stop
  BY <1>6, StopKeeps
<1>7. CASE UNCHANGED vars
  BY <1>7 DEF vars, Inv, Allocated, Samples
<1> QED
  BY <1>1, <1>2, <1>3, <1>4, <1>5, <1>6, <1>7 DEF Next

LEMMA Invariance == Spec => []Inv
BY InvInit, InvNext, PTL DEF Spec

------------------------------------------------------------------------------
(* What the runs check.                                                       *)

LEMMA HeldCount ==
    ASSUME NEW prof \in Profiles
    PROVE  Cardinality(HeldIn(prof)) \in 0 .. LiveCapacity
<1>1. IsFiniteSet(Entries) /\ Cardinality(Entries) = LiveCapacity /\ LiveCapacity \in Nat
  BY Arithmetic, FS_Interval DEF Entries
<1>2. HeldIn(prof) \in SUBSET Entries
  BY HeldTypes
<1>3. Cardinality(HeldIn(prof)) <= LiveCapacity /\ Cardinality(HeldIn(prof)) \in Nat
  BY <1>1, <1>2, FS_Subset, FS_CardinalityType
<1> QED
  BY <1>1, <1>3

LEMMA InvTypeOK == Inv => TypeOK
<1> SUFFICES ASSUME Inv PROVE TypeOK
  OBVIOUS
<1>1. /\ heap \subseteq Pointers /\ bucketOf \in [Pointers -> Buckets]
      /\ active \in BOOLEAN /\ working \in BOOLEAN /\ saturated \in BOOLEAN
      /\ profile \in Profiles /\ Table(profile, bucketOf)
      /\ SymbolsFit(profile) /\ AggregatesFit(profile)
  BY DEF Inv, Good
<1>2. profile.liveCount \in 0 .. LiveCapacity
  <2>1. CASE profile.tracks
    BY <1>1, <2>1, HeldCount DEF Table
  <2>2. CASE ~profile.tracks
    BY <1>1, <2>2, Arithmetic DEF Table
  <2> QED
    BY <2>1, <2>2
<1>3. DOMAIN profile.aggregates \subseteq Keys
      /\ profile.aggregates \in [DOMAIN profile.aggregates -> [alloc: Words, inuse: Words]]
  BY <1>1, TableIs DEF Profiles, Sum
<1>4. /\ profile.symbols \subseteq Symbols
      /\ profile.entries \in
            [Entries -> [pointer: Pointers \cup {NoPointer}, weight: 0 .. MaxWeight,
                         stack: Keys \cup {<<>>}, next: Entries \cup {NoEntry}]]
      /\ profile.buckets \in [Buckets -> Entries \cup {NoEntry}]
      /\ profile.free \in Entries \cup {NoEntry}
      /\ profile.alloc \in Words /\ profile.inuse \in Words
  BY <1>1 DEF Profiles, Entry
<1>5. Cardinality(profile.symbols) <= SymbolCapacity
      /\ Cardinality(DOMAIN profile.aggregates) <= AggregateCapacity
  BY <1>1 DEF SymbolsFit, AggregatesFit
<1> QED
  BY <1>1, <1>2, <1>3, <1>4, <1>5 DEF TypeOK

\* The chain of a list is an injection onto its members.
LEMMA ChainOf ==
    ASSUME NEW prof, NEW head, NEW S \in SUBSET Entries, ListOf(Links(prof), head, S)
    PROVE  IsInjective(Chain(prof, head)) /\ ToSet(Chain(prof, head)) = S
<1>1. PICK c : IsList(Links(prof), head, S, c)
  BY DEF ListOf
<1>2. Chain(prof, head) = c
  BY <1>1, ChainIs
<1>3. c \in Seq(S) /\ (\A i \in S : \E k \in 1 .. Len(c) : c[k] = i)
      /\ \A j, k \in 1 .. Len(c) : c[j] = c[k] => j = k
  BY <1>1 DEF IsList
<1>4. DOMAIN c = 1 .. Len(c) /\ \A k \in 1 .. Len(c) : c[k] \in S
  BY <1>3
<1>5. IsInjective(c)
  BY <1>3, <1>4 DEF IsInjective
<1>6. ToSet(c) = S
  BY <1>3, <1>4 DEF ToSet
<1> QED
  BY <1>2, <1>5, <1>6

LEMMA InvTableSound == Inv => TableSound
<1> SUFFICES ASSUME Inv, profile.tracks PROVE TableSound
  BY DEF TableSound
<1>1. Table(profile, bucketOf)
  BY DEF Inv, Good
<1>2. HeldIn(profile) = Held
  BY DEF HeldIn, Held
<1>3. LET chain == Chain(profile, profile.free)
      IN  IsInjective(chain) /\ ToSet(chain) = Entries \ Held
  <2>1. ListOf(Links(profile), profile.free, Entries \ Held)
    BY <1>1, <1>2 DEF Table, Unused
  <2> QED
    BY <2>1, ChainOf
<1>4. ASSUME NEW b \in Buckets
      PROVE  LET chain == Chain(profile, profile.buckets[b])
             IN  /\ IsInjective(chain)
                 /\ ToSet(chain) = {i \in Held : bucketOf[profile.entries[i].pointer] = b}
  <2> DEFINE S == {i \in Held : bucketOf[profile.entries[i].pointer] = b}
  <2>1. ListOf(Links(profile), profile.buckets[b], S) /\ S \in SUBSET Entries
    BY <1>1, <1>2 DEF Table, InBucket, Held
  <2> HIDE DEF S
  <2>2. IsInjective(Chain(profile, profile.buckets[b])) /\ ToSet(Chain(profile, profile.buckets[b])) = S
    BY <2>1, ChainOf
  <2> QED
    BY <2>2 DEF S
<1>5. /\ \A i, j \in Held :
                profile.entries[i].pointer = profile.entries[j].pointer => i = j
      /\ profile.liveCount = Cardinality(Held)
  BY <1>1, <1>2 DEF Table
<1> QED
  BY <1>3, <1>4, <1>5 DEF TableSound

LEMMA InvSumsAgree == Inv => SumsAgree
<1> SUFFICES ASSUME Inv PROVE SumsAgree
  OBVIOUS
<1>1. Sound(profile, saturated)
  BY DEF Inv, Good
<1>2. HeldIn(profile) = Held /\ \A k : HeldFor(profile, k) = {i \in Held : profile.entries[i].stack = k}
  BY DEF HeldIn, HeldFor, Held
<1>3. SumFunction(AllocOf(profile)) = Total(profile)
  BY DEF SumFunction, Total, AllocOf
<1> DEFINE total == SumFunction([k \in DOMAIN profile.aggregates |-> profile.aggregates[k].alloc])
           Weight(held) == SumFunctionOnSet([i \in Entries |-> profile.entries[i].weight], held)
<1>4. total = Total(profile) /\ \A S : Weight(S) = WeightOf(profile, S)
  BY <1>3 DEF AllocOf, WeightOf, Weighed
<1> HIDE DEF total, Weight
<1>5. /\ profile.alloc = Plus(total, 0)
      /\ profile.inuse <= profile.alloc
      /\ \A k \in DOMAIN profile.aggregates : profile.aggregates[k].inuse <= profile.aggregates[k].alloc
      /\ (profile.tracks /\ ~saturated) =>
            /\ profile.inuse = Weight(Held)
            /\ \A k \in DOMAIN profile.aggregates : profile.aggregates[k].inuse =
                    Weight({i \in Held : profile.entries[i].stack = k})
  BY <1>1, <1>2, <1>4 DEF Sound
<1> QED
  BY <1>5 DEF SumsAgree, total, Weight

LEMMA InvStacksSeparate == Inv => StacksSeparate
BY DEF Inv, Samples, Separate, StacksSeparate

LEMMA InvLossIsTold == Inv => LossIsTold
<1> SUFFICES ASSUME Inv PROVE LossIsTold
  OBVIOUS
<1>1. Told(profile, SampledTotal(sampled))
  BY DEF Inv, Samples
<1>2. SampledTotal(sampled) = Plus(SumFunction(sampled), 0)
  BY DEF SampledTotal, SumFunction
<1> QED
  BY <1>1, <1>2 DEF Told, LossIsTold

\* A memory recording never has more symbols, aggregates or live entries than its
\* tables hold, and its sums are words: intern_symbol, the aggregates and the live
\* table of src/memory_core.c.
THEOREM Types == Spec => []TypeOK
BY Invariance, InvTypeOK, PTL

\* The buckets and the free list of the live table share out its entries, whatever
\* blocks are allocated, moved and freed and whatever the hash.
THEOREM TableIsSound == Spec => []TableSound
BY Invariance, InvTableSound, PTL

\* The totals of a report agree with its stacks, and what is in use weighs what the
\* live blocks do until a sum saturates.
THEOREM SumsDoAgree == Spec => []SumsAgree
BY Invariance, InvSumsAgree, PTL

\* Until the profile says that symbols were lost, an aggregate has all samples of
\* one stack and no other's; the total lacks samples exactly when the profile says
\* that aggregates were lost.
THEOREM LossesAreTold == Spec => []NoSilentLoss
<1>1. Inv => NoSilentLoss
  BY InvStacksSeparate, InvLossIsTold DEF NoSilentLoss
<1> QED
  BY <1>1, Invariance, PTL

------------------------------------------------------------------------------
(* The table is a map from blocks to samples.                                 *)

SampleOf(entry) == [stack |-> entry.stack, weight |-> entry.weight]
LiveOf(prof) == [p \in {q \in Pointers : Find(prof, q) # NoEntry} |->
                    SampleOf(prof.entries[Find(prof, p)])]
SampleSet == [stack: Keys, weight: Weights]

LEMMA LiveIs ==
    ASSUME bucketOf \in [Pointers -> Buckets], NEW prof, NEW lost, Good(prof, bucketOf, lost)
    PROVE  /\ DOMAIN LiveOf(prof) = {prof.entries[i].pointer : i \in HeldIn(prof)}
           /\ \A i \in HeldIn(prof) : LiveOf(prof)[prof.entries[i].pointer] = SampleOf(prof.entries[i])
           /\ \A i \in HeldIn(prof) : SampleOf(prof.entries[i]) \in SampleSet
           /\ LiveOf(prof) = [p \in DOMAIN LiveOf(prof) |-> LiveOf(prof)[p]]
<1>1. prof \in Profiles /\ Table(prof, bucketOf)
  BY DEF Good
<1>2. \A i \in HeldIn(prof) : prof.entries[i].pointer \in Pointers
  BY <1>1, HeldTypes
<1>3. \A i \in HeldIn(prof) : Find(prof, prof.entries[i].pointer) = i /\ i # NoEntry
  BY <1>1, <1>2, FindIs, NoEntryIs DEF HeldIn
<1>4. \A p \in Pointers : Find(prof, p) # NoEntry =>
            Find(prof, p) \in HeldIn(prof) /\ prof.entries[Find(prof, p)].pointer = p
  BY <1>1, FindIs
<1>5. DOMAIN LiveOf(prof) = {p \in Pointers : Find(prof, p) # NoEntry}
  BY DEF LiveOf
<1>6. DOMAIN LiveOf(prof) = {prof.entries[i].pointer : i \in HeldIn(prof)}
  BY <1>2, <1>3, <1>4, <1>5
<1>7. \A p \in DOMAIN LiveOf(prof) : LiveOf(prof)[p] = SampleOf(prof.entries[Find(prof, p)])
  BY DEF LiveOf
<1>8. \A i \in HeldIn(prof) : LiveOf(prof)[prof.entries[i].pointer] = SampleOf(prof.entries[i])
  BY <1>3, <1>6, <1>7
<1>9. \A i \in HeldIn(prof) : SampleOf(prof.entries[i]) \in SampleSet
  <2> SUFFICES ASSUME NEW i \in HeldIn(prof) PROVE SampleOf(prof.entries[i]) \in SampleSet
    OBVIOUS
  <2>1. prof.entries[i].stack \in DOMAIN prof.aggregates /\ prof.entries[i].weight \in Weights
    BY <1>1 DEF Table
  <2>2. DOMAIN prof.aggregates \in SUBSET Keys
    BY <1>1, AggregateTypes
  <2> QED
    BY <2>1, <2>2 DEF SampleOf, SampleSet
<1>10. LiveOf(prof) = [p \in DOMAIN LiveOf(prof) |-> LiveOf(prof)[p]]
  BY DEF LiveOf
<1> QED
  BY <1>6, <1>8, <1>9, <1>10

\* Two functions with a domain and values in common.
LEMMA SameFunction ==
    ASSUME NEW D, NEW f, NEW g, f = [x \in D |-> f[x]], g = [x \in D |-> g[x]],
           \A x \in D : f[x] = g[x]
    PROVE  f = g
OBVIOUS

\* A map without the block p.
Lacking(map, p) == [q \in DOMAIN map \ {p} |-> map[q]]

LEMMA LiveLacks ==
    ASSUME bucketOf \in [Pointers -> Buckets], NEW prof, NEW lost, Good(prof, bucketOf, lost),
           NEW r, Good(r, bucketOf, lost), NEW p, MapLacks(prof, r, p)
    PROVE  LiveOf(r) = Lacking(LiveOf(prof), p)
<1> DEFINE f == LiveOf(r)
           h == LiveOf(prof)
           D == DOMAIN h \ {p}
           g == [q \in D |-> h[q]]
<1>1. /\ DOMAIN h = {prof.entries[i].pointer : i \in HeldIn(prof)}
      /\ \A i \in HeldIn(prof) : h[prof.entries[i].pointer] = SampleOf(prof.entries[i])
  BY LiveIs
<1>2. /\ DOMAIN f = {r.entries[i].pointer : i \in HeldIn(r)}
      /\ \A i \in HeldIn(r) : f[r.entries[i].pointer] = SampleOf(r.entries[i])
      /\ f = [q \in DOMAIN f |-> f[q]]
  BY LiveIs
<1> HIDE DEF f, h
<1>3. /\ HeldIn(r) = {i \in HeldIn(prof) : prof.entries[i].pointer # p}
      /\ \A i \in HeldIn(r) : /\ r.entries[i].pointer = prof.entries[i].pointer
                              /\ SampleOf(r.entries[i]) = SampleOf(prof.entries[i])
  BY DEF MapLacks, SameEntry, SampleOf
<1>4. DOMAIN f = D
  BY <1>1, <1>2, <1>3
<1>5. \A q \in D : f[q] = h[q]
  <2> SUFFICES ASSUME NEW q \in D PROVE f[q] = h[q]
    OBVIOUS
  <2>1. PICK i \in HeldIn(r) : r.entries[i].pointer = q
    BY SMTT(30), <1>2, <1>4
  <2> QED
    BY <1>1, <1>2, <1>3, <2>1
<1>6. f = [q \in D |-> f[q]] /\ g = [q \in D |-> g[q]] /\ \A q \in D : f[q] = g[q]
  BY <1>2, <1>4, <1>5
<1> HIDE DEF g, D
<1>7. f = g
  BY <1>6, SameFunction
<1> QED
  BY <1>7 DEF f, g, h, D, Lacking

LEMMA LiveSame ==
    ASSUME bucketOf \in [Pointers -> Buckets], NEW prof, NEW lost, Good(prof, bucketOf, lost),
           NEW r, NEW sat, Good(r, bucketOf, sat), MapSame(prof, r)
    PROVE  LiveOf(r) = LiveOf(prof)
<1> DEFINE f == LiveOf(r)
           h == LiveOf(prof)
           D == DOMAIN h
<1>1. /\ DOMAIN h = {prof.entries[i].pointer : i \in HeldIn(prof)}
      /\ \A i \in HeldIn(prof) : h[prof.entries[i].pointer] = SampleOf(prof.entries[i])
      /\ h = [q \in DOMAIN h |-> h[q]]
  BY LiveIs
<1>2. /\ DOMAIN f = {r.entries[i].pointer : i \in HeldIn(r)}
      /\ \A i \in HeldIn(r) : f[r.entries[i].pointer] = SampleOf(r.entries[i])
      /\ f = [q \in DOMAIN f |-> f[q]]
  BY LiveIs
<1> HIDE DEF f, h
<1>3. /\ HeldIn(r) = HeldIn(prof)
      /\ \A i \in HeldIn(r) : /\ r.entries[i].pointer = prof.entries[i].pointer
                              /\ SampleOf(r.entries[i]) = SampleOf(prof.entries[i])
  BY DEF MapSame, SameEntry, SampleOf
<1>4. DOMAIN f = D
  BY <1>1, <1>2, <1>3
<1>5. \A q \in D : f[q] = h[q]
  <2> SUFFICES ASSUME NEW q \in D PROVE f[q] = h[q]
    OBVIOUS
  <2>1. PICK i \in HeldIn(r) : r.entries[i].pointer = q
    BY <1>2, <1>4
  <2> QED
    BY <1>1, <1>2, <1>3, <2>1
<1>6. f = [q \in D |-> f[q]] /\ h = [q \in D |-> h[q]]
  BY <1>1, <1>2, <1>4
<1> HIDE DEF D
<1>7. f = h
  BY <1>5, <1>6, SameFunction
<1> QED
  BY <1>7 DEF f, h

\* A map gains a sample of the block p, as Allocate of LiveMap says.
Gains(kept, after, p) ==
    /\ Cardinality(DOMAIN kept) < LiveCapacity
    /\ DOMAIN after = DOMAIN kept \cup {p}
    /\ after[p] \in SampleSet
    /\ \A q \in DOMAIN kept \ {p} : after[q] = kept[q]

LEMMA LiveAdds ==
    ASSUME bucketOf \in [Pointers -> Buckets], NEW prof, NEW lost, Good(prof, bucketOf, lost),
           NEW p, \A i \in HeldIn(prof) : prof.entries[i].pointer # p,
           NEW r, NEW sat, Good(r, bucketOf, sat), MapAdds(prof, r, p)
    PROVE  Gains(LiveOf(prof), LiveOf(r), p)
<1> DEFINE f == LiveOf(r)
           h == LiveOf(prof)
           D == DOMAIN h
<1>1. /\ DOMAIN h = {prof.entries[i].pointer : i \in HeldIn(prof)}
      /\ \A i \in HeldIn(prof) : h[prof.entries[i].pointer] = SampleOf(prof.entries[i])
  BY LiveIs
<1>2. /\ DOMAIN f = {r.entries[i].pointer : i \in HeldIn(r)}
      /\ \A i \in HeldIn(r) : f[r.entries[i].pointer] = SampleOf(r.entries[i])
      /\ \A i \in HeldIn(r) : SampleOf(r.entries[i]) \in SampleSet
  BY LiveIs
<1> HIDE DEF f, h
<1>3. PICK i \in Entries \ HeldIn(prof) :
        /\ HeldIn(r) = HeldIn(prof) \cup {i} /\ r.entries[i].pointer = p
        /\ \A j \in HeldIn(prof) : SameEntry(r.entries[j], prof.entries[j])
  BY DEF MapAdds
<1>4. \A j \in HeldIn(prof) : /\ r.entries[j].pointer = prof.entries[j].pointer
                              /\ SampleOf(r.entries[j]) = SampleOf(prof.entries[j])
  BY <1>3 DEF SameEntry, SampleOf
<1>5. DOMAIN f = D \cup {p}
  BY <1>1, <1>2, <1>3, <1>4
<1>6. f[p] \in SampleSet
  BY <1>2, <1>3
<1>7. ASSUME NEW q \in D \ {p} PROVE f[q] = h[q]
  <2>1. PICK j \in HeldIn(prof) : prof.entries[j].pointer = q
    BY <1>1
  <2> QED
    BY <1>1, <1>2, <1>3, <1>4, <2>1
<1>8. Cardinality(D) < LiveCapacity
  <2> DEFINE E == Entries \ {i}
             g == [q \in D |-> CHOOSE j \in HeldIn(prof) : prof.entries[j].pointer = q]
  <2>1. IsFiniteSet(Entries) /\ Cardinality(Entries) = LiveCapacity /\ LiveCapacity \in Nat
    BY Arithmetic, FS_Interval DEF Entries
  <2>2. IsFiniteSet(E) /\ Cardinality(E) = LiveCapacity - 1
    BY <2>1, FS_RemoveElement
  <2>3. \A q \in D : g[q] \in HeldIn(prof) /\ prof.entries[g[q]].pointer = q
    BY <1>1
  <2>4. HeldIn(prof) \subseteq E
    BY <1>3 DEF HeldIn
  <2>5. g \in [D -> E]
    BY <2>3, <2>4
  <2> HIDE DEF g, E
  <2>6. g \in Injection(D, E)
    BY <2>3, <2>5 DEF Injection, IsInjective
  <2>7. IsFiniteSet(D) /\ Cardinality(D) <= Cardinality(E)
    BY <2>2, <2>6, FS_Injection
  <2>8. Cardinality(D) \in Nat
    BY <2>7, FS_CardinalityType
  <2> QED
    BY <2>1, <2>2, <2>7, <2>8
<1> QED
  BY <1>5, <1>6, <1>7, <1>8 DEF f, h, Gains

\* A callback takes the old block from the map and may add the new one.
LEMMA CallbackLive ==
    ASSUME Inv, NEW p \in Pointers, NEW old \in Pointers \cup {NoPointer}, Callback(old, p),
           p = old \/ p \notin heap
    PROVE  LET before == LiveOf(profile)
               kept == Lacking(before, old)
               after == LiveOf(profile')
           IN  after = kept \/ Gains(kept, after, p)
<1> DEFINE r == Reconciled(old)
           before == LiveOf(profile)
           kept == Lacking(before, old)
           after == LiveOf(profile')
<1>1. /\ bucketOf \in [Pointers -> Buckets] /\ Good(profile, bucketOf, saturated)
      /\ saturated \in BOOLEAN /\ Allocated
  BY DEF Inv
<1>2. Good(r, bucketOf, saturated) /\ MapLacks(profile, r, old)
  BY ReconciledIs
<1> HIDE DEF r
<1>3. LiveOf(r) = kept
  BY <1>1, <1>2, LiveLacks
<1>4. \A i \in HeldIn(r) : r.entries[i].pointer # p
  BY <1>1, <1>2 DEF MapLacks, SameEntry, Allocated
<1>5. ASSUME NEW stack \in Stacks, NEW w \in Weights, profile' = Record(r, p, stack, w)
      PROVE  after = kept \/ Gains(kept, after, p)
  <2> DEFINE sat == saturated \/ r.alloc + w > MaxWord
  <2>1. Sampled(r, profile', p, stack, w, sat)
    BY <1>1, <1>2, <1>4, <1>5, RecordIs
  <2>2. Good(profile', bucketOf, sat) /\ (MapSame(r, profile') \/ MapAdds(r, profile', p))
    BY <2>1 DEF Sampled
  <2> HIDE DEF sat, kept, after
  <2>3. CASE MapSame(r, profile')
    <3>1. LiveOf(profile') = LiveOf(r)
      BY <1>1, <1>2, <2>2, <2>3, LiveSame
    <3> QED
      BY <1>3, <3>1 DEF after
  <2>4. CASE MapAdds(r, profile', p)
    <3>1. PICK n : n = profile'
      OBVIOUS
    <3>2. Good(n, bucketOf, sat) /\ MapAdds(r, n, p)
      BY <2>2, <2>4, <3>1
    <3>3. Gains(LiveOf(r), LiveOf(n), p)
      BY <1>1, <1>2, <1>4, <3>2, LiveAdds
    <3> QED
      BY <1>3, <3>1, <3>3 DEF after
  <2> QED
    BY <2>2, <2>3, <2>4
<1> HIDE DEF kept, after
<1>6. after = kept \/ Gains(kept, after, p)
  <2>1. \/ profile' = r
        \/ \E stack \in Stacks, w \in Weights : profile' = Record(r, p, stack, w)
    BY DEF Callback, r
  <2>2. ASSUME profile' = r PROVE after = kept
    BY <1>3, <2>2 DEF after
  <2> QED
    BY <1>5, <2>1, <2>2
<1> QED
  BY <1>6 DEF kept, after

LEMMA LiveEmpty ==
    ASSUME bucketOf \in [Pointers -> Buckets], NEW prof, NEW lost, Good(prof, bucketOf, lost),
           HeldIn(prof) = {}
    PROVE  LiveOf(prof) = [q \in {} |-> {}]
<1> DEFINE f == LiveOf(prof)
           g == [q \in {} |-> {}]
           D == DOMAIN f
<1>1. D = {} /\ f = [q \in D |-> f[q]]
  BY LiveIs
<1>2. g = [q \in D |-> g[q]]
  BY <1>1
<1> HIDE DEF f, g, D
<1>3. f = g
  BY <1>1, <1>2, SameFunction
<1> QED
  BY <1>3 DEF f, g

\* The variable live of LiveMap.
live == LiveOf(profile)

LEMMA LiveInit == Init => Live!Init
<1> SUFFICES ASSUME Init PROVE Live!Init
  OBVIOUS
<1>1. Inv /\ heap = {} /\ profile = NewProfile(FALSE)
  BY InvInit DEF Init
<1>2. live = [q \in {} |-> {}]
  BY <1>1, NewGood, LiveEmpty DEF Inv, live
<1> QED
  BY <1>1, <1>2 DEF Live!Init, live, LiveOf, LiveSample, SampleOf

LEMMA LiveStep == Inv /\ [Next]_vars => [Live!Next]_(Live!vars)
<1> SUFFICES ASSUME Inv, [Next]_vars PROVE [Live!Next]_(Live!vars)
  OBVIOUS
<1> DEFINE old == LiveOf(profile)
           new == LiveOf(profile')
<1>1. bucketOf' = bucketOf
  BY DEF Next, vars, Allocate, Reallocate, Free, BeginWork, EndWork, Start, Stop
<1>2. /\ old = [p \in {q \in Pointers : Find(profile, q) # NoEntry} |-> LiveSample(p)]
      /\ new = [p \in {q \in Pointers : Find(profile, q) # NoEntry} |-> LiveSample(p)]'
  BY <1>1 DEF LiveOf, LiveSample, SampleOf, Find, BucketChain
<1>3. \A S : Live!Cardinality(S) = Cardinality(S)
  BY DEF Live!Cardinality, Cardinality
<1> HIDE DEF old, new
<1>4. ASSUME NEW p \in Pointers, Allocate(p) PROVE Live!Next
  <2>1. PICK kept : kept = Lacking(old, NoPointer)
    OBVIOUS
  <2>2. Callback(NoPointer, p) /\ p \notin heap /\ heap' = heap \cup {p}
    BY <1>4 DEF Allocate
  <2>3. new = kept \/ Gains(kept, new, p)
    BY <2>1, <2>2, CallbackLive DEF old, new
  <2>4. kept = old
    <3>1. \A q \in DOMAIN old : q \in Pointers
      BY <1>2
    <3>2. DOMAIN old \ {NoPointer} = DOMAIN old
      BY <3>1, PointersAssumption
    <3>3. old = [q \in DOMAIN old |-> old[q]]
      BY DEF old, LiveOf
    <3> QED
      BY <2>1, <3>2, <3>3 DEF Lacking
  <2>5. Live!Allocate(p, old)
    BY <1>2, <1>3, <2>3, <2>4 DEF Live!Allocate, Gains, SampleSet
  <2>6. Live!New(p)
    BY <1>2, <2>2, <2>5 DEF Live!New
  <2> QED
    BY <2>6 DEF Live!Next
<1>5. ASSUME NEW p \in Pointers, Free(p) PROVE Live!Next
  <2>1. profile' = Reconciled(p) /\ p \in heap /\ heap' = heap \ {p}
    BY <1>5 DEF Free
  <2>2. new = [q \in DOMAIN old \ {p} |-> old[q]]
    <3>1. PICK r : r = Reconciled(p)
      OBVIOUS
    <3>2. Good(r, bucketOf, saturated) /\ MapLacks(profile, r, p)
      BY <3>1, ReconciledIs
    <3>3. bucketOf \in [Pointers -> Buckets] /\ Good(profile, bucketOf, saturated)
      BY DEF Inv
    <3>4. LiveOf(r) = Lacking(LiveOf(profile), p)
      BY <3>2, <3>3, LiveLacks
    <3> QED
      BY <2>1, <3>1, <3>4 DEF old, new, Lacking
  <2>3. Live!Free(p)
    BY <1>2, <2>1, <2>2 DEF Live!Free, Live!Without
  <2> QED
    BY <2>3 DEF Live!Next
<1>6. ASSUME NEW p \in Pointers, NEW o \in Pointers, Reallocate(o, p) PROVE Live!Next
  <2>1. PICK kept : kept = Lacking(old, o)
    OBVIOUS
  <2>2. Callback(o, p) /\ o \in heap /\ (p = o \/ p \notin heap) /\ heap' = (heap \ {o}) \cup {p}
    BY <1>6 DEF Reallocate
  <2>3. new = kept \/ Gains(kept, new, p)
    BY <2>1, <2>2, CallbackLive DEF old, new
  <2>4. Live!Without(o) = kept
    BY <1>2, <2>1 DEF Live!Without, Lacking
  <2>5. Live!Allocate(p, kept)
    BY <1>2, <1>3, <2>3 DEF Live!Allocate, Gains, SampleSet
  <2>6. Live!Move(o, p)
    BY <2>2, <2>4, <2>5 DEF Live!Move
  <2> QED
    BY <2>6 DEF Live!Next
<1>7. ASSUME BeginWork \/ EndWork \/ UNCHANGED vars PROVE UNCHANGED Live!vars
  <2>1. heap' = heap /\ profile' = profile
    BY <1>7 DEF BeginWork, EndWork, vars
  <2> QED
    BY <1>2, <2>1 DEF Live!vars, old, new
<1>8. ASSUME Start \/ Stop PROVE Live!Next
  <2>1. Inv'
    BY InvNext
  <2>2. heap' = heap /\ HeldIn(profile') = {}
    <3>1. CASE Start
      BY <3>1, NewGood DEF Start
    <3>2. CASE Stop
      BY <3>2, FinishGood DEF Stop, Inv
    <3> QED
      BY <1>8, <3>1, <3>2 DEF Start, Stop
  <2>3. PICK n : n = profile'
    OBVIOUS
  <2>4. PICK sat : sat = saturated'
    OBVIOUS
  <2>5. bucketOf \in [Pointers -> Buckets] /\ Good(n, bucketOf, sat) /\ HeldIn(n) = {}
    BY <1>1, <2>1, <2>2, <2>3, <2>4 DEF Inv
  <2>6. LiveOf(n) = [q \in {} |-> {}]
    BY <2>5, LiveEmpty
  <2>7. Live!Clear
    BY <1>2, <2>2, <2>3, <2>6 DEF Live!Clear, new
  <2> QED
    BY <2>7 DEF Live!Next
<1> QED
  BY <1>4, <1>5, <1>6, <1>7, <1>8 DEF Next

\* The live table of src/memory_core.c is a map from blocks to samples: what it does
\* to its entries, its chains and its free list is what LiveMap does to the map.
THEOREM TableIsMap == Spec => LiveMapSpec
<1>1. Inv /\ [Next]_vars => [Live!Next]_(Live!vars)
  BY LiveStep
<1>2. Init => Live!Init
  BY LiveInit
<1>3. Spec => Live!Spec
  BY <1>1, <1>2, Invariance, PTL DEF Spec, Live!Spec
<1> QED
  BY <1>3 DEF LiveMapSpec

\* Nothing is reported in use that the VM has freed or moved away from its address.
THEOREM InUseIsAllocated == Spec => []Live!LiveIsAllocated
<1>1. Inv => Live!LiveIsAllocated
  <2> SUFFICES ASSUME Inv PROVE Live!LiveIsAllocated
    OBVIOUS
  <2>1. DOMAIN live = {profile.entries[i].pointer : i \in HeldIn(profile)}
    BY LiveIs DEF Inv, live
  <2>2. \A i \in HeldIn(profile) : profile.entries[i].pointer \in heap
    BY DEF Inv, Allocated
  <2>3. live = [p \in {q \in Pointers : Find(profile, q) # NoEntry} |-> LiveSample(p)]
    BY DEF live, LiveOf, LiveSample, SampleOf
  <2> QED
    BY <2>1, <2>2, <2>3 DEF Live!LiveIsAllocated
<1> QED
  BY <1>1, Invariance, PTL
==============================================================================
