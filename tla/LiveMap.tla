------------------------------- MODULE LiveMap -------------------------------
(***************************************************************************)
(* What "in use" means in a memory profile: of the blocks the VM has       *)
(* allocated, some were sampled, each for a stack and with a weight.  A    *)
(* sampled block is in use until it is freed or reallocated; the profile   *)
(* holds at most Capacity of them and loses the samples beyond.  A block's *)
(* address comes back for another block.                                   *)
(***************************************************************************)
EXTENDS Naturals, FiniteSets

CONSTANTS
    Pointers,       \* addresses of blocks
    Samples,        \* what a live block is remembered with
    Capacity        \* blocks the map can hold

VARIABLES
    heap,           \* the blocks the VM has allocated
    live            \* the sampled blocks in use, and the sample of each

vars == <<heap, live>>

Without(p) == [q \in DOMAIN live \ {p} |-> live[q]]

Init == heap \in SUBSET Pointers /\ live = [q \in {} |-> {}]

\* The block p is allocated, in place of the block q if there is one, and may be
\* sampled; a map that is full loses the sample.
Allocate(p, kept) ==
    \/ live' = kept
    \/ /\ Cardinality(DOMAIN kept) < Capacity
       /\ DOMAIN live' = DOMAIN kept \cup {p}
       /\ live'[p] \in Samples
       /\ \A q \in DOMAIN kept \ {p} : live'[q] = kept[q]

New(p) == p \notin heap /\ heap' = heap \cup {p} /\ Allocate(p, live)

Move(q, p) ==
    /\ q \in heap /\ (p = q \/ p \notin heap)
    /\ heap' = (heap \ {q}) \cup {p}
    /\ Allocate(p, Without(q))

Free(p) == p \in heap /\ heap' = heap \ {p} /\ live' = Without(p)

\* A recording starts or ends.
Clear == live' = [q \in {} |-> {}] /\ UNCHANGED heap

Next ==
    \/ \E p \in Pointers : New(p) \/ Free(p) \/ (\E q \in Pointers : Move(q, p))
    \/ Clear

Spec == Init /\ [][Next]_vars

\* Nothing is reported in use that the VM has given back.
LiveIsAllocated == DOMAIN live \subseteq heap
==============================================================================
