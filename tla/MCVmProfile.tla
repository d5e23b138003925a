----------------------------- MODULE MCVmProfile -----------------------------
(* VmProfile for TLC: the coroutines are interchangeable. *)
EXTENDS VmProfile, TLC

TwoFrames == [L \in States |-> 2]
ThreeOnMain == [L \in States |-> IF L = Main THEN 3 ELSE 2]

Symmetric == Permutations(States \ {Main})

\* Two recordings with one expiration, or one with two.
FewAtOnce == ticks + sessions <= 3

FewFrames == MapThenSumSet(LAMBDA L : Len(frames[L]), States) <= 5
==============================================================================
