---------------------------- MODULE MCThreadTimer ----------------------------
(* ThreadTimer for TLC: threads, timers and slots are interchangeable. *)
EXTENDS ThreadTimer, TLC

Symmetric == Permutations(Threads) \cup Permutations(Timers)
                \cup Permutations(Slots)

\* Two arms, or two expirations of one arm.
FewAtOnce == arms + ticks <= 3
==============================================================================
