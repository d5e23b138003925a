--------------------------- MODULE MCMemoryProfile ---------------------------
(* MemoryProfile for TLC: addresses and buckets are interchangeable. *)
EXTENDS MemoryProfile, TLC

CONSTANTS f, g

Symmetric == Permutations(Pointers) \cup Permutations(Buckets)
MCSymbols == {f, g}
MCStacks == {<<f>>, <<g>>, <<f, g>>}

\* Samples of one stack have either weight, those of the others are light.
FewHeavy == \A i \in Entries :
    profile.entries[i].weight > 1 => profile.entries[i].stack = <<f>>

\* A stack whose samples are all dropped is sampled once.
FewDropped == \A s \in DOMAIN sampled :
    sampled[s] > 1 => Compact(profile, s) \in DOMAIN profile.aggregates
==============================================================================
