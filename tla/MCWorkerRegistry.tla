-------------------------- MODULE MCWorkerRegistry --------------------------
EXTENDS WorkerRegistry, TLC

CONSTANTS w1, w2, w3, owner, t1, t2

MCWorkers == {w1, w2, w3}
MCTargets == {t1, t2}
MCHolders == {owner} \cup MCWorkers

Symmetric == Permutations(MCWorkers) \cup Permutations(MCTargets)
=============================================================================
