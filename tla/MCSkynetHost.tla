---------------------------- MODULE MCSkynetHost ----------------------------
(* SkynetHost for TLC. *)
EXTENDS SkynetHost, TLC

\* Workers and services are interchangeable (safety runs only).
Symmetry == Permutations(Workers) \cup Permutations(Handles)

\* For the runs with two sessions at a time: VMs start, stop and are switched
\* between, but do no other profiler work and publish no state meanwhile.
StartsAndStops ==
    \A w \in Workers : op[w] # "publish" /\ (op[w] = "begin" => loc[w].stop)

\* ... and no tick arrives: for what only the counts and timers decide.
Quiet == StartsAndStops /\ \A w \in Workers : ~pending[w] /\ irq[w].pc = "none"

\* The session with the last token is opened, published and sampled; it is not
\* drained, stopped or published anew, which the sessions before it are.
LastStays == \A w \in Workers : op[w] \in {"begin", "publish"} => loc[w].arg # MaxToken
=============================================================================
