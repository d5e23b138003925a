-------------------------- MODULE MCSkynetHost_live --------------------------
(* SkynetHost for TLC's liveness run: one service is recorded, another one  *)
(* makes its worker a reader of the other's session.                        *)
EXTENDS MCSkynetHost

CONSTANTS w1, w2, h1, h2

\* Each service has its worker and only h1 asks for sessions, so that w2 pins its
\* target in scans only: the ticks of w2 would find no slot to pin.  That h1's
\* session may be stopped from w2 stays.
OneRecorded ==
    /\ StartsAndStops
    /\ current_handle[w1] # h2 /\ current_handle[w2] # h1
    /\ ~pending[w2]
    /\ \A w \in Workers : op[w] = "start" => Running(w) = h1
==============================================================================
