---------------------------- MODULE ProfileSession ----------------------------
(***************************************************************************)
(* What a scheduler backend promises to the recorders of the services:     *)
(* an abstract specification that SkynetHost implements.                   *)
(*                                                                         *)
(* A slot serves one session of one service at a time.  Samples enter the  *)
(* session's inbox only while the service that owns it is running and the  *)
(* session is open or closing; once it is closed the inbox only empties;   *)
(* and the slot is given back with an empty inbox, so that a session never *)
(* sees a sample of another one and loses none of its own.                 *)
(***************************************************************************)
EXTENDS Naturals, Sequences

CONSTANTS
    Slots,      \* the places for sessions
    Services,   \* who may own one
    NoService,
    Capacity    \* samples an inbox holds

VARIABLES
    phase,      \* phase[s]: "none", "open", "closing", "closed"
    owner,      \* owner[s]: the service of the session in slot s
    running,    \* the services being dispatched
    inbox       \* inbox[s]: the samples not consumed yet, by service

vars == <<phase, owner, running, inbox>>

Init ==
    /\ phase = [s \in Slots |-> "none"]
    /\ owner = [s \in Slots |-> NoService]
    /\ running = {}
    /\ inbox = [s \in Slots |-> <<>>]

\* The scheduler enters and leaves services as it likes.
Schedule ==
    /\ running' \in SUBSET Services
    /\ UNCHANGED <<phase, owner, inbox>>

\* A running service that has no session opens one.
Open(s, h) ==
    /\ phase[s] = "none" /\ inbox[s] = <<>>
    /\ h \in running
    /\ \A r \in Slots : owner[r] # h
    /\ phase' = [phase EXCEPT ![s] = "open"]
    /\ owner' = [owner EXCEPT ![s] = h]
    /\ UNCHANGED <<running, inbox>>

Record(s) ==
    /\ phase[s] \in {"open", "closing"}
    /\ owner[s] \in running
    /\ Len(inbox[s]) < Capacity
    /\ inbox' = [inbox EXCEPT ![s] = Append(@, owner[s])]
    /\ UNCHANGED <<phase, owner, running>>

Consume(s) ==
    /\ inbox[s] # <<>>
    /\ inbox' = [inbox EXCEPT ![s] = Tail(@)]
    /\ UNCHANGED <<phase, owner, running>>

\* Stopping; an open session that is closed at once never got a sample.
Close(s) ==
    /\ \/ phase[s] = "open" /\ phase' = [phase EXCEPT ![s] = "closing"]
       \/ phase[s] = "open" /\ inbox[s] = <<>> /\ phase' = [phase EXCEPT ![s] = "closed"]
       \/ phase[s] = "closing" /\ phase' = [phase EXCEPT ![s] = "closed"]
    /\ UNCHANGED <<owner, running, inbox>>

GiveBack(s) ==
    /\ phase[s] = "closed" /\ inbox[s] = <<>>
    /\ phase' = [phase EXCEPT ![s] = "none"]
    /\ owner' = [owner EXCEPT ![s] = NoService]
    /\ UNCHANGED <<running, inbox>>

Next ==
    \/ Schedule
    \/ \E s \in Slots :
          \/ \E h \in Services : Open(s, h)
          \/ Record(s) \/ Consume(s) \/ Close(s) \/ GiveBack(s)

Spec == Init /\ [][Next]_vars
=============================================================================
