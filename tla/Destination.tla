----------------------------- MODULE Destination -----------------------------
(***************************************************************************)
(* What docs/profiling-model.md promises of result:write, and no more: a   *)
(* destination changes from one whole file to another in one step, a call  *)
(* that fails leaves it alone, and the new file takes the permissions of   *)
(* the regular file that the call found there.  Several calls and other    *)
(* programs use the same destination; a process may die in any call.       *)
(*                                                                         *)
(* ReportFile, the protocol of src/src/pprof_exporter.c, implements it.    *)
(***************************************************************************)
CONSTANTS
    Writers,        \* the calls of result:write; each writes a report of its own
    NoReport,       \* a file that is none of the reports
    Modes,          \* permission bits
    PrivateMode,    \* 0600
    Foreign         \* files that other programs put at the destination: [kind, mode]

Absent == [kind |-> "absent", mode |-> PrivateMode, report |-> NoReport]
Other(f) == [kind |-> f.kind, mode |-> f.mode, report |-> NoReport]
Report(w, mode) == [kind |-> "regular", mode |-> mode, report |-> w]

VARIABLES
    destination,    \* what is at the path
    phase,          \* of each call
    found           \* what each call found at the path, while it runs

vars == <<destination, phase, found>>

Phases == {"idle", "running", "inspected", "replaced", "succeeded", "failing", "failed",
           "crashed"}

\* The permissions of a file that takes the place of d.
ModeFor(d) == IF d.kind = "regular" THEN d.mode ELSE PrivateMode
Replaceable(d) == d.kind # "other"

Init ==
    /\ destination \in {Absent} \cup {Other(f) : f \in Foreign}
    /\ phase = [w \in Writers |-> "idle"]
    /\ found = [w \in Writers |-> [kind |-> "absent", mode |-> PrivateMode]]

Move(w, from, to) == phase[w] \in from /\ phase' = [phase EXCEPT ![w] = to]

Call(w) == Move(w, {"idle"}, "running") /\ UNCHANGED <<destination, found>>

Inspect(w) ==
    /\ Replaceable(destination)
    /\ Move(w, {"running"}, "inspected")
    /\ found' = [found EXCEPT ![w] =
            [kind |-> destination.kind, mode |-> destination.mode]]
    /\ UNCHANGED destination

Replace(w) ==
    /\ Move(w, {"inspected"}, "replaced")
    /\ destination' = Report(w, ModeFor(found[w]))
    /\ UNCHANGED found

Succeed(w) == Move(w, {"replaced"}, "succeeded") /\ UNCHANGED <<destination, found>>

\* A call that gives up says so, unless its process dies first.
GiveUp(w) ==
    /\ Move(w, {"running", "inspected"}, "failing")
    /\ UNCHANGED <<destination, found>>
Fail(w) ==
    /\ Move(w, {"idle", "running", "failing"}, "failed")
    /\ UNCHANGED <<destination, found>>
Crash(w) ==
    /\ Move(w, {"running", "inspected", "replaced", "failing"}, "crashed")
    /\ UNCHANGED <<destination, found>>

\* Another program removes or replaces what is there, or changes a report's mode.
Interfere ==
    /\ \/ destination' \in {Absent} \cup {Other(f) : f \in Foreign}
       \/ \E m \in Modes : destination.report # NoReport
                            /\ destination' = Report(destination.report, m)
    /\ UNCHANGED <<phase, found>>

Next ==
    \/ \E w \in Writers : Call(w) \/ Inspect(w) \/ Replace(w) \/ Succeed(w)
                              \/ GiveUp(w) \/ Fail(w) \/ Crash(w)
    \/ Interfere

Spec == Init /\ [][Next]_vars
==============================================================================
