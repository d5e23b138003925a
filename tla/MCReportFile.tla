---------------------------- MODULE MCReportFile -----------------------------
(* ReportFile for TLC: calls and names are interchangeable. *)
EXTENDS ReportFile, TLC

Symmetric == Permutations(Writers) \cup Permutations(TemporaryNames)
MCForeign == {[kind |-> "regular", mode |-> 2], [kind |-> "symlink", mode |-> 2],
              [kind |-> "other", mode |-> 1]}
==============================================================================
