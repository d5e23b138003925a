----------------------------- MODULE ReportFile ------------------------------
(***************************************************************************)
(* How a report reaches its file (lp_export_result_with_symbols and the    *)
(* functions it calls in src/src/pprof_exporter.c): the report is built in *)
(* memory, written to a temporary file next to the destination, closed,    *)
(* and renamed over it.                                                    *)
(*                                                                         *)
(* Each writer is one call for one destination; the calls belong to VMs    *)
(* on several threads or in several processes.  Any allocation or system   *)
(* call may fail, except that removing a name that is there succeeds; a    *)
(* process may die between any two system calls; and other programs may    *)
(* replace, remove or chmod the destination at any time, but leave the     *)
(* temporary names alone.                                                  *)
(*                                                                         *)
(* The two formats differ in their streams (gzip or stdio), which both     *)
(* keep written data back until they are closed.  What a report says is    *)
(* not modelled here: it has Size parts, and is whole when all are there.  *)
(***************************************************************************)
EXTENDS Naturals

CONSTANTS
    Writers,        \* calls of result:write
    Path,           \* the destination
    TemporaryNames, \* the names that mkstemp may choose
    Nothing,        \* no file has the name
    NoName,         \* a NULL candidate
    Modes,          \* permission bits
    PrivateMode,    \* 0600, the mode of a file that mkstemp creates
    Foreign,        \* files of other programs: [kind, mode]
    Size,           \* parts of a report
    MaxChanges      \* bound: what other programs do to the destination

ASSUME NamesAssumption == Path \notin TemporaryNames /\ NoName \notin TemporaryNames
ASSUME FilesAssumption == Nothing \notin Writers \cup Foreign /\ Writers \cap Foreign = {}
ASSUME ModesAssumption ==
    PrivateMode \in Modes /\ Foreign \subseteq [kind: {"regular", "symlink", "other"},
                                                mode: Modes]
ASSUME SizeAssumption == Size \in Nat

Names == TemporaryNames \cup {Path}

VARIABLES
    directory,  \* the file that each name has: a writer's report, or a foreign one
    file,       \* the file that each call has created
    pc,         \* what each call does next
    name,       \* temporary_path of each call
    found,      \* history: what lstat told each call
    changes     \* what other programs have done

vars == <<directory, file, pc, name, found, changes>>

\* What lstat says of a directory entry.
Stat(entry) ==
    IF entry = Nothing THEN [kind |-> "absent", mode |-> PrivateMode]
    ELSE IF entry \in Writers THEN [kind |-> "regular", mode |-> file[entry].mode]
    ELSE entry

NewFile == [given |-> 0, written |-> 0, failed |-> FALSE, open |-> FALSE,
            mode |-> PrivateMode]

Init ==
    /\ directory \in {[n \in Names |-> IF n = Path THEN f ELSE Nothing] :
                            f \in Foreign \cup {Nothing}}
    /\ file = [w \in Writers |-> NewFile]
    /\ pc = [w \in Writers |-> "idle"]
    /\ name = [w \in Writers |-> NoName]
    /\ found = [w \in Writers |-> [kind |-> "absent", mode |-> PrivateMode]]
    /\ changes = 0

Goto(w, from, to) == pc[w] = from /\ pc' = [pc EXCEPT ![w] = to]

------------------------------------------------------------------------------
(* lp_export_result_with_symbols, up to the temporary file. *)

\* A result that was disposed, or a report that cannot be built or encoded, ends the
\* call before it touches the directory.
Call(w) ==
    /\ Goto(w, "idle", "open") \/ Goto(w, "idle", "failed")
    /\ UNCHANGED <<directory, file, name, found, changes>>

\* malloc or mkstemp fails.
OpenFails(w) ==
    /\ Goto(w, "open", "failed")
    /\ UNCHANGED <<directory, file, name, found, changes>>

\* mkstemp creates a file with a name that nobody has.
Open(w, n) ==
    /\ directory[n] = Nothing
    /\ Goto(w, "open", "inspect")
    /\ name' = [name EXCEPT ![w] = n]
    /\ directory' = [directory EXCEPT ![n] = w]
    /\ file' = [file EXCEPT ![w].open = TRUE]
    /\ UNCHANGED <<found, changes>>

\* lstat: an entry that is neither a file nor a symlink is refused; the mode of a
\* regular file is taken over next.  lstat itself may fail, too.
Inspect(w) ==
    /\ LET stat == Stat(directory[Path])
       IN  \/ Goto(w, "inspect", "abandon") /\ UNCHANGED found
           \/ /\ stat.kind # "other"
              /\ Goto(w, "inspect", IF stat.kind = "regular" THEN "chmod" ELSE "stream")
              /\ found' = [found EXCEPT ![w] = stat]
    /\ UNCHANGED <<directory, file, name, changes>>

\* Mutant: the mode of the old file is forgotten.
mutant_private(w) ==
    /\ Goto(w, "chmod", "stream")
    /\ UNCHANGED <<directory, file, name, found, changes>>

\* fchmod to what lstat said.
Chmod(w) ==
    /\ \/ /\ Goto(w, "chmod", "stream")
          /\ file' = [file EXCEPT ![w].mode = found[w].mode]
       \/ Goto(w, "chmod", "abandon") /\ UNCHANGED file
    /\ UNCHANGED <<directory, name, found, changes>>

\* The error paths of open_temporary_file, and of a stream that cannot be made:
\* the descriptor is closed, then the name is removed.
Abandon(w) ==
    /\ Goto(w, "abandon", "discard")
    /\ file' = [file EXCEPT ![w].open = FALSE]
    /\ UNCHANGED <<directory, name, found, changes>>

------------------------------------------------------------------------------
(* write_gzip and write_folded. *)

\* gzdopen, fdopen
OpenStream(w) ==
    /\ Goto(w, "stream", "write") \/ Goto(w, "stream", "abandon")
    /\ UNCHANGED <<directory, file, name, found, changes>>

\* One part is given to the stream, which writes any number of the parts it has.
Write(w) ==
    /\ pc[w] = "write" /\ file[w].given < Size /\ ~file[w].failed
    /\ \E k \in file[w].written .. file[w].given + 1 :
        file' = [file EXCEPT ![w].given = @ + 1, ![w].written = k]
    /\ UNCHANGED <<directory, pc, name, found, changes>>

\* gzwrite fails, or ferror reports at the end that something did.
WriteFails(w) ==
    /\ pc[w] = "write" /\ file[w].given < Size /\ ~file[w].failed
    /\ file' = [file EXCEPT ![w].failed = TRUE]
    /\ UNCHANGED <<directory, pc, name, found, changes>>

\* Mutant: whether the last parts could be written is not asked.
mutant_unchecked_close(w) ==
    /\ pc[w] = "write" /\ (file[w].given = Size \/ file[w].failed)
    /\ Goto(w, "write", IF file[w].failed THEN "discard" ELSE "commit")
    /\ \E k \in file[w].written .. file[w].given :
        file' = [file EXCEPT ![w].open = FALSE, ![w].written = k]
    /\ UNCHANGED <<directory, name, found, changes>>

\* gzclose and fclose write what is left and close the descriptor in any case.
Close(w) ==
    /\ pc[w] = "write" /\ (file[w].given = Size \/ file[w].failed)
    /\ \/ /\ Goto(w, "write", IF file[w].failed THEN "discard" ELSE "commit")
          /\ file' = [file EXCEPT ![w].open = FALSE, ![w].written = file[w].given]
       \/ /\ Goto(w, "write", "discard")
          /\ \E k \in file[w].written .. file[w].given :
                file' = [file EXCEPT ![w].open = FALSE, ![w].written = k]
    /\ UNCHANGED <<directory, name, found, changes>>

------------------------------------------------------------------------------
(* commit_temporary_file and discard_temporary_file. *)

Commit(w) ==
    /\ Goto(w, "commit", "return")
    /\ directory' = [directory EXCEPT ![Path] = w, ![name[w]] = Nothing]
    /\ name' = [name EXCEPT ![w] = NoName]
    /\ UNCHANGED <<file, found, changes>>

\* Mutant of RenameFails: the temporary file is left where it is.
mutant_kept(w) ==
    /\ Goto(w, "commit", "failed")
    /\ name' = [name EXCEPT ![w] = NoName]
    /\ UNCHANGED <<directory, file, found, changes>>

RenameFails(w) ==
    /\ Goto(w, "commit", "discard")
    /\ UNCHANGED <<directory, file, name, found, changes>>

Discard(w) ==
    /\ Goto(w, "discard", "failed")
    /\ directory' = [directory EXCEPT ![name[w]] = Nothing]
    /\ name' = [name EXCEPT ![w] = NoName]
    /\ UNCHANGED <<file, found, changes>>

Return(w) ==
    /\ Goto(w, "return", "succeeded")
    /\ UNCHANGED <<directory, file, name, found, changes>>

------------------------------------------------------------------------------
(* The system (external). *)

Running(w) == pc[w] \notin {"idle", "succeeded", "failed", "crashed"}

\* The writer's process dies; the system closes its descriptor.
Crash(w) ==
    /\ Running(w)
    /\ pc' = [pc EXCEPT ![w] = "crashed"]
    /\ file' = [file EXCEPT ![w].open = FALSE]
    /\ UNCHANGED <<directory, name, found, changes>>

\* Another program puts something else at the destination, or removes what is there.
Exchange ==
    /\ changes < MaxChanges /\ changes' = changes + 1
    /\ \E f \in Foreign \cup {Nothing} : directory' = [directory EXCEPT ![Path] = f]
    /\ UNCHANGED <<file, pc, name, found>>

\* Somebody changes the permissions of a report.
ChangeMode ==
    /\ changes < MaxChanges /\ changes' = changes + 1
    /\ directory[Path] \in Writers
    /\ \E m \in Modes : file' = [file EXCEPT ![directory[Path]].mode = m]
    /\ UNCHANGED <<directory, pc, name, found>>

Next ==
    \/ \E w \in Writers :
        \/ Call(w) \/ OpenFails(w) \/ Inspect(w) \/ Chmod(w) \/ Abandon(w)
        \/ OpenStream(w) \/ Write(w) \/ WriteFails(w) \/ Close(w)
        \/ Commit(w) \/ RenameFails(w) \/ Discard(w) \/ Return(w) \/ Crash(w)
        \/ \E n \in TemporaryNames : Open(w, n)
    \/ Exchange \/ ChangeMode

Spec == Init /\ [][Next]_vars

------------------------------------------------------------------------------
(* Properties. *)

\* Every variable keeps the type its declaration states.
TypeOK ==
    /\ directory \in [Names -> Writers \cup Foreign \cup {Nothing}]
    /\ file \in [Writers -> [given: 0 .. Size, written: 0 .. Size, failed: BOOLEAN,
                             open: BOOLEAN, mode: Modes]]
    /\ pc \in [Writers -> {"idle", "open", "inspect", "chmod", "abandon", "stream",
                           "write", "commit", "discard", "return", "succeeded",
                           "failed", "crashed"}]
    /\ name \in [Writers -> TemporaryNames \cup {NoName}]
    /\ found \in [Writers -> [kind: {"absent", "regular", "symlink"}, mode: Modes]]
    /\ changes \in Nat

\* Whoever opens the destination finds a whole report, whichever calls run, have
\* failed or died: what is written to a stream may stay there until it is closed.
WholeReports ==
    \A w \in Writers : directory[Path] = w =>
        file[w].written = Size /\ ~file[w].open /\ ~file[w].failed

\* A temporary name belongs to a call that still runs or whose process died; no two
\* calls share one, and a call that returned has neither a name nor a descriptor.
NothingLeft ==
    /\ \A n \in TemporaryNames : directory[n] # Nothing =>
            \E w \in Writers : /\ directory[n] = w /\ name[w] = n
                               /\ Running(w) \/ pc[w] = "crashed"
    /\ \A w \in Writers : ~Running(w) => ~file[w].open
    /\ \A w \in Writers : pc[w] \in {"succeeded", "failed"} => name[w] = NoName

\* For every reader of the destination the call is one step: ReportFile implements
\* Destination.
Phase(w) ==
    CASE pc[w] \in {"idle", "succeeded", "failed", "crashed"} -> pc[w]
      [] pc[w] \in {"chmod", "stream", "write", "commit"} -> "inspected"
      [] pc[w] = "return" -> "replaced"
      [] pc[w] \in {"open", "inspect"} -> "running"
      [] pc[w] \in {"abandon", "discard"} -> "failing"
ShownDestination ==
    LET entry == directory[Path]
    IN  [kind |-> Stat(entry).kind, mode |-> Stat(entry).mode,
         report |-> IF entry \in Writers /\ file[entry].written = Size
                    THEN entry ELSE Nothing]
Atomic == INSTANCE Destination WITH
    NoReport <- Nothing,
    destination <- ShownDestination,
    phase <- [w \in Writers |-> Phase(w)]
DestinationSpec == Atomic!Spec
==============================================================================
