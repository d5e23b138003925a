-------------------------- MODULE ReportFile_proofs --------------------------
(***************************************************************************)
(* Proofs about the way of a report to its file, for any number of calls,  *)
(* names, modes and parts, and for whatever other programs do.             *)
(***************************************************************************)
EXTENDS ReportFile, TLAPS

\* The inductive invariant.  A call owns the name it was given until it renames or
\* removes it, and every temporary name has an owner; so a rename moves the file of
\* the call itself, and no other call's.  That file is closed, and whole unless a
\* write failed, before the call gets there; and it has the mode of what was found.
OwnsName ==
    /\ \A w \in Writers :
        /\ pc[w] \in {"inspect", "chmod", "abandon", "stream", "write", "commit",
                      "discard"} => name[w] # NoName
        /\ pc[w] \in {"idle", "open", "return", "succeeded", "failed"} =>
                name[w] = NoName
        /\ name[w] # NoName => directory[name[w]] = w
    /\ \A n \in TemporaryNames : directory[n] # Nothing =>
            directory[n] \in Writers /\ name[directory[n]] = n

Streams ==
    \A w \in Writers :
        /\ file[w].open <=>
                pc[w] \in {"inspect", "chmod", "abandon", "stream", "write"}
        /\ pc[w] = "commit" => file[w].written = Size /\ ~file[w].failed
        /\ file[w].written <= file[w].given
        /\ directory[Path] = w =>
            /\ pc[w] \in {"return", "succeeded", "crashed"}
            /\ file[w].written = Size /\ ~file[w].failed

ModesKept ==
    \A w \in Writers :
        /\ pc[w] \in {"idle", "open", "inspect", "chmod"} =>
                file[w].mode = PrivateMode
        /\ pc[w] = "chmod" => found[w].kind = "regular"
        /\ pc[w] \in {"stream", "write", "commit"} =>
                file[w].mode = IF found[w].kind = "regular" THEN found[w].mode
                               ELSE PrivateMode

IInv == TypeOK /\ OwnsName /\ Streams /\ ModesKept

USE NamesAssumption, FilesAssumption, ModesAssumption, SizeAssumption

------------------------------------------------------------------------------

LEMMA NoWriterIsForeign == \A w \in Writers : w \notin Foreign /\ w # Nothing
  OBVIOUS

\* Nothing exists before the first call.
LEMMA InitIInv == Init => IInv
<1> SUFFICES ASSUME Init PROVE IInv
  OBVIOUS
<1>1. PICK f \in Foreign \cup {Nothing} :
            directory = [n \in Names |-> IF n = Path THEN f ELSE Nothing]
  BY DEF Init
<1>2. TypeOK
  BY <1>1 DEF Init, TypeOK, NewFile
<1>3. OwnsName
  BY <1>1 DEF Init, OwnsName, Names
<1>4. Streams
  <2>1. \A w \in Writers : directory[Path] # w
    BY <1>1, NoWriterIsForeign DEF Names
  <2>2. \A w \in Writers : pc[w] = "idle" /\ ~file[w].open
                            /\ file[w].written = 0 /\ file[w].given = 0
    BY DEF Init, NewFile
  <2>3. \A w \in Writers : file[w].open <=>
            pc[w] \in {"inspect", "chmod", "abandon", "stream", "write"}
    BY <2>2
  <2>4. \A w \in Writers : pc[w] # "commit"
    BY <2>2
  <2>5. ASSUME NEW w \in Writers PROVE file[w].written <= file[w].given
    <3>1. file[w].written = 0 /\ file[w].given = 0
      BY <2>2
    <3>2. 0 <= 0
      OBVIOUS
    <3> QED
      BY <3>1, <3>2
  <2> QED
    BY <2>1, <2>3, <2>4, <2>5 DEF Streams
<1>5. ModesKept
  BY DEF Init, ModesKept, NewFile
<1> QED
  BY <1>2, <1>3, <1>4, <1>5 DEF IInv

\* What lstat says has the type of found, if it is not refused.
LEMMA StatType ==
    ASSUME TypeOK
    PROVE  /\ Stat(directory[Path]) \in
                [kind: {"absent", "regular", "symlink", "other"}, mode: Modes]
  BY DEF TypeOK, Stat, Names

\* The steps that only move a call on keep the invariant.
LEMMA QuietSteps ==
    ASSUME IInv, NEW w \in Writers,
           Call(w) \/ OpenFails(w) \/ OpenStream(w) \/ RenameFails(w) \/ Return(w)
    PROVE  IInv'
<1>1. TypeOK'
  BY DEF IInv, TypeOK, Call, OpenFails, OpenStream, RenameFails, Return, Goto
<1>2. OwnsName'
  BY DEF IInv, TypeOK, OwnsName, Call, OpenFails, OpenStream, RenameFails, Return, Goto
<1>3. Streams'
  BY DEF IInv, TypeOK, Streams, Call, OpenFails, OpenStream, RenameFails, Return, Goto
<1>4. ModesKept'
  BY DEF IInv, TypeOK, ModesKept, Call, OpenFails, OpenStream, RenameFails, Return, Goto
<1> QED
  BY <1>1, <1>2, <1>3, <1>4 DEF IInv

\* A new temporary file gets a name without an owner.
LEMMA OpenStep ==
    ASSUME IInv, NEW w \in Writers, NEW n \in TemporaryNames, Open(w, n)
    PROVE  IInv'
<1>1. TypeOK'
  BY ZenonT(60) DEF IInv, TypeOK, Open, Goto, Names
<1>2. OwnsName'
  BY DEF IInv, TypeOK, OwnsName, Open, Goto, Names
<1>3. Streams'
  BY DEF IInv, TypeOK, Streams, Open, Goto, Names
<1>4. ModesKept'
  BY DEF IInv, TypeOK, ModesKept, Open, Goto
<1> QED
  BY <1>1, <1>2, <1>3, <1>4 DEF IInv

\* The destination is inspected, and the mode taken over.
LEMMA InspectStep ==
    ASSUME IInv, NEW w \in Writers, Inspect(w)
    PROVE  IInv'
<1> DEFINE stat == Stat(directory[Path])
<1>1. stat \in [kind: {"absent", "regular", "symlink", "other"}, mode: Modes]
  BY StatType DEF IInv
<1> HIDE DEF stat
<1>2. \/ Goto(w, "inspect", "abandon") /\ UNCHANGED found
      \/ /\ stat.kind # "other"
         /\ Goto(w, "inspect", IF stat.kind = "regular" THEN "chmod" ELSE "stream")
         /\ found' = [found EXCEPT ![w] = stat]
  BY DEF Inspect, stat
<1>3. UNCHANGED <<directory, file, name, changes>>
  BY DEF Inspect
<1>4. TypeOK'
  <2>1. stat.kind # "other" => stat \in [kind: {"absent", "regular", "symlink"}, mode: Modes]
    BY <1>1
  <2>2. CASE Goto(w, "inspect", "abandon") /\ UNCHANGED found
    BY <1>3, <2>2 DEF IInv, TypeOK, Goto
  <2>3. CASE /\ stat.kind # "other"
             /\ Goto(w, "inspect", IF stat.kind = "regular" THEN "chmod" ELSE "stream")
             /\ found' = [found EXCEPT ![w] = stat]
    <3>1. pc' = [pc EXCEPT ![w] = "chmod"] \/ pc' = [pc EXCEPT ![w] = "stream"]
      BY <2>3 DEF Goto
    <3> QED
      BY <1>3, <2>1, <2>3, <3>1 DEF IInv, TypeOK
  <2> QED
    BY <1>2, <2>2, <2>3
<1>5. OwnsName'
  BY <1>2, <1>3 DEF IInv, TypeOK, OwnsName, Goto
<1>6. Streams'
  BY <1>2, <1>3 DEF IInv, TypeOK, Streams, Goto
<1>7. ModesKept'
  BY <1>1, <1>2, <1>3 DEF IInv, TypeOK, ModesKept, Goto
<1> QED
  BY <1>4, <1>5, <1>6, <1>7 DEF IInv

LEMMA ChmodStep ==
    ASSUME IInv, NEW w \in Writers, Chmod(w) \/ Abandon(w)
    PROVE  IInv'
<1>1. found[w].mode \in Modes /\ file[w] \in [given: 0 .. Size, written: 0 .. Size,
                            failed: BOOLEAN, open: BOOLEAN, mode: Modes]
  BY DEF IInv, TypeOK
<1>2. CASE Goto(w, "chmod", "stream") /\ file' = [file EXCEPT ![w].mode = found[w].mode]
           /\ UNCHANGED <<directory, name, found, changes>>
  <2>1. TypeOK'
    BY <1>1, <1>2 DEF IInv, TypeOK, Goto
  <2>2. OwnsName'
    BY <1>2 DEF IInv, TypeOK, OwnsName, Goto
  <2>3. Streams'
    BY <1>2 DEF IInv, TypeOK, Streams, Goto
  <2>4. ModesKept'
    BY <1>2 DEF IInv, TypeOK, ModesKept, Goto
  <2> QED
    BY <2>1, <2>2, <2>3, <2>4 DEF IInv
<1>3. CASE Goto(w, "chmod", "abandon") /\ UNCHANGED <<file, directory, name, found, changes>>
  BY <1>3 DEF IInv, TypeOK, OwnsName, Streams, ModesKept, Goto
<1>4. CASE Abandon(w)
  <2>1. TypeOK'
    BY <1>1, <1>4 DEF IInv, TypeOK, Abandon, Goto
  <2>2. OwnsName'
    BY <1>4 DEF IInv, TypeOK, OwnsName, Abandon, Goto
  <2>3. Streams'
    BY <1>4 DEF IInv, TypeOK, Streams, Abandon, Goto
  <2>4. ModesKept'
    BY <1>4 DEF IInv, TypeOK, ModesKept, Abandon, Goto
  <2> QED
    BY <2>1, <2>2, <2>3, <2>4 DEF IInv
<1> QED
  BY <1>2, <1>3, <1>4 DEF Chmod

\* Writing and closing reaches only the file of the call itself.
LEMMA WriteStep ==
    ASSUME IInv, NEW w \in Writers, Write(w) \/ WriteFails(w) \/ Close(w)
    PROVE  IInv'
<1>1. TypeOK'
  <2>1. /\ file[w] \in [given: 0 .. Size, written: 0 .. Size, failed: BOOLEAN,
                        open: BOOLEAN, mode: Modes]
        /\ file \in [Writers -> [given: 0 .. Size, written: 0 .. Size, failed: BOOLEAN,
                        open: BOOLEAN, mode: Modes]]
        /\ file[w].given \in 0 .. Size /\ file[w].written \in 0 .. Size
        /\ file[w].written <= file[w].given
    BY DEF IInv, TypeOK, Streams
  <2>2. CASE Write(w)
    <3>1. PICK k \in file[w].written .. file[w].given + 1 :
            file' = [file EXCEPT ![w] = [file[w] EXCEPT !.given = file[w].given + 1,
                                                        !.written = k]]
      BY <2>2 DEF Write
    <3>a. file[w].given < Size
      BY <2>2 DEF Write
    <3>2. k \in 0 .. Size /\ file[w].given + 1 \in 0 .. Size
      BY <2>1, <3>a
    <3> QED
      BY <2>1, <2>2, <3>1, <3>2 DEF IInv, TypeOK, Write
  <2>3. CASE WriteFails(w)
    BY <2>1, <2>3 DEF IInv, TypeOK, WriteFails
  <2>4. CASE Close(w)
    <3>a. file[w].written .. file[w].given \subseteq 0 .. Size
      BY <2>1
    <3>b. file[w].given \in file[w].written .. file[w].given
      BY <2>1
    <3>c. \E k \in file[w].written .. file[w].given :
            file' = [file EXCEPT ![w] = [file[w] EXCEPT !.open = FALSE, !.written = k]]
      BY ZenonT(60), <2>4, <3>b DEF Close
    <3>1. PICK k \in 0 .. Size :
            file' = [file EXCEPT ![w] = [file[w] EXCEPT !.open = FALSE, !.written = k]]
      BY <3>a, <3>c
    <3>2. pc' = [pc EXCEPT ![w] = "discard"] \/ pc' = [pc EXCEPT ![w] = "commit"]
      BY <2>4 DEF Close, Goto
    <3> QED
      BY <2>1, <2>4, <3>1, <3>2 DEF IInv, TypeOK, Close
  <2> QED
    BY <2>2, <2>3, <2>4
<1>2. OwnsName'
  BY DEF IInv, TypeOK, OwnsName, Write, WriteFails, Close, Goto
<1>3. Streams'
  BY SMTT(30) DEF IInv, TypeOK, Streams, Write, WriteFails, Close, Goto
<1>4. ModesKept'
  BY SMTT(30) DEF IInv, TypeOK, ModesKept, Write, WriteFails, Close, Goto
<1> QED
  BY <1>1, <1>2, <1>3, <1>4 DEF IInv

\* The file is renamed or removed: its name has no owner any more.
LEMMA RenameStep ==
    ASSUME IInv, NEW w \in Writers, Commit(w) \/ Discard(w)
    PROVE  IInv'
<1>1. name[w] \in TemporaryNames /\ directory[name[w]] = w
  BY DEF IInv, TypeOK, OwnsName, Commit, Discard, Goto
<1>a. /\ directory' \in [Names -> Writers \cup Foreign \cup {Nothing}]
      /\ \A n \in TemporaryNames :
            directory'[n] = IF n = name[w] THEN Nothing ELSE directory[n]
  BY <1>1 DEF IInv, TypeOK, Commit, Discard, Names
<1>b. name' = [name EXCEPT ![w] = NoName] /\ UNCHANGED <<file, found, changes>>
  BY DEF Commit, Discard
<1>2. TypeOK'
  BY <1>a, <1>b DEF IInv, TypeOK, Commit, Discard, Goto
<1>3. OwnsName'
  <2>1. \A v \in Writers : name[v] \in TemporaryNames \cup {NoName}
    BY DEF IInv, TypeOK
  <2>2. \A v \in Writers \ {w} : name[v] # NoName => name[v] # name[w]
    BY <1>1 DEF IInv, OwnsName
  <2>3. \A v \in Writers : name'[v] = IF v = w THEN NoName ELSE name[v]
    BY <1>b DEF IInv, TypeOK
  <2>4. \A v \in Writers : name'[v] # NoName => directory'[name'[v]] = v
    BY <1>a, <2>1, <2>2, <2>3 DEF IInv, OwnsName
  <2>5. \A n \in TemporaryNames : directory'[n] # Nothing =>
            directory'[n] \in Writers /\ name'[directory'[n]] = n
    BY <1>1, <1>a, <2>3 DEF IInv, OwnsName
  <2>6. \A v \in Writers : pc'[v] = IF v = w THEN (IF Commit(w) THEN "return" ELSE "failed")
                                     ELSE pc[v]
    BY DEF IInv, TypeOK, Commit, Discard, Goto
  <2> QED
    BY <2>3, <2>4, <2>5, <2>6 DEF IInv, OwnsName
<1>4. Streams'
  BY <1>1 DEF IInv, TypeOK, Streams, Commit, Discard, Goto, Names
<1>5. ModesKept'
  BY DEF IInv, TypeOK, ModesKept, Commit, Discard, Goto
<1> QED
  BY <1>2, <1>3, <1>4, <1>5 DEF IInv

\* A process that dies leaves its name and its file as they are.
LEMMA CrashStep ==
    ASSUME IInv, NEW w \in Writers, Crash(w)
    PROVE  IInv'
<1>1. TypeOK'
  BY ZenonT(60) DEF IInv, TypeOK, Crash
<1>2. OwnsName'
  BY DEF IInv, TypeOK, OwnsName, Crash
<1>3. Streams'
  BY DEF IInv, TypeOK, Streams, Crash, Running
<1>4. ModesKept'
  BY DEF IInv, TypeOK, ModesKept, Crash
<1> QED
  BY <1>1, <1>2, <1>3, <1>4 DEF IInv

\* Other programs change only what is at the destination.
LEMMA OthersStep ==
    ASSUME IInv, Exchange \/ ChangeMode
    PROVE  IInv'
<1>a. /\ \A n \in TemporaryNames : directory'[n] = directory[n]
      /\ \A w \in Writers : directory'[Path] = w => directory[Path] = w
  BY NoWriterIsForeign DEF IInv, TypeOK, Exchange, ChangeMode, Names
<1>b. UNCHANGED <<pc, name, found>>
  BY DEF Exchange, ChangeMode
<1>c. \A w \in Writers : /\ file'[w].open = file[w].open
                          /\ file'[w].given = file[w].given
                          /\ file'[w].written = file[w].written
                          /\ file'[w].failed = file[w].failed
  <2>1. CASE Exchange
    BY <2>1 DEF Exchange
  <2>2. CASE ChangeMode
    <3>1. PICK m \in Modes :
            file' = [file EXCEPT ![directory[Path]] = [file[directory[Path]] EXCEPT !.mode = m]]
      BY <2>2 DEF ChangeMode
    <3>2. file \in [Writers -> [given: 0 .. Size, written: 0 .. Size, failed: BOOLEAN,
                                open: BOOLEAN, mode: Modes]]
      BY DEF IInv, TypeOK
    <3> QED
      BY <3>1, <3>2
  <2> QED
    BY <2>1, <2>2
<1>1. TypeOK'
  BY DEF IInv, TypeOK, Exchange, ChangeMode, Names
<1>2. OwnsName'
  BY <1>a, <1>b DEF IInv, TypeOK, OwnsName
<1>3. Streams'
  BY <1>a, <1>b, <1>c DEF IInv, Streams
<1>4. ModesKept'
  BY DEF IInv, TypeOK, ModesKept, Streams, Exchange, ChangeMode, Names
<1> QED
  BY <1>1, <1>2, <1>3, <1>4 DEF IInv

LEMMA StepIInv == IInv /\ [Next]_vars => IInv'
<1> SUFFICES ASSUME IInv, [Next]_vars PROVE IInv'
  OBVIOUS
<1>1. CASE UNCHANGED vars
  BY <1>1 DEF vars, IInv, TypeOK, OwnsName, Streams, ModesKept
<1>2. CASE Next
  BY <1>2, QuietSteps, OpenStep, InspectStep, ChmodStep, WriteStep, RenameStep,
     CrashStep, OthersStep DEF Next
<1> QED
  BY <1>1, <1>2

LEMMA Invariant == Spec => []IInv
<1> QED
  BY InitIInv, StepIInv, PTL DEF Spec

\* Every variable keeps its type.
THEOREM TypeCorrect == Spec => []TypeOK
<1>1. IInv => TypeOK
  BY DEF IInv
<1> QED
  BY <1>1, Invariant, PTL

\* A reader of the destination never finds a part of a report.
THEOREM Whole == Spec => []WholeReports
<1>1. IInv => WholeReports
  BY DEF IInv, Streams, WholeReports
<1> QED
  BY <1>1, Invariant, PTL

\* No call that returned leaves a file or a descriptor behind.
THEOREM NoLeftovers == Spec => []NothingLeft
<1>1. IInv => NothingLeft
  BY DEF IInv, TypeOK, OwnsName, Streams, NothingLeft, Running
<1> QED
  BY <1>1, Invariant, PTL

------------------------------------------------------------------------------
(* ReportFile implements Destination. *)

LEMMA InitRefines == Init => Atomic!Init
  BY DEF Init, Atomic!Init, ShownDestination, Stat, Phase, Names, Atomic!Absent,
         Atomic!Other

\* A step of one call that leaves the destination as it is moves its phase only.
LEMMA HiddenStep ==
    ASSUME IInv, NEW w \in Writers, NEW p,
           pc' = [pc EXCEPT ![w] = p],
           directory'[Path] = directory[Path],
           \A v \in Writers : directory[Path] = v =>
                file'[v].mode = file[v].mode /\ file'[v].written = file[v].written
    PROVE  /\ ShownDestination' = ShownDestination
           /\ [v \in Writers |-> Phase(v)]' =
                [[v \in Writers |-> Phase(v)] EXCEPT ![w] = Phase(w)']
           /\ pc'[w] = p
<1>1. \A v \in Writers \ {w} : pc'[v] = pc[v]
  BY DEF IInv, TypeOK
<1>2. \A v \in Writers \ {w} : Phase(v)' = Phase(v)
  BY <1>1 DEF Phase
<1>3. Stat(directory[Path])' = Stat(directory[Path])
  BY DEF Stat
<1>4. pc'[w] = p
  BY DEF IInv, TypeOK
<1> QED
  BY <1>2, <1>3, <1>4 DEF ShownDestination

\* The file of a call that has not returned is not at the destination, so that what
\* is done to it is not seen.
LEMMA NotShown ==
    ASSUME IInv, NEW w \in Writers,
           pc[w] \in {"idle", "open", "inspect", "chmod", "abandon", "stream", "write",
                      "commit", "discard"}
    PROVE  directory[Path] # w
  BY DEF IInv, Streams

\* A step that keeps the phase of the call is a stutter.
LEMMA Stutters ==
    ASSUME IInv, NEW w \in Writers, NEW p, UNCHANGED found,
           pc' = [pc EXCEPT ![w] = p],
           directory'[Path] = directory[Path],
           \A v \in Writers : directory[Path] = v =>
                file'[v].mode = file[v].mode /\ file'[v].written = file[v].written,
           pc'[w] = p => Phase(w)' = Phase(w)
    PROVE  UNCHANGED Atomic!vars
<1>1. /\ ShownDestination' = ShownDestination
      /\ [v \in Writers |-> Phase(v)]' =
                [[v \in Writers |-> Phase(v)] EXCEPT ![w] = Phase(w)']
      /\ pc'[w] = p
  BY HiddenStep
<1>2. [[v \in Writers |-> Phase(v)] EXCEPT ![w] = Phase(w)] = [v \in Writers |-> Phase(v)]
  OBVIOUS
<1> QED
  BY <1>1, <1>2 DEF Atomic!vars

\* A step that ends in "abandon" or "discard" from before shows as giving up.
LEMMA GivesUp ==
    ASSUME IInv, NEW w \in Writers, NEW p \in {"abandon", "discard"}, UNCHANGED found,
           pc[w] \in {"inspect", "chmod", "stream", "write", "commit"},
           pc' = [pc EXCEPT ![w] = p],
           directory'[Path] = directory[Path],
           \A v \in Writers : directory[Path] = v =>
                file'[v].mode = file[v].mode /\ file'[v].written = file[v].written
    PROVE  Atomic!GiveUp(w)
<1>1. /\ ShownDestination' = ShownDestination
      /\ [v \in Writers |-> Phase(v)]' =
                [[v \in Writers |-> Phase(v)] EXCEPT ![w] = Phase(w)']
      /\ pc'[w] = p
  BY HiddenStep
<1>2. Phase(w)' = "failing" /\ Phase(w) \in {"running", "inspected"}
  BY <1>1 DEF Phase
<1> QED
  BY <1>1, <1>2 DEF Atomic!GiveUp, Atomic!Move

\* Before the temporary file.
LEMMA CallRefines ==
    ASSUME IInv, NEW w \in Writers, Call(w) \/ OpenFails(w)
    PROVE  Atomic!Call(w) \/ Atomic!Fail(w)
<1>1. PICK p \in {"open", "failed"} : pc' = [pc EXCEPT ![w] = p]
  BY DEF Call, OpenFails, Goto
<1>2. UNCHANGED <<directory, file, found>>
  BY DEF Call, OpenFails
<1>3. /\ ShownDestination' = ShownDestination
      /\ [v \in Writers |-> Phase(v)]' =
                [[v \in Writers |-> Phase(v)] EXCEPT ![w] = Phase(w)']
      /\ pc'[w] = p
  BY <1>1, <1>2, HiddenStep
<1>4. CASE p = "failed"
  <2>1. pc[w] \in {"idle", "open"}
    BY DEF Call, OpenFails, Goto
  <2>2. Phase(w)' = "failed" /\ Phase(w) \in {"idle", "running"}
    BY <1>3, <1>4, <2>1 DEF Phase
  <2> QED
    BY <1>2, <1>3, <2>2 DEF Atomic!Fail, Atomic!Move
<1>5. CASE p = "open"
  <2>1. pc[w] = "idle"
    BY <1>1, <1>3, <1>5 DEF Call, OpenFails, Goto, IInv, TypeOK
  <2>2. Phase(w)' = "running" /\ Phase(w) = "idle"
    BY <1>3, <1>5, <2>1 DEF Phase
  <2> QED
    BY <1>2, <1>3, <2>2 DEF Atomic!Call, Atomic!Move
<1> QED
  BY <1>4, <1>5

LEMMA OpenRefines ==
    ASSUME IInv, NEW w \in Writers, NEW n \in TemporaryNames, Open(w, n)
    PROVE  UNCHANGED Atomic!vars
<1>1. pc[w] = "open" /\ pc' = [pc EXCEPT ![w] = "inspect"] /\ UNCHANGED found
  BY DEF Open, Goto
<1>2. directory'[Path] = directory[Path]
  BY DEF Open, IInv, TypeOK, Names
<1>3. \A v \in Writers : directory[Path] = v =>
                file'[v].mode = file[v].mode /\ file'[v].written = file[v].written
  BY <1>1, NotShown DEF Open, IInv, TypeOK
<1>4. pc'[w] = "inspect" => Phase(w)' = Phase(w)
  BY <1>1 DEF Phase
<1> QED
  BY <1>1, <1>2, <1>3, <1>4, Stutters

LEMMA InspectRefines ==
    ASSUME IInv, NEW w \in Writers, Inspect(w)
    PROVE  Atomic!Inspect(w) \/ Atomic!GiveUp(w)
<1>1. pc[w] = "inspect" /\ UNCHANGED <<directory, file>>
  BY DEF Inspect, Goto
<1>2. CASE pc' = [pc EXCEPT ![w] = "abandon"] /\ UNCHANGED found
  BY <1>1, <1>2, GivesUp
<1>3. ASSUME NEW p \in {"chmod", "stream"}, pc' = [pc EXCEPT ![w] = p],
             Stat(directory[Path]).kind # "other",
             found' = [found EXCEPT ![w] = Stat(directory[Path])]
      PROVE  Atomic!Inspect(w)
  <2>1. /\ ShownDestination' = ShownDestination
        /\ [v \in Writers |-> Phase(v)]' =
                [[v \in Writers |-> Phase(v)] EXCEPT ![w] = Phase(w)']
        /\ pc'[w] = p
    BY <1>1, <1>3, HiddenStep
  <2>2. Phase(w)' = "inspected" /\ Phase(w) = "running"
    BY <1>1, <2>1 DEF Phase
  <2>3. Stat(directory[Path]) = [kind |-> ShownDestination.kind,
                                 mode |-> ShownDestination.mode]
    BY StatType DEF IInv, ShownDestination
  <2> QED
    BY <1>3, <2>1, <2>2, <2>3 DEF Atomic!Inspect, Atomic!Move, Atomic!Replaceable
<1> QED
  BY <1>2, <1>3 DEF Inspect, Goto

\* The steps on the temporary file.
LEMMA FileRefines ==
    ASSUME IInv, NEW w \in Writers,
           Chmod(w) \/ Abandon(w) \/ OpenStream(w) \/ Write(w) \/ WriteFails(w)
                    \/ Close(w) \/ RenameFails(w)
    PROVE  Atomic!GiveUp(w) \/ UNCHANGED Atomic!vars
<1>1. UNCHANGED <<directory, found>>
  BY DEF Chmod, Abandon, OpenStream, Write, WriteFails, Close, RenameFails
<1>2. pc[w] \in {"chmod", "abandon", "stream", "write", "commit"}
  BY DEF Chmod, Abandon, OpenStream, Write, WriteFails, Close, RenameFails, Goto
<1>3. \A v \in Writers \ {w} : file'[v] = file[v]
  BY DEF IInv, TypeOK, Chmod, Abandon, OpenStream, Write, WriteFails, Close, RenameFails
<1>4. \A v \in Writers : directory[Path] = v =>
                file'[v].mode = file[v].mode /\ file'[v].written = file[v].written
  BY <1>2, <1>3, NotShown
<1>5. PICK p \in {"abandon", "discard", "stream", "write", "commit"} :
        /\ pc' = [pc EXCEPT ![w] = p]
        /\ pc[w] = "abandon" => p = "discard"
  <2>1. CASE Write(w) \/ WriteFails(w)
    BY <2>1 DEF Write, WriteFails, IInv, TypeOK
  <2>2. CASE Chmod(w) \/ Abandon(w) \/ OpenStream(w) \/ Close(w) \/ RenameFails(w)
    BY <2>2 DEF Chmod, Abandon, OpenStream, Close, RenameFails, Goto
  <2> QED
    BY <2>1, <2>2
<1>6. CASE p \in {"abandon", "discard"} /\ pc[w] # "abandon"
  BY <1>1, <1>2, <1>4, <1>5, <1>6, GivesUp
<1>7. CASE p \notin {"abandon", "discard"} \/ pc[w] = "abandon"
  <2>1. pc'[w] = p => Phase(w)' = Phase(w)
    BY <1>2, <1>5, <1>7 DEF Phase
  <2> QED
    BY <1>1, <1>4, <1>5, <2>1, Stutters
<1> QED
  BY <1>6, <1>7

\* The rename is the one step in which the destination changes, from what it was to
\* the whole report.
LEMMA CommitRefines ==
    ASSUME IInv, NEW w \in Writers, Commit(w)
    PROVE  Atomic!Replace(w)
<1>1. /\ pc[w] = "commit" /\ pc' = [pc EXCEPT ![w] = "return"]
      /\ UNCHANGED <<file, found>>
  BY DEF Commit, Goto
<1>2. name[w] \in TemporaryNames
  BY <1>1 DEF IInv, TypeOK, OwnsName
<1>3. directory'[Path] = w
  BY <1>2 DEF Commit, IInv, TypeOK, Names
<1>4. file[w].written = Size
      /\ file[w].mode = IF found[w].kind = "regular" THEN found[w].mode ELSE PrivateMode
  BY <1>1 DEF IInv, Streams, ModesKept
<1>5. ShownDestination' = [kind |-> "regular", mode |-> file[w].mode, report |-> w]
  BY <1>1, <1>3, <1>4 DEF ShownDestination, Stat
<1>6. /\ Phase(w) = "inspected" /\ Phase(w)' = "replaced"
      /\ \A v \in Writers \ {w} : Phase(v)' = Phase(v)
  BY <1>1 DEF Phase, IInv, TypeOK
<1>7. [v \in Writers |-> Phase(v)]' = [[v \in Writers |-> Phase(v)] EXCEPT ![w] = "replaced"]
  BY <1>6
<1> QED
  BY <1>1, <1>4, <1>5, <1>6, <1>7
     DEF Atomic!Replace, Atomic!Move, Atomic!Report, Atomic!ModeFor

\* The steps after it, and the removal of a temporary file.
LEMMA ReturnRefines ==
    ASSUME IInv, NEW w \in Writers, Discard(w) \/ Return(w) \/ Crash(w)
    PROVE  Atomic!Fail(w) \/ Atomic!Succeed(w) \/ Atomic!Crash(w)
<1>1. PICK p \in {"failed", "succeeded", "crashed"} :
        /\ pc' = [pc EXCEPT ![w] = p]
        /\ p = "failed" => pc[w] = "discard"
        /\ p = "succeeded" => pc[w] = "return"
        /\ p = "crashed" => Running(w)
  BY DEF Discard, Return, Crash, Goto
<1>2. UNCHANGED found
  BY DEF Discard, Return, Crash
<1>3. directory'[Path] = directory[Path]
  <2>1. Discard(w) => name[w] \in TemporaryNames
    BY DEF Discard, Goto, IInv, TypeOK, OwnsName
  <2> QED
    BY <2>1 DEF Discard, Return, Crash, IInv, TypeOK, Names
<1>4. \A v \in Writers : file'[v].mode = file[v].mode /\ file'[v].written = file[v].written
  BY DEF Discard, Return, Crash, IInv, TypeOK
<1>5. /\ ShownDestination' = ShownDestination
      /\ [v \in Writers |-> Phase(v)]' =
                [[v \in Writers |-> Phase(v)] EXCEPT ![w] = Phase(w)']
      /\ pc'[w] = p
  BY <1>1, <1>3, <1>4, HiddenStep
<1>6. Phase(w)' = p
  BY <1>5 DEF Phase
<1>7. CASE p = "failed"
  <2>1. Phase(w) = "failing"
    BY <1>1, <1>7 DEF Phase
  <2> QED
    BY <1>2, <1>5, <1>6, <1>7, <2>1 DEF Atomic!Fail, Atomic!Move
<1>8. CASE p = "succeeded"
  <2>1. Phase(w) = "replaced"
    BY <1>1, <1>8 DEF Phase
  <2> QED
    BY <1>2, <1>5, <1>6, <1>8, <2>1 DEF Atomic!Succeed, Atomic!Move
<1>9. CASE p = "crashed"
  <2>1. Phase(w) \in {"running", "inspected", "replaced", "failing"}
    BY <1>1, <1>9 DEF Phase, Running, IInv, TypeOK
  <2> QED
    BY <1>2, <1>5, <1>6, <1>9, <2>1 DEF Atomic!Crash, Atomic!Move
<1> QED
  BY <1>7, <1>8, <1>9

LEMMA OthersRefine ==
    ASSUME IInv, Exchange \/ ChangeMode
    PROVE  Atomic!Interfere
<1>1. UNCHANGED <<pc, found>>
  BY DEF Exchange, ChangeMode
<1>2. UNCHANGED [v \in Writers |-> Phase(v)]
  BY <1>1 DEF Phase
<1>3. CASE Exchange
  <2>1. PICK f \in Foreign \cup {Nothing} : directory'[Path] = f
    BY <1>3 DEF Exchange, IInv, TypeOK, Names
  <2>2. f \notin Writers
    BY NoWriterIsForeign
  <2>3. CASE f = Nothing
    BY <1>1, <1>2, <2>1, <2>2, <2>3
       DEF Atomic!Interfere, Atomic!Absent, ShownDestination, Stat
  <2>4. CASE f # Nothing
    <3>1. f \in Foreign
      BY <2>4
    <3>2. ShownDestination' = [kind |-> f.kind, mode |-> f.mode, report |-> Nothing]
      BY <2>1, <2>2, <2>4 DEF ShownDestination, Stat
    <3> QED
      BY <1>1, <1>2, <3>1, <3>2 DEF Atomic!Interfere, Atomic!Other
  <2> QED
    BY <2>3, <2>4
<1>4. CASE ChangeMode
  <2>1. PICK m \in Modes : file' = [file EXCEPT ![directory[Path]].mode = m]
    BY <1>4 DEF ChangeMode
  <2>2. directory[Path] \in Writers /\ directory' = directory
    BY <1>4 DEF ChangeMode
  <2>3. file[directory[Path]].written = Size
    BY <2>2 DEF IInv, Streams
  <2>4. file'[directory[Path]].written = Size /\ file'[directory[Path]].mode = m
    BY <2>1, <2>2, <2>3 DEF IInv, TypeOK
  <2>5. ShownDestination' = [kind |-> "regular", mode |-> m, report |-> directory[Path]]
    BY <2>2, <2>4 DEF ShownDestination, Stat
  <2>6. ShownDestination.report = directory[Path] /\ directory[Path] # Nothing
    BY <2>2, <2>3, NoWriterIsForeign DEF ShownDestination
  <2> QED
    BY <1>1, <1>2, <2>5, <2>6 DEF Atomic!Interfere, Atomic!Report
<1> QED
  BY <1>3, <1>4

LEMMA NextRefines == IInv /\ [Next]_vars => [Atomic!Next]_(Atomic!vars)
<1> SUFFICES ASSUME IInv, [Next]_vars PROVE Atomic!Next \/ UNCHANGED Atomic!vars
  OBVIOUS
<1>1. CASE UNCHANGED vars
  BY <1>1 DEF vars, Atomic!vars, ShownDestination, Stat, Phase
<1>2. ASSUME NEW w \in Writers,
             \/ Call(w) \/ OpenFails(w) \/ Inspect(w) \/ Chmod(w) \/ Abandon(w)
             \/ OpenStream(w) \/ Write(w) \/ WriteFails(w) \/ Close(w)
             \/ Commit(w) \/ RenameFails(w) \/ Discard(w) \/ Return(w) \/ Crash(w)
             \/ \E n \in TemporaryNames : Open(w, n)
      PROVE  Atomic!Next \/ UNCHANGED Atomic!vars
  BY <1>2, CallRefines, OpenRefines, InspectRefines, FileRefines, CommitRefines,
     ReturnRefines DEF Atomic!Next
<1>3. CASE Exchange \/ ChangeMode
  BY <1>3, OthersRefine DEF Atomic!Next
<1> QED
  BY <1>1, <1>2, <1>3 DEF Next

\* For whoever looks at the destination a call is one step: it is replaced as a
\* whole by a call that succeeds or dies right after, with the mode of the file the
\* call found, and stays as it is in a call that fails.
THEOREM ImplementsDestination == Spec => DestinationSpec
<1> QED
  BY InitRefines, NextRefines, Invariant, PTL DEF Spec, DestinationSpec, Atomic!Spec
==============================================================================
