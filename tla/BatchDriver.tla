---------------------------- MODULE BatchDriver -----------------------------
(***************************************************************************)
(* auto_autopkgtest.py: tests the packages of a list, one after the other, *)
(* and sorts the results into directories.  It runs autopkgtest with pipes *)
(* as its stdout and stderr, follows the lines on stderr, and reads        *)
(* nothing else.  What is in the directories outlives it: a new session    *)
(* passes over the packages that have a result.                            *)
(*                                                                         *)
(* Lines of autopkgtest, blocks of its stdout and parts of a source tree   *)
(* are counted; the pipes have room for few of them.                       *)
(***************************************************************************)
EXTENDS Naturals, Sequences

CONSTANTS
    Pkgs,         \* the list
    Kind,         \* of each package: "tests", "empty", "no source"
    Stdout,       \* blocks autopkgtest writes to its stdout for it
    PipeSize,     \* what a pipe has room for
    MaxSessions   \* bound: times the driver is started

ASSUME BatchAssumption ==
    /\ Len(Pkgs) \in Nat
    /\ Kind \in [1 .. Len(Pkgs) -> {"tests", "empty", "no source"}]
    /\ Stdout \in [1 .. Len(Pkgs) -> Nat]
    /\ PipeSize \in Nat \ {0} /\ MaxSessions \in Nat \ {0}

Index == 1 .. Len(Pkgs)
TreeParts == 2

VARIABLES
    \* the working directory
    testRes,       \* the directory of a package: "no", "new", "partial", "failed",
                   \* "complete"
    emptyTest,     \* packages with a directory in emptyTest/
    testSrc,       \* that of its sources: 0 if there is none, or 1 + the parts it has
    noSourceFile,  \* what ./pkg_no_source lists
    \* the driver
    session,       \* how often it has been started
    at,            \* "boot", "wait", "list", "fetch", "off", "pkg", "stderr", "sort",
                   \* "ended", "died"
    listed,        \* the packages of the list it has got
    i,             \* the package
    noSource,      \* pkg_no_source
    srcDir,        \* the line of the copyup has been seen
    vm,            \* the machine the list is read from: "off", "up", "broken"
    \* autopkgtest
    child,         \* "none", "started", "copyup", "copying", "test", "exited"
    tree,          \* parts of tests-tree/ copied so far
    lines,         \* on stderr, not yet read
    stdout,        \* blocks on stdout, read by nobody
    written,       \* blocks it has written
    \*
    cut            \* history: packages a session was at when it died

disk == <<testRes, emptyTest, testSrc, noSourceFile>>
driver == <<session, at, listed, i, noSource, srcDir>>
process == <<child, tree, lines, stdout, written>>
vars == <<disk, driver, vm, process, cut>>

TypeOK ==
    /\ testRes \in [Index -> {"no", "new", "partial", "failed", "complete"}]
    /\ emptyTest \subseteq Index /\ noSourceFile \subseteq Index /\ noSource \subseteq Index
    /\ cut \subseteq Index
    /\ testSrc \in [Index -> 0 .. TreeParts + 1]
    /\ session \in 1 .. MaxSessions
    /\ at \in {"boot", "wait", "list", "fetch", "off", "pkg", "stderr", "sort", "ended",
              "died"}
    /\ listed \in 0 .. Len(Pkgs) /\ i \in 1 .. listed + 1
    /\ srcDir \in BOOLEAN /\ vm \in {"off", "up", "broken"}
    /\ child \in {"none", "started", "copyup", "copying", "test", "exited"}
    /\ tree \in 0 .. TreeParts /\ stdout \in 0 .. PipeSize /\ written \in Nat
    /\ lines \in Seq({"unable", "copyup", "other"}) /\ Len(lines) <= PipeSize

NoProcess == child' = "none" /\ tree' = 0 /\ lines' = <<>> /\ stdout' = 0 /\ written' = 0

\* The packages from a list that is given, or from apt of the image (-a).
Init ==
    /\ testRes = [p \in Index |-> "no"] /\ emptyTest = {} /\ noSourceFile = {}
    /\ testSrc = [p \in Index |-> 0]
    /\ session = 1 /\ at \in {"boot", "pkg"} /\ listed = Len(Pkgs) /\ i = 1
    /\ noSource = {} /\ srcDir = FALSE /\ cut = {}
    /\ vm = "off"
    /\ child = "none" /\ tree = 0 /\ lines = <<>> /\ stdout = 0 /\ written = 0
-----------------------------------------------------------------------------
(* get_apt_list().                                                         *)

\* QemuVM.start(): the status of qemu-img and of qemu is ignored.
StartVm ==
    /\ at = "boot" /\ at' = "wait" /\ vm' \in {"up", "broken"}
    /\ UNCHANGED <<disk, session, listed, i, noSource, srcDir, process, cut>>

\* waitReady() tries until ssh answers.
WaitReady ==
    /\ at = "wait" /\ vm = "up" /\ at' = "list"
    /\ UNCHANGED <<disk, session, listed, i, noSource, srcDir, vm, process, cut>>

\* ssh_exec(): the status of apt is looked at by nobody.  What apt list prints is
\* whole, or nothing.
ListPackages ==
    /\ at = "list" /\ at' = "fetch" /\ listed' \in {0, Len(Pkgs)}
    /\ UNCHANGED <<disk, session, i, noSource, srcDir, vm, process, cut>>

FetchList ==
    /\ at = "fetch" /\ at' = "off"
    /\ UNCHANGED <<disk, session, listed, i, noSource, srcDir, vm, process, cut>>

\* destroy()
PowerOff ==
    /\ at = "off" /\ at' = "pkg" /\ vm' = "off"
    /\ UNCHANGED <<disk, session, listed, i, noSource, srcDir, process, cut>>

\* No connection, or no file there: an exception, and the machine stays.
ListFails ==
    /\ at \in {"list", "fetch", "off"} /\ at' = "died"
    /\ UNCHANGED <<disk, session, listed, i, noSource, srcDir, vm, process, cut>>
-----------------------------------------------------------------------------
(* The loop over the packages.                                             *)

Skip ==
    /\ at = "pkg" /\ i <= listed /\ testRes[i] # "no"
    /\ i' = i + 1
    /\ UNCHANGED <<disk, session, at, listed, noSource, srcDir, vm, process, cut>>

\* Mutant of Spawn: a result that is there is done again.
SpawnAlways ==
    /\ at = "pkg" /\ i <= listed
    /\ testRes' = [testRes EXCEPT ![i] = "new"]
    /\ child' = "started" /\ at' = "stderr" /\ srcDir' = FALSE
    /\ UNCHANGED <<emptyTest, testSrc, noSourceFile, session, listed, i, noSource, vm, tree,
                   lines, stdout, written, cut>>

Spawn ==
    /\ at = "pkg" /\ i <= listed /\ testRes[i] = "no"
    /\ testRes' = [testRes EXCEPT ![i] = "new"]
    /\ child' = "started" /\ at' = "stderr" /\ srcDir' = FALSE
    /\ UNCHANGED <<emptyTest, testSrc, noSourceFile, session, listed, i, noSource, vm, tree,
                   lines, stdout, written, cut>>

\* Mutant of ReadLine: the lines are read when autopkgtest has ended.
ReadLineAfterwards ==
    /\ at = "stderr" /\ lines # <<>> /\ child = "exited"
    /\ lines' = Tail(lines)
    /\ UNCHANGED <<disk, driver, vm, child, tree, stdout, written, cut>>

\* A line of stderr: the package is noted, or the line after that of the copyup
\* starts cp -r of what there is of tests-tree/.
ReadLine ==
    /\ at = "stderr" /\ lines # <<>>
    /\ lines' = Tail(lines)
    /\ noSource' = IF Head(lines) = "unable" THEN noSource \cup {i} ELSE noSource
    /\ LET wanted == Head(lines) # "unable" /\ testSrc[i] = 0
       IN /\ srcDir' = (srcDir \/ (wanted /\ Head(lines) = "copyup"))
          /\ testSrc' = IF wanted /\ srcDir
                        THEN [testSrc EXCEPT ![i] = tree + 1] ELSE testSrc
    /\ UNCHANGED <<testRes, emptyTest, noSourceFile, session, at, listed, i, vm, child,
                   tree, stdout, written, cut>>

StderrEnds ==
    /\ at = "stderr" /\ lines = <<>> /\ child = "exited" /\ at' = "sort"
    /\ UNCHANGED <<disk, session, listed, i, noSource, srcDir, vm, process, cut>>

SortNoSource ==
    /\ at = "sort" /\ i \in noSource
    /\ testRes' = [testRes EXCEPT ![i] = "no"]
    /\ at' = "pkg" /\ i' = i + 1 /\ NoProcess
    /\ UNCHANGED <<emptyTest, testSrc, noSourceFile, session, listed, noSource, srcDir, vm, cut>>

\* Mutant of SortEmpty: it is removed.
SortEmptyRemoving ==
    /\ at = "sort" /\ i \notin noSource /\ testRes[i] = "complete" /\ Kind[i] = "empty"
    /\ testRes' = [testRes EXCEPT ![i] = "no"]
    /\ at' = "pkg" /\ i' = i + 1 /\ NoProcess
    /\ UNCHANGED <<emptyTest, testSrc, noSourceFile, session, listed, noSource, srcDir, vm, cut>>

\* mv into emptyTest/, which fails if there is such a directory already.
SortEmpty ==
    /\ at = "sort" /\ i \notin noSource /\ testRes[i] = "complete" /\ Kind[i] = "empty"
    /\ emptyTest' = emptyTest \cup {i}
    /\ testRes' = IF i \in emptyTest THEN testRes ELSE [testRes EXCEPT ![i] = "no"]
    /\ at' = "pkg" /\ i' = i + 1 /\ NoProcess
    /\ UNCHANGED <<testSrc, noSourceFile, session, listed, noSource, srcDir, vm, cut>>

SortTested ==
    /\ at = "sort" /\ i \notin noSource
    /\ testRes[i] = "failed" \/ (testRes[i] = "complete" /\ Kind[i] # "empty")
    /\ at' = "pkg" /\ i' = i + 1 /\ NoProcess
    /\ UNCHANGED <<disk, session, listed, noSource, srcDir, vm, cut>>

\* There is no summary to open: nothing catches the exception.
NoSummary ==
    /\ at = "sort" /\ i \notin noSource /\ testRes[i] = "new"
    /\ at' = "died" /\ NoProcess /\ cut' = cut \cup {i}
    /\ UNCHANGED <<disk, session, listed, i, noSource, srcDir, vm>>

\* Mutant of WriteNoSource: after one package too many.
WriteNoSourceLate ==
    /\ at = "pkg" /\ i = listed + 1 /\ at' = "ended" /\ i' = i + 1
    /\ noSourceFile' = noSource
    /\ UNCHANGED <<testRes, emptyTest, testSrc, session, listed, noSource, srcDir, vm,
                   process, cut>>

WriteNoSource ==
    /\ at = "pkg" /\ i = listed + 1 /\ at' = "ended"
    /\ noSourceFile' = noSource
    /\ UNCHANGED <<testRes, emptyTest, testSrc, session, listed, i, noSource, srcDir, vm,
                   process, cut>>
-----------------------------------------------------------------------------
(* autopkgtest, as far as the driver sees it.                              *)

Says(line) == Len(lines) < PipeSize /\ lines' = Append(lines, line)

\* Bad arguments, or no such program.
ChildFails ==
    /\ child = "started" /\ child' = "exited" /\ Says("other")
    /\ UNCHANGED <<disk, driver, vm, tree, stdout, written, cut>>

\* The testbed fails: there is a summary, of what there was to that point.
ChildQuits ==
    /\ child \in {"started", "copyup", "copying", "test"} /\ Says("other")
    /\ child' = "exited" /\ tree' = 0 /\ testRes' = [testRes EXCEPT ![i] = "failed"]
    /\ UNCHANGED <<emptyTest, testSrc, noSourceFile, driver, vm, stdout, written, cut>>

\* The summary is opened, and closed with the process.
ChildFindsNoSource ==
    /\ child = "started" /\ Kind[i] = "no source" /\ Says("unable")
    /\ child' = "exited" /\ testRes' = [testRes EXCEPT ![i] = "complete"]
    /\ UNCHANGED <<emptyTest, testSrc, noSourceFile, driver, vm, tree, stdout, written, cut>>

ChildCopyup ==
    /\ child = "started" /\ Kind[i] # "no source" /\ Says("copyup")
    /\ child' = "copyup" /\ testRes' = [testRes EXCEPT ![i] = "partial"]
    /\ UNCHANGED <<emptyTest, testSrc, noSourceFile, driver, vm, tree, stdout, written, cut>>

\* The two commands of the copy are logged before any of it is there.
ChildLogs ==
    /\ child = "copyup" /\ Says("other") /\ child' = "copying"
    /\ UNCHANGED <<disk, driver, vm, tree, stdout, written, cut>>

ChildCopies ==
    /\ child = "copying"
    /\ IF tree < TreeParts THEN tree' = tree + 1 /\ UNCHANGED <<child, lines>>
                           ELSE Says("other") /\ child' = "test" /\ UNCHANGED tree
    /\ UNCHANGED <<disk, driver, vm, stdout, written, cut>>

\* The output of the tests and the report.
ChildWrites ==
    /\ child = "test" /\ written < Stdout[i] /\ stdout < PipeSize
    /\ stdout' = stdout + 1 /\ written' = written + 1
    /\ UNCHANGED <<disk, driver, vm, child, tree, lines, cut>>

\* tests-tree/ is removed by an exit handler.
ChildExits ==
    /\ child = "test" /\ written = Stdout[i] /\ Says("other")
    /\ child' = "exited" /\ tree' = 0
    /\ testRes' = [testRes EXCEPT ![i] = "complete"]
    /\ UNCHANGED <<emptyTest, testSrc, noSourceFile, driver, vm, stdout, written, cut>>
-----------------------------------------------------------------------------
\* The terminal sends SIGINT to driver and autopkgtest, the host goes down, or a line
\* of stderr is not UTF-8.  autopkgtest ends at once, or goes on without the driver;
\* what it still does to its directory is put into this step, since from here on
\* nobody looks at more than whether there is one.
Crash ==
    /\ at \in {"pkg", "stderr", "sort"} /\ at' = "died" /\ NoProcess
    /\ IF at = "pkg" THEN UNCHANGED <<testRes, cut>>
       ELSE /\ cut' = cut \cup {i}
            /\ \/ UNCHANGED testRes
               \/ /\ child # "exited"
                  /\ \E r \in {"partial", "failed", "complete"} :
                        testRes' = [testRes EXCEPT ![i] = r]
    /\ UNCHANGED <<emptyTest, testSrc, noSourceFile, session, listed, i, noSource, srcDir, vm>>

Restart ==
    /\ at \in {"ended", "died"} /\ session < MaxSessions
    /\ session' = session + 1 /\ at' = "pkg" /\ listed' = Len(Pkgs) /\ i' = 1
    /\ noSource' = {} /\ srcDir' = FALSE
    /\ UNCHANGED <<disk, vm, process, cut>>

Driver == Skip \/ Spawn \/ ReadLine \/ StderrEnds \/ SortNoSource \/ SortEmpty \/ SortTested
          \/ NoSummary \/ WriteNoSource
Child == ChildFindsNoSource \/ ChildCopyup \/ ChildLogs \/ ChildCopies \/ ChildWrites
         \/ ChildExits

GetAptList == StartVm \/ WaitReady \/ ListPackages \/ FetchList \/ PowerOff

Next == GetAptList \/ ListFails \/ Driver \/ Child \/ ChildFails \/ ChildQuits \/ Crash
        \/ Restart

Spec == Init /\ [][Next]_vars

\* The processes go on, whatever autopkgtest does between two lines comes to an
\* end, and a machine that is up answers.
FairSpec == Spec /\ WF_vars(Driver) /\ WF_vars(Child) /\ WF_vars(GetAptList)
-----------------------------------------------------------------------------
(* Properties.                                                             *)

\* Where a package belongs, by the readme.md: its result, also that a testbed has
\* failed, in testRes; without tests, in emptyTest; without source, in the list.
\* But a later session tests a package again that an earlier one has moved to
\* emptyTest, and then mv fails: it is in both places.
Placed(p) ==
    \/ testRes[p] = "failed"
    \/ Kind[p] = "tests" /\ testRes[p] = "complete"
    \/ /\ Kind[p] = "empty" /\ p \in emptyTest
       /\ testRes[p] = "no" \/ (testRes[p] = "complete" /\ session > 1)
    \/ Kind[p] = "no source" /\ p \in noSourceFile /\ testRes[p] = "no"

\* No place has a package that does not belong there.
NoneMisplaced ==
    /\ \A p \in emptyTest : Kind[p] = "empty"
    /\ at = "ended" => \A p \in noSourceFile : Kind[p] = "no source" /\ testRes[p] = "no"

\* A session that works its list through leaves no package out and none at the
\* wrong place, whatever sessions were before it and wherever they were cut off;
\* except that one that died with a package at hand has left its directory in
\* testRes, complete or not, which later ones pass over.
AllSorted ==
    /\ at = "ended" => \A p \in 1 .. listed : Placed(p) \/ (p \in cut /\ testRes[p] # "no")
    /\ NoneMisplaced

\* A result, once complete, is neither done again nor thrown away by a later
\* session, unless there was nothing to test.
ResultsKept ==
    [][\A p \in Index : testRes[p] = "complete" /\ at \in {"pkg", "ended", "died"} =>
          testRes'[p] = "complete"]_vars

\* autopkgtest waits for somebody to read its stdout, and nobody does.
Blocked == child = "test" /\ stdout = PipeSize /\ written < Stdout[i]

\* The driver works its list through, or ends with an exception, unless a test
\* writes more to stdout than the pipe holds.
BatchEnds == at = "pkg" ~> at \in {"ended", "died"} \/ (at = "stderr" /\ Blocked)
-----------------------------------------------------------------------------
(* What the documentation says and the code does not do.                   *)

\* readme.md: the results of a test that is complete are in workDir/testRes, and
\* nothing else is.
ResultsComplete ==
    at = "ended" => \A p \in Index : testRes[p] # "no" => testRes[p] = "complete"

\* readme.md: of a package that has no tests the directory is in emptyTest, and not
\* in testRes.
EmptySorted ==
    at = "ended" => \A p \in Index :
        Kind[p] = "empty" => testRes[p] # "complete"

\* readme.md: the tree of the sources is kept completely.
SourceWhole ==
    at = "ended" => \A p \in Index :
        Kind[p] = "tests" /\ testRes[p] = "complete" => testSrc[p] = TreeParts + 1

\* readme.md: the list of the packages is read from the image automatically.
ListEnds == at = "wait" ~> at # "wait"
=============================================================================
