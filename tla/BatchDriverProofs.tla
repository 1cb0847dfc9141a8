-------------------------- MODULE BatchDriverProofs -------------------------
(***************************************************************************)
(* For any list of packages, of any kinds, and any number of sessions cut  *)
(* off anywhere: the variables keep their types, a session that ends has   *)
(* put each package where it belongs but for those that one was at when it *)
(* died, and a complete result stays.                                      *)
(***************************************************************************)
EXTENDS BatchDriver, SequenceTheorems, TLAPS

\* The types the arguments below need.
Typed ==
    /\ listed \in 0 .. Len(Pkgs) /\ i \in 1 .. listed + 1
    /\ testRes \in [Index -> {"no", "new", "partial", "failed", "complete"}]
    /\ noSource \subseteq Index

\* autopkgtest runs only while the driver waits for it.
ChildWaitedFor ==
    /\ at \notin {"stderr", "sort"} => child = "none"
    /\ at = "sort" => child = "exited"

\* The package at hand is one of the list, and has a directory.
AtHand == at \in {"stderr", "sort"} => i <= listed /\ testRes[i] # "no"

\* What lies behind has been dealt with; a package without source is listed, and
\* its directory is gone.
Behind ==
    at \in {"pkg", "stderr", "sort"} =>
        /\ \A p \in Index : p < i => testRes[p] # "no" \/ p \in emptyTest \/ p \in noSource
        /\ \A p \in noSource : p < i => testRes[p] = "no"
        /\ \A p \in noSource : p < i \/ (p = i /\ at # "pkg")

\* A session starts with the first package.
AtFirst == at \in {"boot", "wait", "list", "fetch", "off"} => i = 1 /\ noSource = {}

IInv == Typed /\ AtFirst /\ ChildWaitedFor /\ AtHand /\ Behind

USE DEF Index

LEMMA LengthIsNat == Len(Pkgs) \in Nat
  BY BatchAssumption

LEMMA FirstOfList == \A n \in Nat : \A l \in 0 .. n : 1 \in 1 .. l + 1
  OBVIOUS

\* The steps of autopkgtest.
ChildStep == Child \/ ChildFails \/ ChildQuits

\* They happen while the driver reads, and touch the directory at hand only.
LEMMA ChildTouches ==
    ASSUME Typed, ChildWaitedFor, AtHand, ChildStep
    PROVE  /\ at = "stderr" /\ child' # "none"
           /\ UNCHANGED <<emptyTest, noSourceFile, driver>>
           /\ \/ testRes' = testRes
              \/ \E r \in {"partial", "failed", "complete"} :
                    testRes' = [testRes EXCEPT ![i] = r]
<1>1. at = "stderr"
  BY DEF ChildStep, Child, ChildFails, ChildQuits, ChildFindsNoSource, ChildCopyup,
     ChildLogs, ChildCopies, ChildWrites, ChildExits, ChildWaitedFor
<1> QED
  BY <1>1 DEF ChildStep, Child, ChildFails, ChildQuits, ChildFindsNoSource, ChildCopyup,
     ChildLogs, ChildCopies, ChildWrites, ChildExits, disk

\* A step that touches neither the loop nor its directories.
LEMMA Elsewhere ==
    ASSUME IInv, at' = at, child' = child, UNCHANGED <<listed, i, testRes, emptyTest,
           noSource, noSourceFile>>
    PROVE  IInv'
  BY DEF IInv, Typed, AtFirst, ChildWaitedFor, AtHand, Behind

LEMMA ChildKeeps == ASSUME IInv, ChildStep PROVE IInv'
<1>1. /\ at = "stderr" /\ child' # "none" /\ UNCHANGED <<emptyTest, noSourceFile, driver>>
      /\ \/ testRes' = testRes
         \/ \E r \in {"partial", "failed", "complete"} :
               testRes' = [testRes EXCEPT ![i] = r]
  BY ChildTouches DEF IInv
<1>2. UNCHANGED <<at, listed, i, noSource>>
  BY <1>1 DEF driver
<1>3. i \in Index
  BY <1>1 DEF IInv, Typed, AtHand
<1>4. Typed' /\ AtHand'
  BY <1>1, <1>2, <1>3 DEF IInv, Typed, AtHand
<1>5. \A p \in Index : p # i => testRes'[p] = testRes[p]
  BY <1>1 DEF IInv, Typed
<1>6. testRes'[i] # "no"
  BY <1>1, <1>2, <1>4 DEF AtHand
<1>7. Behind'
  BY <1>1, <1>2, <1>3, <1>5, <1>6 DEF IInv, Behind, Typed
<1> QED
  BY <1>1, <1>2, <1>4, <1>7 DEF IInv, AtFirst, ChildWaitedFor

LEMMA ListKeeps == ASSUME IInv, GetAptList \/ ListFails PROVE IInv'
<1>1. /\ at \in {"boot", "wait", "list", "fetch", "off"}
      /\ UNCHANGED <<disk, noSource, child, i>>
  BY DEF GetAptList, StartVm, WaitReady, ListPackages, FetchList, PowerOff, ListFails,
     process
<1>2. at' \notin {"stderr", "sort", "ended"} /\ i = 1 /\ noSource = {}
  BY <1>1 DEF GetAptList, StartVm, WaitReady, ListPackages, FetchList, PowerOff, ListFails,
     IInv, AtFirst
<1>3. listed' \in {listed, 0, Len(Pkgs)}
  BY DEF GetAptList, StartVm, WaitReady, ListPackages, FetchList, PowerOff, ListFails
<1>4. Typed' /\ AtFirst'
  <2>1. listed' \in 0 .. Len(Pkgs)
    BY <1>3, LengthIsNat DEF IInv, Typed
  <2>2. UNCHANGED <<testRes, noSource>>
    BY <1>1 DEF disk
  <2>3. i' = 1
    BY <1>1, <1>2
  <2>4. i' \in 1 .. listed' + 1
    BY <2>1, <2>3, LengthIsNat, FirstOfList
  <2> QED
    BY <1>1, <1>2, <2>1, <2>2, <2>3, <2>4 DEF IInv, Typed, AtFirst
<1>5. ChildWaitedFor' /\ AtHand'
  BY <1>1, <1>2 DEF IInv, ChildWaitedFor, AtHand
<1>6. Behind'
  BY <1>1, <1>2 DEF Behind
<1> QED
  BY <1>2, <1>4, <1>5, <1>6 DEF IInv

LEMMA LoopKeeps == ASSUME IInv, Driver PROVE IInv'
<1>1. CASE Skip
  BY <1>1 DEF Skip, IInv, Typed, AtFirst, ChildWaitedFor, AtHand, Behind,
     disk, process
<1>2. CASE Spawn
  <2>1. i \in Index
    BY <1>2 DEF Spawn, IInv, Typed
  <2>2. Typed' /\ AtHand' /\ ChildWaitedFor'
    BY <1>2, <2>1 DEF Spawn, IInv, Typed, AtHand, ChildWaitedFor
  <2>3. \A p \in Index : p # i => testRes'[p] = testRes[p]
    BY <1>2 DEF Spawn, IInv, Typed
  <2>4. Behind'
    BY <1>2, <2>1, <2>3 DEF Spawn, IInv, Typed, Behind
  <2> QED
    BY <1>2, <2>2, <2>4 DEF Spawn, IInv, AtFirst
<1>3. CASE ReadLine
  <2>1. /\ at = "stderr" /\ noSource' \in {noSource, noSource \cup {i}}
        /\ UNCHANGED <<testRes, emptyTest, noSourceFile, at, listed, i, child>>
    BY <1>3 DEF ReadLine
  <2>2. i \in Index
    BY <2>1 DEF IInv, Typed, AtHand
  <2> QED
    BY <2>1, <2>2 DEF IInv, Typed, AtFirst, ChildWaitedFor, AtHand, Behind
<1>4. CASE StderrEnds
  BY <1>4 DEF StderrEnds, IInv, Typed, AtFirst, ChildWaitedFor, AtHand, Behind, disk, process
<1>5. ASSUME SortNoSource \/ SortEmpty \/ SortTested PROVE IInv'
  <2>1. at = "sort" /\ at' = "pkg" /\ i' = i + 1 /\ child' = "none"
        /\ UNCHANGED <<listed, noSource, noSourceFile>>
    BY <1>5 DEF SortNoSource, SortEmpty, SortTested, NoProcess, disk
  <2>2. i \in Index /\ i <= listed /\ testRes[i] # "no"
    BY <2>1 DEF IInv, Typed, AtHand
  <2>3. testRes' \in [Index -> {"no", "new", "partial", "failed", "complete"}]
        /\ \A p \in Index : p # i => testRes'[p] = testRes[p]
    BY <1>5 DEF SortNoSource, SortEmpty, SortTested, IInv, Typed, disk
  <2>4. Typed'
    BY <2>1, <2>2, <2>3 DEF IInv, Typed
  <2>5. IF i \in noSource THEN testRes'[i] = "no"
                          ELSE testRes'[i] # "no" \/ i \in emptyTest'
    BY <1>5, <2>2 DEF SortNoSource, SortEmpty, SortTested, IInv, Typed, disk
  <2>6. emptyTest \subseteq emptyTest'
    BY <1>5 DEF SortNoSource, SortEmpty, SortTested, disk
  <2>7. Behind'
    BY <2>1, <2>2, <2>3, <2>5, <2>6 DEF IInv, Typed, Behind
  <2> QED
    BY <2>1, <2>4, <2>7 DEF IInv, AtFirst, ChildWaitedFor, AtHand
<1>6. CASE NoSummary
  BY <1>6 DEF NoSummary, NoProcess, IInv, Typed, AtFirst, ChildWaitedFor, AtHand, Behind, disk
<1>7. CASE WriteNoSource
  <2>1. Typed' /\ AtFirst' /\ ChildWaitedFor' /\ AtHand' /\ Behind'
    BY <1>7 DEF WriteNoSource, IInv, Typed, AtFirst, ChildWaitedFor, AtHand, Behind, process
  <2> QED
    BY <2>1 DEF IInv
<1> QED
  BY <1>1, <1>2, <1>3, <1>4, <1>5, <1>6, <1>7 DEF Driver

LEMMA Inductive == Spec => []IInv
<1>1. ASSUME Init PROVE IInv
  <2>1. Typed /\ AtFirst
    BY <1>1, LengthIsNat DEF Init, Typed, AtFirst
  <2>2. ChildWaitedFor /\ AtHand
    BY <1>1 DEF Init, ChildWaitedFor, AtHand
  <2>3. Behind
    BY <1>1 DEF Init, Behind
  <2> QED
    BY <2>1, <2>2, <2>3 DEF IInv
<1>2. ASSUME IInv, [Next]_vars PROVE IInv'
  <2>1. CASE Crash \/ Restart
    <3>1. /\ at' \in {"died", "pkg"} /\ child' = "none"
          /\ UNCHANGED <<emptyTest, noSourceFile>>
          /\ testRes' \in [Index -> {"no", "new", "partial", "failed", "complete"}]
          /\ \/ UNCHANGED <<listed, i, noSource>> /\ at' = "died"
             \/ listed' = Len(Pkgs) /\ i' = 1 /\ noSource' = {}
      BY <1>2, <2>1 DEF Crash, Restart, NoProcess, IInv, Typed, ChildWaitedFor, disk, process
    <3>2. Typed' /\ AtFirst'
      <4>1. listed' \in 0 .. Len(Pkgs) /\ i' \in 1 .. listed' + 1
        BY <1>2, <3>1, LengthIsNat DEF IInv, Typed
      <4> QED
        BY <1>2, <3>1, <4>1 DEF IInv, Typed, AtFirst
    <3>3. Behind' /\ AtHand' /\ ChildWaitedFor'
      BY <1>2, <3>1, <3>2 DEF Behind, AtHand, ChildWaitedFor, Typed
    <3> QED
      BY <3>1, <3>2, <3>3 DEF IInv
  <2>2. CASE UNCHANGED vars
    BY <1>2, <2>2, Elsewhere DEF vars, disk, driver, process
  <2> QED
    BY <1>2, <2>1, <2>2, ChildKeeps, ListKeeps, LoopKeeps DEF Next, ChildStep
<1> QED
  BY <1>1, <1>2, PTL DEF Spec

-----------------------------------------------------------------------------
(* The other types.                                                        *)

Line == {"unable", "copyup", "other"}

DriverTypes ==
    /\ emptyTest \subseteq Index /\ noSourceFile \subseteq Index /\ cut \subseteq Index
    /\ session \in 1 .. MaxSessions
    /\ at \in {"boot", "wait", "list", "fetch", "off", "pkg", "stderr", "sort", "ended",
              "died"}
    /\ srcDir \in BOOLEAN /\ vm \in {"off", "up", "broken"}

ProcessTypes ==
    /\ testSrc \in [Index -> 0 .. TreeParts + 1]
    /\ child \in {"none", "started", "copyup", "copying", "test", "exited"}
    /\ tree \in 0 .. TreeParts /\ stdout \in 0 .. PipeSize /\ written \in Nat

PipeTypes == lines \in Seq(Line) /\ Len(lines) <= PipeSize

LEMMA Sizes == /\ PipeSize \in Nat /\ 1 \in 1 .. PipeSize /\ 0 \in 0 .. PipeSize
               /\ MaxSessions \in Nat /\ 1 \in 1 .. MaxSessions
<1>1. PipeSize \in Nat \ {0} /\ MaxSessions \in Nat \ {0}
  BY BatchAssumption
<1> QED
  BY <1>1

LEMMA FourParts == Typed /\ DriverTypes /\ ProcessTypes /\ PipeTypes => TypeOK
  BY Zenon DEF Typed, DriverTypes, ProcessTypes, PipeTypes, TypeOK, Line

LEMMA DriverTyped == ASSUME IInv, DriverTypes, Next PROVE DriverTypes'
<1>1. CASE GetAptList \/ ListFails
  BY <1>1 DEF GetAptList, StartVm, WaitReady, ListPackages, FetchList, PowerOff, ListFails,
     DriverTypes, disk
<1>2. CASE Driver
  <2>1. i \in Nat /\ (at = "sort" => i \in Index)
    BY DEF IInv, Typed, AtHand
  <2>2. CASE Skip \/ Spawn \/ ReadLine \/ StderrEnds
    BY <2>2 DEF Skip, Spawn, ReadLine, StderrEnds, DriverTypes, disk
  <2>3. CASE SortNoSource \/ SortEmpty \/ SortTested
    BY <2>1, <2>3 DEF SortNoSource, SortEmpty, SortTested, DriverTypes, disk
  <2>4. CASE WriteNoSource
    BY <2>4 DEF WriteNoSource, DriverTypes, IInv, Typed
  <2>5. CASE NoSummary
    BY <2>1, <2>5 DEF NoSummary, DriverTypes, disk
  <2> QED
    BY <1>2, <2>2, <2>3, <2>4, <2>5 DEF Driver
<1>3. CASE ChildStep
  BY <1>3, ChildTouches DEF IInv, DriverTypes, driver, ChildStep, Child, ChildFails, ChildQuits,
     ChildFindsNoSource, ChildCopyup, ChildLogs, ChildCopies, ChildWrites, ChildExits
<1>4. CASE Crash
  <2>1. at \in {"stderr", "sort"} => i \in Index
    BY DEF IInv, Typed, AtHand
  <2> QED
    BY <1>4, <2>1 DEF Crash, DriverTypes
<1>5. CASE Restart
  <2>1. session' \in 1 .. MaxSessions
    BY <1>5, Sizes DEF Restart, DriverTypes
  <2> QED
    BY <1>5, <2>1 DEF Restart, DriverTypes, disk
<1> QED
  BY <1>1, <1>2, <1>3, <1>4, <1>5 DEF Next, ChildStep

LEMMA ProcessTyped == ASSUME IInv, ProcessTypes, Next PROVE ProcessTypes'
<1>0. PipeSize \in Nat \ {0} /\ TreeParts = 2
  BY BatchAssumption DEF TreeParts
<1>1. CASE UNCHANGED <<testSrc, child, tree, stdout, written>>
  BY <1>1 DEF ProcessTypes
<1>2. CASE Spawn
  BY <1>2 DEF Spawn, ProcessTypes
<1>3. CASE ReadLine
  <2>1. tree + 1 \in 0 .. TreeParts + 1
    BY <1>0 DEF ProcessTypes
  <2>2. testSrc' \in [Index -> 0 .. TreeParts + 1]
    BY <1>3, <2>1 DEF ReadLine, ProcessTypes
  <2> QED
    BY <1>3, <2>2 DEF ReadLine, ProcessTypes
<1>4. CASE NoProcess /\ UNCHANGED testSrc
  BY <1>0, <1>4 DEF NoProcess, ProcessTypes
<1>5. CASE ChildFails \/ ChildFindsNoSource \/ ChildCopyup \/ ChildLogs
  BY <1>5 DEF ChildFails, ChildFindsNoSource, ChildCopyup, ChildLogs, ProcessTypes, disk
<1>6. CASE ChildCopies
  <2>1. tree' \in 0 .. TreeParts
    BY <1>0, <1>6 DEF ChildCopies, ProcessTypes
  <2> QED
    BY <1>6, <2>1 DEF ChildCopies, ProcessTypes, disk
<1>7. CASE ChildWrites
  BY <1>0, <1>7 DEF ChildWrites, ProcessTypes, disk
<1>8. CASE ChildQuits \/ ChildExits
  BY <1>0, <1>8 DEF ChildQuits, ChildExits, ProcessTypes
<1>9. GetAptList \/ ListFails \/ Skip \/ StderrEnds \/ WriteNoSource \/ Restart =>
          UNCHANGED <<testSrc, child, tree, stdout, written>>
  BY DEF GetAptList, StartVm, WaitReady, ListPackages, FetchList, PowerOff, ListFails, Skip,
     StderrEnds, WriteNoSource, Restart, disk, process
<1>10. SortNoSource \/ SortEmpty \/ SortTested \/ NoSummary \/ Crash =>
           NoProcess /\ UNCHANGED testSrc
  BY DEF SortNoSource, SortEmpty, SortTested, NoSummary, Crash, disk
<1> QED
  BY <1>1, <1>2, <1>3, <1>4, <1>5, <1>6, <1>7, <1>8, <1>9, <1>10
  DEF Next, Driver, Child

\* A line fits into the pipe when it is written, and takes no room when it is read.
LEMMA SaidFits ==
    ASSUME PipeTypes, NEW line \in Line, Says(line)
    PROVE  PipeTypes'
<1>1. lines \in Seq(Line) /\ Len(lines) < PipeSize /\ lines' = Append(lines, line)
  BY DEF PipeTypes, Says
<1>2. lines' \in Seq(Line) /\ Len(lines') = Len(lines) + 1 /\ Len(lines) \in Nat
  BY <1>1, AppendProperties, LenProperties
<1> QED
  BY <1>1, <1>2, Sizes DEF PipeTypes

LEMMA PipeTyped == ASSUME PipeTypes, Next PROVE PipeTypes'
<1>1. CASE UNCHANGED lines
  BY <1>1 DEF PipeTypes
<1>2. CASE ReadLine
  <2>1. lines \in Seq(Line) /\ lines # <<>> /\ lines' = Tail(lines) /\ Len(lines) <= PipeSize
    BY <1>2 DEF ReadLine, PipeTypes
  <2>2. lines' \in Seq(Line) /\ Len(lines') = Len(lines) - 1 /\ Len(lines) \in Nat
    BY <2>1, HeadTailProperties, LenProperties
  <2> QED
    BY <2>1, <2>2, Sizes DEF PipeTypes
<1>3. CASE NoProcess
  BY <1>3, EmptySeq, Sizes DEF NoProcess, PipeTypes
<1>4. CASE \E line \in Line : Says(line)
  BY <1>4, SaidFits
<1>5. ChildStep => UNCHANGED lines \/ \E line \in Line : Says(line)
  BY DEF ChildStep, Child, ChildFails, ChildQuits, ChildFindsNoSource, ChildCopyup, ChildLogs,
     ChildCopies, ChildWrites, ChildExits, Line
<1>6. GetAptList \/ ListFails \/ Skip \/ Spawn \/ StderrEnds \/ WriteNoSource \/ Restart =>
          UNCHANGED lines
  BY DEF GetAptList, StartVm, WaitReady, ListPackages, FetchList, PowerOff, ListFails, Skip,
     Spawn, StderrEnds, WriteNoSource, Restart, process
<1>7. SortNoSource \/ SortEmpty \/ SortTested \/ NoSummary \/ Crash => NoProcess
  BY DEF SortNoSource, SortEmpty, SortTested, NoSummary, Crash
<1> QED
  BY <1>1, <1>2, <1>3, <1>4, <1>5, <1>6, <1>7 DEF Next, Driver, ChildStep

LEMMA TypesInductive == Spec => [](DriverTypes /\ ProcessTypes /\ PipeTypes)
<1>1. Init => DriverTypes /\ ProcessTypes /\ PipeTypes
  <2> SUFFICES ASSUME Init PROVE DriverTypes /\ ProcessTypes /\ PipeTypes
    OBVIOUS
  <2>1. DriverTypes
    BY Sizes DEF Init, DriverTypes
  <2>2. ProcessTypes
    <3>1. 0 \in 0 .. TreeParts + 1 /\ 0 \in 0 .. TreeParts
      BY DEF TreeParts
    <3> QED
      BY <3>1, Sizes DEF Init, ProcessTypes
  <2>3. PipeTypes
    BY EmptySeq, Sizes DEF Init, PipeTypes
  <2> QED
    BY <2>1, <2>2, <2>3
<1>2. IInv /\ (DriverTypes /\ ProcessTypes /\ PipeTypes) /\ [Next]_vars
          => (DriverTypes /\ ProcessTypes /\ PipeTypes)'
  <2>1. ASSUME UNCHANGED vars, DriverTypes, ProcessTypes, PipeTypes
        PROVE  (DriverTypes /\ ProcessTypes /\ PipeTypes)'
    BY <2>1 DEF vars, disk, driver, process, DriverTypes, ProcessTypes, PipeTypes
  <2> QED
    BY <2>1, DriverTyped, ProcessTyped, PipeTyped
<1> QED
  BY <1>1, <1>2, Inductive, PTL DEF Spec
-----------------------------------------------------------------------------
(* Where the packages are.                                                 *)

\* What a session may find of a package, or leave.
Left(p) ==
    \/ testRes[p] \in {"no", "failed"} \/ p \in cut
    \/ Kind[p] = "tests" /\ testRes[p] = "complete"
    \/ Kind[p] = "empty" /\ p \in emptyTest /\ testRes[p] = "complete" /\ session > 1

AllLeft == \A p \in Index : Left(p) \/ (p = i /\ at \in {"stderr", "sort"})

\* What has been moved was done, in the first session before the package at hand.
Moved == \A p \in emptyTest : Kind[p] = "empty" /\ (session = 1 => p < i)

NoneFound == \A p \in noSource : Kind[p] = "no source"

\* autopkgtest has said, or the driver has read, that there is no source.
Unable(q) == \E k \in 1 .. Len(q) : q[k] = "unable"

AtWork ==
    at \in {"stderr", "sort"} =>
        /\ child = "started" => testRes[i] = "new"
        /\ child \in {"copyup", "copying", "test"} =>
               testRes[i] = "partial" /\ Kind[i] # "no source"
        /\ child = "exited" => testRes[i] \in {"new", "failed", "complete"}
        /\ child = "exited" /\ testRes[i] = "complete" /\ Kind[i] = "no source" =>
               i \in noSource \/ Unable(lines)
        /\ Unable(lines) => Kind[i] = "no source"
        /\ at = "sort" => ~Unable(lines)

Idle == child = "none" => ~Unable(lines)

Sorted == AllLeft /\ Moved /\ NoneFound /\ AtWork /\ Idle /\ AllSorted

LEMMA NoneUnable == ~Unable(<<>>)
  BY DEF Unable

LEMMA UnableSaid ==
    ASSUME NEW q \in Seq(Line), NEW l \in Line
    PROVE  Unable(Append(q, l)) <=> Unable(q) \/ l = "unable"
<1>1. /\ Len(q) \in Nat /\ Len(Append(q, l)) = Len(q) + 1 /\ Append(q, l)[Len(q) + 1] = l
      /\ \A k \in 1 .. Len(q) : Append(q, l)[k] = q[k]
  BY AppendProperties, LenProperties
<1>2. ASSUME l = "unable" PROVE Unable(Append(q, l))
  <2>1. Len(q) + 1 \in 1 .. Len(Append(q, l))
    BY <1>1
  <2> QED
    BY <1>1, <1>2, <2>1 DEF Unable
<1>3. ASSUME Unable(q) PROVE Unable(Append(q, l))
  <2>1. PICK k \in 1 .. Len(q) : q[k] = "unable"
    BY <1>3 DEF Unable
  <2>2. k \in 1 .. Len(Append(q, l))
    BY <1>1
  <2> QED
    BY <1>1, <2>1, <2>2 DEF Unable
<1>4. ASSUME Unable(Append(q, l)) PROVE Unable(q) \/ l = "unable"
  <2>1. PICK k \in 1 .. Len(Append(q, l)) : Append(q, l)[k] = "unable"
    BY <1>4 DEF Unable
  <2>2. k \in 1 .. Len(q) \/ k = Len(q) + 1
    BY <1>1
  <2> QED
    BY <1>1, <2>1, <2>2 DEF Unable
<1> QED
  BY <1>2, <1>3, <1>4

LEMMA UnableRead ==
    ASSUME NEW q \in Seq(Line), q # <<>>
    PROVE  Unable(q) <=> Head(q) = "unable" \/ Unable(Tail(q))
<1>1. /\ Len(q) \in Nat \ {0} /\ Len(Tail(q)) = Len(q) - 1 /\ Head(q) = q[1]
      /\ \A k \in 1 .. Len(q) - 1 : Tail(q)[k] = q[k + 1]
  BY HeadTailProperties, LenProperties, EmptySeq
<1>2. ASSUME Unable(q) PROVE Head(q) = "unable" \/ Unable(Tail(q))
  <2>1. PICK k \in 1 .. Len(q) : q[k] = "unable"
    BY <1>2 DEF Unable
  <2>2. CASE k = 1
    BY <1>1, <2>1, <2>2
  <2>3. CASE k # 1
    <3>1. k - 1 \in 1 .. Len(Tail(q)) /\ Tail(q)[k - 1] = q[k]
      BY <1>1, <2>3
    <3> QED
      BY <2>1, <3>1 DEF Unable
  <2> QED
    BY <2>2, <2>3
<1>3. ASSUME Head(q) = "unable" PROVE Unable(q)
  <2>1. 1 \in 1 .. Len(q)
    BY <1>1
  <2> QED
    BY <1>1, <1>3, <2>1 DEF Unable
<1>4. ASSUME Unable(Tail(q)) PROVE Unable(q)
  <2>1. PICK k \in 1 .. Len(Tail(q)) : Tail(q)[k] = "unable"
    BY <1>4 DEF Unable
  <2>2. k + 1 \in 1 .. Len(q) /\ q[k + 1] = "unable"
    BY <1>1, <2>1
  <2> QED
    BY <2>2 DEF Unable
<1> QED
  BY <1>2, <1>3, <1>4

\* Only the end of a session has all packages sorted.
LEMMA NotEnded == ASSUME Moved, at # "ended" PROVE AllSorted
  BY DEF Moved, AllSorted, NoneMisplaced

LEMMA ChildSorts ==
    ASSUME IInv, PipeTypes, Sorted, ChildStep PROVE Sorted'
<1>1. /\ at = "stderr" /\ child' # "none" /\ at' = at /\ i' = i /\ noSource' = noSource
      /\ session' = session /\ emptyTest' = emptyTest /\ cut' = cut
  <2>1. at = "stderr" /\ child' # "none" /\ UNCHANGED <<emptyTest, noSourceFile, driver>>
    BY ChildTouches DEF IInv
  <2>2. cut' = cut
    BY DEF ChildStep, Child, ChildFails, ChildQuits, ChildFindsNoSource, ChildCopyup,
       ChildLogs, ChildCopies, ChildWrites, ChildExits
  <2> QED
    BY <2>1, <2>2 DEF driver
<1>2. i \in Index /\ \A p \in Index : p # i => testRes'[p] = testRes[p]
  BY <1>1, ChildTouches DEF IInv, Typed, AtHand
<1>3. AllLeft' /\ Moved' /\ NoneFound'
  BY <1>1, <1>2 DEF Sorted, AllLeft, Left, Moved, NoneFound
<1>4. lines \in Seq(Line) /\ testRes \in [Index -> {"no", "new", "partial", "failed", "complete"}]
  BY DEF PipeTypes, IInv, Typed
<1>5. \A l \in Line : Says(l) => (Unable(lines') <=> Unable(lines) \/ l = "unable")
  BY <1>4, UnableSaid DEF Says
<1>6. AtWork'
  <2> USE <1>1, <1>2, <1>4, <1>5 DEF Sorted, AtWork, Line
  <2>1. CASE ChildFails
    BY <2>1 DEF ChildFails, disk
  <2>2. CASE ChildQuits
    BY <2>2 DEF ChildQuits
  <2>3. CASE ChildFindsNoSource
    BY <2>3 DEF ChildFindsNoSource
  <2>4. CASE ChildCopyup
    BY <2>4 DEF ChildCopyup
  <2>5. CASE ChildLogs
    BY <2>5 DEF ChildLogs, disk
  <2>6. CASE ChildCopies
    BY <2>6 DEF ChildCopies, disk
  <2>7. CASE ChildWrites
    BY <2>7 DEF ChildWrites, disk
  <2>8. CASE ChildExits
    BY <2>8 DEF ChildExits
  <2> QED
    BY <2>1, <2>2, <2>3, <2>4, <2>5, <2>6, <2>7, <2>8 DEF ChildStep, Child
<1>7. Idle' /\ AllSorted'
  BY <1>1, <1>3, NotEnded DEF Idle, Moved, AllSorted, NoneMisplaced
<1> QED
  BY <1>3, <1>6, <1>7 DEF Sorted

\* The steps that move on from a package.
LEMMA NextPackage ==
    ASSUME IInv, DriverTypes, Sorted, SortNoSource \/ SortEmpty \/ SortTested PROVE Sorted'
<1>1. /\ at = "sort" /\ at' = "pkg" /\ i' = i + 1 /\ child' = "none" /\ lines' = <<>>
      /\ noSource' = noSource /\ session' = session /\ cut' = cut
  BY DEF SortNoSource, SortEmpty, SortTested, NoProcess
<1>2. i \in Index /\ child = "exited" /\ ~Unable(lines)
  <2>1. i \in Index
    BY <1>1, LengthIsNat DEF IInv, Typed, AtHand
  <2>2. child = "exited"
    BY <1>1 DEF IInv, ChildWaitedFor
  <2>3. ~Unable(lines)
    BY <1>1 DEF Sorted, AtWork
  <2> QED
    BY <2>1, <2>2, <2>3
<1>3. /\ \A p \in Index : p # i => testRes'[p] = testRes[p]
      /\ emptyTest' \in {emptyTest, emptyTest \cup {i}}
      /\ emptyTest' # emptyTest => Kind[i] = "empty"
  BY DEF SortNoSource, SortEmpty, SortTested, IInv, Typed, disk
<1>4. ASSUME NEW p \in Index, p = i PROVE Left(p)'
  <2> USE <1>4
  <2>1. CASE SortNoSource
    BY <1>2, <2>1 DEF SortNoSource, IInv, Typed, Left
  <2>2. CASE SortEmpty
    <3>1. i \in emptyTest => session > 1
      BY <1>2 DEF Sorted, Moved, DriverTypes
    <3> QED
      BY <1>1, <2>2, <3>1 DEF SortEmpty, IInv, Typed, Left
  <2>3. CASE SortTested
    <3>1. testRes[i] = "failed" \/ (testRes[i] = "complete" /\ Kind[i] = "tests")
      BY <1>1, <1>2, <2>3, BatchAssumption DEF SortTested, Sorted, AtWork
    <3> QED
      BY <2>3, <3>1 DEF SortTested, Left, disk
  <2> QED
    BY <2>1, <2>2, <2>3
<1>5. AllLeft'
  BY <1>1, <1>3, <1>4 DEF Sorted, AllLeft, Left
<1>6. Moved' /\ NoneFound'
  <2>1. i \in Nat /\ i < i + 1
    BY <1>2, LengthIsNat
  <2>2. ASSUME NEW p \in emptyTest' PROVE Kind[p] = "empty" /\ (session' = 1 => p < i')
    <3>1. CASE p = i
      BY <1>1, <1>3, <2>1, <3>1 DEF Sorted, Moved
    <3>2. CASE p \in emptyTest
      BY <1>1, <2>1, <3>2, LengthIsNat DEF Sorted, Moved, DriverTypes
    <3> QED
      BY <1>3, <3>1, <3>2
  <2> QED
    BY <1>1, <2>2 DEF Sorted, Moved, NoneFound
<1>7. AtWork' /\ Idle' /\ AllSorted'
  BY <1>1, <1>6, NoneUnable DEF AtWork, Idle, Moved, AllSorted, NoneMisplaced
<1> QED
  BY <1>5, <1>6, <1>7 DEF Sorted

\* The end of the list.
LEMMA EndSorts == ASSUME IInv, DriverTypes, Sorted, WriteNoSource PROVE Sorted'
<1>1. /\ at = "pkg" /\ i = listed + 1 /\ at' = "ended" /\ noSourceFile' = noSource
      /\ UNCHANGED <<testRes, emptyTest, session, listed, i, noSource, child, lines, cut>>
  BY DEF WriteNoSource, process
<1>2. AllLeft' /\ Moved' /\ NoneFound' /\ AtWork' /\ Idle'
  BY <1>1 DEF Sorted, AllLeft, Left, Moved, NoneFound, AtWork, Idle
<1>3. \A p \in noSource : Kind[p] = "no source" /\ testRes[p] = "no"
  BY <1>1 DEF IInv, Behind, Sorted, NoneFound
<1>4. ASSUME NEW p \in 1 .. listed
      PROVE  Placed(p)' \/ (p \in cut /\ testRes[p] # "no")
  <2>1. p \in Index /\ p < i
    BY <1>1, LengthIsNat DEF IInv, Typed
  <2>2. Left(p)
    BY <1>1, <2>1 DEF Sorted, AllLeft
  <2>3. testRes[p] = "no" => (p \in emptyTest /\ Kind[p] = "empty")
                             \/ (p \in noSource /\ Kind[p] = "no source")
    BY <1>1, <2>1 DEF IInv, Behind, Sorted, Moved, NoneFound
  <2> QED
    BY <1>1, <2>2, <2>3 DEF Left, Placed
<1>5. AllSorted'
  BY <1>1, <1>2, <1>3, <1>4 DEF AllSorted, NoneMisplaced, Moved
<1> QED
  BY <1>2, <1>5 DEF Sorted

LEMMA DriverSorts ==
    ASSUME IInv, DriverTypes, PipeTypes, Sorted, Driver PROVE Sorted'
<1>1. CASE Skip
  <2>1. /\ at = "pkg" /\ at' = "pkg" /\ i' = i + 1 /\ i \in Nat
        /\ UNCHANGED <<testRes, emptyTest, session, noSource, child, lines, cut>>
    BY <1>1 DEF Skip, disk, process, IInv, Typed
  <2>2. AllLeft' /\ NoneFound' /\ AtWork' /\ Idle'
    BY <2>1 DEF Sorted, AllLeft, Left, NoneFound, AtWork, Idle
  <2>3. Moved'
    BY <2>1 DEF Sorted, Moved, DriverTypes
  <2>4. AllSorted'
    BY <2>1, <2>3 DEF Moved, AllSorted, NoneMisplaced
  <2> QED
    BY <2>2, <2>3, <2>4 DEF Sorted
<1>2. CASE Spawn
  <2>1. /\ at = "pkg" /\ at' = "stderr" /\ child = "none" /\ child' = "started"
        /\ testRes' = [testRes EXCEPT ![i] = "new"]
        /\ UNCHANGED <<emptyTest, session, i, noSource, lines, cut>>
    BY <1>2 DEF Spawn, IInv, ChildWaitedFor
  <2>2. i \in Index
    BY <1>2 DEF Spawn, IInv, Typed
  <2>3. AllLeft' /\ Moved' /\ NoneFound'
    BY <2>1, <2>2 DEF Sorted, AllLeft, Left, Moved, NoneFound, IInv, Typed
  <2>4. AtWork' /\ Idle'
    BY <2>1, <2>2 DEF Sorted, AtWork, Idle, IInv, Typed
  <2>5. AllSorted'
    BY <2>1, <2>3 DEF Moved, AllSorted, NoneMisplaced
  <2> QED
    BY <2>3, <2>4, <2>5 DEF Sorted
<1>3. CASE ReadLine
  <2>1. /\ at = "stderr" /\ at' = "stderr" /\ lines # <<>> /\ lines' = Tail(lines)
        /\ noSource' = IF Head(lines) = "unable" THEN noSource \cup {i} ELSE noSource
        /\ UNCHANGED <<testRes, emptyTest, session, i, child, cut>>
    BY <1>3 DEF ReadLine
  <2>2. Unable(lines) <=> Head(lines) = "unable" \/ Unable(lines')
    BY <2>1, UnableRead DEF PipeTypes
  <2>3. AllLeft' /\ Moved'
    BY <2>1 DEF Sorted, AllLeft, Left, Moved
  <2>4. NoneFound' /\ AtWork' /\ Idle'
    BY <2>1, <2>2 DEF Sorted, NoneFound, AtWork, Idle
  <2>5. AllSorted'
    BY <2>1, <2>3 DEF Moved, AllSorted, NoneMisplaced
  <2> QED
    BY <2>3, <2>4, <2>5 DEF Sorted
<1>4. CASE StderrEnds
  <2>1. /\ at = "stderr" /\ at' = "sort" /\ lines = <<>>
        /\ UNCHANGED <<testRes, emptyTest, session, i, noSource, child, lines, cut>>
    BY <1>4 DEF StderrEnds, disk, process
  <2>2. AllLeft' /\ Moved' /\ NoneFound' /\ AtWork' /\ Idle'
    BY <2>1, NoneUnable DEF Sorted, AllLeft, Left, Moved, NoneFound, AtWork, Idle
  <2>3. AllSorted'
    BY <2>1, <2>2 DEF Moved, AllSorted, NoneMisplaced
  <2> QED
    BY <2>2, <2>3 DEF Sorted
<1>5. CASE NoSummary
  <2>1. /\ at = "sort" /\ at' = "died" /\ cut' = cut \cup {i} /\ lines' = <<>>
        /\ UNCHANGED <<testRes, emptyTest, session, i, noSource>>
    BY <1>5 DEF NoSummary, NoProcess, disk
  <2>2. AllLeft' /\ Moved' /\ NoneFound' /\ AtWork' /\ Idle'
    BY <2>1, NoneUnable DEF Sorted, AllLeft, Left, Moved, NoneFound, AtWork, Idle
  <2>3. AllSorted'
    BY <2>1, <2>2 DEF Moved, AllSorted, NoneMisplaced
  <2> QED
    BY <2>2, <2>3 DEF Sorted
<1> QED
  BY <1>1, <1>2, <1>3, <1>4, <1>5, NextPackage, EndSorts DEF Driver

LEMMA OthersSort ==
    ASSUME IInv, DriverTypes, Sorted, GetAptList \/ ListFails \/ Crash \/ Restart PROVE Sorted'
<1>1. CASE GetAptList \/ ListFails
  <2>1. /\ at \notin {"stderr", "sort", "ended"} /\ at' \notin {"stderr", "sort", "ended"}
        /\ UNCHANGED <<testRes, emptyTest, session, i, noSource, child, lines, cut>>
    BY <1>1 DEF GetAptList, StartVm, WaitReady, ListPackages, FetchList, PowerOff, ListFails,
       disk, process
  <2>2. AllLeft' /\ Moved' /\ NoneFound' /\ AtWork' /\ Idle'
    BY <2>1 DEF Sorted, AllLeft, Left, Moved, NoneFound, AtWork, Idle
  <2>3. AllSorted'
    BY <2>1, <2>2 DEF Moved, AllSorted, NoneMisplaced
  <2> QED
    BY <2>2, <2>3 DEF Sorted
<1>2. CASE Crash
  <2>1. /\ at' = "died" /\ lines' = <<>> /\ cut \subseteq cut'
        /\ at \in {"stderr", "sort"} => i \in cut'
        /\ \A p \in Index : testRes'[p] = testRes[p] \/ p \in cut'
        /\ UNCHANGED <<emptyTest, session, i, noSource>>
    BY <1>2 DEF Crash, NoProcess, IInv, Typed
  <2>2. AllLeft' /\ Moved' /\ NoneFound' /\ AtWork' /\ Idle'
    BY <2>1, NoneUnable DEF Sorted, AllLeft, Left, Moved, NoneFound, AtWork, Idle
  <2>3. AllSorted'
    BY <2>1, <2>2 DEF Moved, AllSorted, NoneMisplaced
  <2> QED
    BY <2>2, <2>3 DEF Sorted
<1>3. CASE Restart
  <2>1. /\ at \in {"ended", "died"} /\ at' = "pkg" /\ noSource' = {} /\ session' = session + 1
        /\ UNCHANGED <<testRes, emptyTest, child, lines, cut>>
    BY <1>3 DEF Restart, disk, process
  <2>2. session' > 1 /\ session' # 1
    BY <2>1 DEF DriverTypes
  <2>3. AllLeft' /\ Moved' /\ NoneFound' /\ AtWork' /\ Idle'
    <3>1. ASSUME NEW p \in Index PROVE Left(p)'
      BY <2>1, <2>2 DEF Sorted, AllLeft, Left
    <3>2. AllLeft'
      BY <3>1 DEF AllLeft
    <3>3. Moved'
      BY <2>1, <2>2 DEF Sorted, Moved
    <3> QED
      BY <2>1, <3>2, <3>3 DEF Sorted, NoneFound, AtWork, Idle
  <2>4. AllSorted'
    BY <2>1, <2>3 DEF Moved, AllSorted, NoneMisplaced
  <2> QED
    BY <2>3, <2>4 DEF Sorted
<1> QED
  BY <1>1, <1>2, <1>3

LEMMA SortedInductive == Spec => []Sorted
<1>1. ASSUME Init PROVE Sorted
  <2>1. AllLeft /\ Moved /\ NoneFound /\ AtWork /\ Idle
    BY <1>1, NoneUnable DEF Init, AllLeft, Left, Moved, NoneFound, AtWork, Idle
  <2> QED
    BY <1>1, <2>1 DEF Init, Sorted, AllSorted, NoneMisplaced
<1>2. IInv /\ (DriverTypes /\ ProcessTypes /\ PipeTypes) /\ Sorted /\ [Next]_vars => Sorted'
  <2>1. ASSUME Sorted, UNCHANGED vars PROVE Sorted'
    BY <2>1 DEF vars, disk, driver, process, Sorted, AllLeft, Left, Moved, NoneFound, AtWork,
       Idle, AllSorted, NoneMisplaced, Placed
  <2> QED
    BY <2>1, ChildSorts, DriverSorts, OthersSort DEF Next, ChildStep
<1> QED
  BY <1>1, <1>2, Inductive, TypesInductive, PTL DEF Spec
-----------------------------------------------------------------------------
(* Theorems.                                                               *)

\* Every variable has its type, for any list and any number of sessions; the
\* pipes never hold more than they have room for.
THEOREM TypeCorrect == Spec => []TypeOK
<1>1. IInv /\ DriverTypes /\ ProcessTypes /\ PipeTypes => TypeOK
  BY FourParts DEF IInv
<1> QED
  BY <1>1, Inductive, TypesInductive, PTL

\* AllSorted: a session that works its list through leaves each package where it
\* belongs, but for those at which a session died and those without tests that are
\* tested again; for any list and any number of sessions, cut off anywhere.
THEOREM PackagesSorted == Spec => []AllSorted
  BY SortedInductive, PTL DEF Sorted

\* ResultsKept: no session takes away or repeats a complete result, except that of
\* the package it has just tested.
THEOREM CompleteStays == Spec => ResultsKept
<1>1. ASSUME IInv, [Next]_vars, NEW p \in Index, testRes[p] = "complete",
             at \in {"pkg", "ended", "died"}
      PROVE  testRes'[p] = "complete"
  <2>1. ~ChildStep
    BY <1>1, ChildTouches DEF IInv
  <2>2. UNCHANGED testRes \/ Spawn
    BY <1>1, <2>1 DEF Next, ChildStep, GetAptList, StartVm, WaitReady, ListPackages,
       FetchList, PowerOff, ListFails, Driver, Skip, ReadLine, StderrEnds, SortNoSource,
       SortEmpty, SortTested, NoSummary, WriteNoSource, Crash, Restart, vars, disk
  <2>3. CASE Spawn
    BY <1>1, <2>3 DEF Spawn, IInv, Typed
  <2> QED
    BY <1>1, <2>2, <2>3
<1>2. IInv /\ [Next]_vars =>
          [\A p \in Index : testRes[p] = "complete" /\ at \in {"pkg", "ended", "died"} =>
              testRes'[p] = "complete"]_vars
  BY <1>1
<1> QED
  BY <1>2, Inductive, PTL DEF Spec, ResultsKept
=============================================================================
