--------------------------- MODULE RunTestsProofs ---------------------------
(***************************************************************************)
(* What run_tests() promises, for any packages, restrictions, capabilities *)
(* and number of tests.  Each property has an invariant of its own that    *)
(* says what is true at every point of the loop; IInv is all of them.      *)
(***************************************************************************)
EXTENDS RunTests, TLAPS

USE PkgAssumption, RestrictionAssumption, CapSetAssumption, MaxTestsAssumption

Clean == ~broken /\ (sudo => image_sudo)

\* How far a testbed that can revert is from pristine, at each point: a trace
\* that reset() does not know of from deps_installed is known from modified.
IsolatedInv ==
    "revert" \in caps =>
        /\ at \in {"begin", "binaries", "unpack"} => installed = {} /\ Clean
        /\ at \in {"build", "parse", "next"} =>
                modified \/ (installed \subseteq deps_installed \cup {"tools"} /\ Clean)
        /\ at \in {"publish", "install", "restrict"} => ~modified /\ Clean
        /\ at \in {"publish", "install", "restrict", "run", "after"} =>
                installed \subseteq test.deps \cup {"tools"}
        /\ at \in {"restrict", "run", "after"} => deps_installed = test.deps
        /\ at \in {"run", "after"} =>
                /\ modified => Has("needs-sudo")
                /\ modified \/ (sudo => image_sudo)
        /\ at = "run" => ~broken
        /\ at = "after" => (broken => Has("breaks-testbed"))

\* What the steps before "run" have already provided.
ProvidedInv ==
    /\ at \in {"restrict", "run"} /\ CanApt => test.deps \subseteq installed
    /\ tried_provide_sudo = "yes" => sudo
    /\ at = "run" /\ Has("needs-sudo") => tried_provide_sudo = "yes"
    /\ at \in {"install", "restrict", "run"} => (registered => published)

\* The runner remembers that apt is set up, where it cannot revert.
AptInv ==
    /\ "revert" \notin caps => (published => need_apt_reset)
    /\ AptRestored

\* The bits that run_tests() has set, as a function of the verdicts.
Bits(v) == (IF v \cap {"skip", "flaky"} # {} THEN {2} ELSE {})
            \cup (IF "fail" \in v THEN {4} ELSE {})
            \cup (IF "badpkg" \in v THEN {4, 8} ELSE {})

Looping == at \in {"next", "publish", "install", "restrict", "run", "after"}
Ending  == at \in {"testinfo", "cleanup", "exited"}
Correct == IF faults = {} THEN errorcode = Documented(seen)
           ELSE \E f \in faults : errorcode = StatusOf(f)

ExitInv ==
    /\ ~Ending => faults = {}
    /\ ~Ending /\ ~Looping => errorcode = {} /\ seen = {}
    /\ Looping => /\ errorcode = Bits(seen)
                  /\ "valid" \notin seen
                  /\ any_positive <=> "pass" \in seen
    /\ Ending => Correct

IInv == TypeOK /\ IsolatedInv /\ ProvidedInv /\ AptInv /\ ExitInv
-----------------------------------------------------------------------------
LEMMA StatusType == \A f : StatusOf(f) \in SUBSET {2, 4, 8, 16}
  BY DEF StatusOf

LEMMA RaiseType ==
    ASSUME TypeOK, NEW f \in Fault, Raise(f)
    PROVE  /\ at' = "testinfo" /\ errorcode' \in SUBSET {2, 4, 8, 16}
           /\ faults' \in SUBSET Fault /\ stop_sent' \in BOOLEAN
  BY StatusType DEF TypeOK, Raise, Goto

LEMMA FailsType ==
    ASSUME TypeOK, NEW F \in SUBSET Fault, Fails(F)
    PROVE  TypeOK'
  <1>1. PICK f \in F : Raise(f)
    BY DEF Fails
  <1>2. /\ at' = "testinfo" /\ errorcode' \in SUBSET {2, 4, 8, 16}
        /\ faults' \in SUBSET Fault /\ stop_sent' \in BOOLEAN
    BY <1>1, RaiseType
  <1>3. QED BY <1>2 DEF TypeOK, Fails, given, debs, real

LEMMA ReportType ==
    ASSUME TypeOK, NEW v \in Verdict, Report(v)
    PROVE  seen' \in SUBSET Verdict
  BY DEF TypeOK, Report

\* Every action keeps the types.
LEMMA TypeStep == TypeOK /\ [Next]_vars => TypeOK'
  <1> SUFFICES ASSUME TypeOK, [Next]_vars PROVE TypeOK'
    OBVIOUS
  <1> USE DEF given, client, debs, real, result, Goto
  <1>1. CASE Open
    <2>1. Fault \in SUBSET Fault
      OBVIOUS
    <2>2. CASE Fails(Fault)
      BY <2>1, <2>2, FailsType
    <2>3. CASE Goto("binaries") /\ UNCHANGED <<given, test, left, client, debs, real, result>>
      BY <2>3 DEF TypeOK
    <2>4. QED BY <1>1, <2>2, <2>3 DEF Open
  <1>2. CASE RegisterBinary
    <2>1. {"badpkg", "unexpected"} \in SUBSET Fault
      BY DEF Fault
    <2>2. CASE Fails({"badpkg", "unexpected"})
      BY <2>1, <2>2, FailsType
    <2>3. CASE /\ registered' = TRUE
               /\ UNCHANGED <<at, given, test, left, client, need_apt_reset, real, result>>
      BY <2>3 DEF TypeOK
    <2>4. QED BY <1>2, <2>2, <2>3 DEF RegisterBinary
  <1>3. CASE StartSource
    BY <1>3 DEF StartSource, TypeOK
  <1>4. CASE Unpack
    <2>1. Fault \in SUBSET Fault
      OBVIOUS
    <2>2. CASE Fails(Fault)
      BY <2>1, <2>2, FailsType
    <2>3. CASE /\ modified' = FALSE /\ deps_installed' = {}
               /\ installed' \in {installed} \cup IF CanApt THEN {installed \cup {"tools"}} ELSE {}
               /\ at' \in {"build", "parse"}
               /\ UNCHANGED <<given, test, left, tried_provide_sudo, stop_sent, debs,
                              sudo, broken, published, result>>
      <3>1. installed' \in SUBSET (Pkg \cup Extra)
        BY <2>3 DEF TypeOK, Extra
      <3>2. /\ modified' \in BOOLEAN /\ deps_installed' \in SUBSET Pkg
            /\ UNCHANGED <<given, test, left, tried_provide_sudo, stop_sent, debs,
                           sudo, broken, published, result>>
        BY <2>3
      <3>3. at' = "build" \/ at' = "parse"
        BY <2>3
      <3>4. QED BY <3>1, <3>2, <3>3 DEF TypeOK
    <2>4. QED BY <1>4, <2>2, <2>3 DEF Unpack
  <1>5. CASE Build
    <2>1. Fault \in SUBSET Fault
      OBVIOUS
    <2>2. CASE Fails(Fault)
      BY <2>1, <2>2, FailsType
    <2>3. CASE /\ modified' = TRUE /\ deps_installed' = {}
               /\ installed' = IF CanApt THEN installed \cup {"builddeps"} ELSE installed
               /\ registered' \in {registered, TRUE}
               /\ Goto("parse")
               /\ UNCHANGED <<given, test, left, tried_provide_sudo, stop_sent,
                              need_apt_reset, sudo, broken, published, result>>
      <3>1. installed' \in SUBSET (Pkg \cup Extra)
        BY <2>3 DEF TypeOK, Extra
      <3>2. registered' \in BOOLEAN
        BY <2>3 DEF TypeOK
      <3>3. QED BY <2>3, <3>1, <3>2 DEF TypeOK
    <2>4. QED BY <1>5, <2>2, <2>3 DEF Build
  <1>6. CASE ParseTests
    <2>1. {"badpkg", "unexpected"} \in SUBSET Fault
      BY DEF Fault
    <2>2. CASE Fails({"badpkg", "unexpected"})
      BY <2>1, <2>2, FailsType
    <2>3. CASE /\ Report("valid") /\ Goto("testinfo")
               /\ UNCHANGED <<given, test, left, client, debs, real, errorcode,
                              any_positive, faults, lost>>
      BY <2>3, ReportType DEF TypeOK, Verdict
    <2>4. CASE \E n \in 0..MaxTests, skipped \in BOOLEAN :
                 /\ seen' = IF skipped THEN seen \cup {"skip"} ELSE seen
                 /\ \/ n = 0 /\ errorcode' = {8} /\ Goto("testinfo")
                    \/ n > 0 /\ Goto("next") /\
                       errorcode' = IF skipped THEN errorcode \cup {2} ELSE errorcode
                 /\ left' = n
                 /\ any_positive' = FALSE
                 /\ UNCHANGED <<given, test, client, debs, real, faults, lost>>
      <3>1. /\ seen' \in SUBSET Verdict /\ left' \in 0..MaxTests
            /\ any_positive' \in BOOLEAN
            /\ UNCHANGED <<given, test, client, debs, real, faults, lost>>
        BY <2>4 DEF TypeOK, Verdict
      <3>2. errorcode' \in SUBSET {2, 4, 8, 16} /\ at' \in {"next", "testinfo"}
        BY <2>4 DEF TypeOK
      <3>3. CASE at' = "next"
        BY <3>1, <3>2, <3>3 DEF TypeOK
      <3>4. CASE at' = "testinfo"
        BY <3>1, <3>2, <3>4 DEF TypeOK
      <3>5. QED BY <3>2, <3>3, <3>4
    <2>5. QED BY <1>6, <2>2, <2>3, <2>4 DEF ParseTests
  <1>7. CASE NextTest
    <2>1. CASE Fails(IF stop_sent THEN {"testbed"} ELSE Fault)
      <3>1. (IF stop_sent THEN {"testbed"} ELSE Fault) \in SUBSET Fault
        BY DEF Fault
      <3>2. QED BY <2>1, <3>1, FailsType
    <2>2. CASE ~Fails(IF stop_sent THEN {"testbed"} ELSE Fault)
      <3>1. left' \in 0..MaxTests
        BY <1>7, <2>2 DEF NextTest, MoreTests, TypeOK
      <3>2. /\ test' \in Test /\ modified' = FALSE /\ at' = "publish"
            /\ UNCHANGED <<given, stop_sent, debs, result>>
        BY <1>7, <2>2 DEF NextTest
      <3>3. Revert \/ UNCHANGED <<deps_installed, tried_provide_sudo, real>>
        BY <1>7, <2>2 DEF NextTest
      <3>4. CASE Revert
        BY <3>1, <3>2, <3>4 DEF Revert, TypeOK
      <3>5. CASE UNCHANGED <<deps_installed, tried_provide_sudo, real>>
        BY <3>1, <3>2, <3>5 DEF TypeOK
      <3>6. QED BY <3>3, <3>4, <3>5
    <2>3. QED BY <2>1, <2>2
  <1>8. CASE Publish
    <2>1. CASE ~registered
      <3>1. Goto("install") /\ UNCHANGED <<given, test, left, client, debs, real, result>>
        BY <1>8, <2>1 DEF Publish
      <3>2. QED BY <3>1 DEF TypeOK
    <2>2. CASE Fails(IF stop_sent THEN {"unexpected"} ELSE {"testbed", "autopkgtest"})
      <3>1. (IF stop_sent THEN {"unexpected"} ELSE {"testbed", "autopkgtest"}) \in SUBSET Fault
        BY DEF Fault
      <3>2. QED BY <2>2, <3>1, FailsType
    <2>3. CASE /\ registered
               /\ ~Fails(IF stop_sent THEN {"unexpected"} ELSE {"testbed", "autopkgtest"})
      <3>1. /\ installed' \in SUBSET (Pkg \cup Extra) /\ published' = TRUE
            /\ need_apt_reset' = TRUE
            /\ UNCHANGED <<given, test, left, registered, sudo, broken, modified,
                           deps_installed, tried_provide_sudo, any_positive, seen, lost>>
        BY <1>8, <2>3 DEF Publish, TypeOK, Extra
      <3>2. CASE \E f \in Fault : Raise(f)
        BY <3>1, <3>2, RaiseType DEF TypeOK
      <3>3. CASE ~\E f \in Fault : Raise(f)
        <4>1. Goto("install") /\ UNCHANGED <<client, result>>
          BY <1>8, <2>3, <3>3 DEF Publish
        <4>2. QED BY <3>1, <4>1 DEF TypeOK
      <3>4. QED BY <3>2, <3>3
    <2>4. QED BY <2>1, <2>2, <2>3
  <1>9. CASE Install
    <2>1. /\ deps_installed' \in SUBSET Pkg
          /\ UNCHANGED <<given, test, left, modified, tried_provide_sudo, debs, sudo,
                         broken, published, any_positive, lost>>
      BY <1>9 DEF Install, TypeOK, Test, NoTest
    <2>2. installed' \in SUBSET (Pkg \cup Extra)
      BY <1>9 DEF Install, TypeOK, Test, NoTest
    <2>3. CASE \E f \in Fault \ {"badpkg"} : Raise(f) /\ UNCHANGED seen
      BY <2>1, <2>2, <2>3, RaiseType DEF TypeOK
    <2>4. CASE Goto("restrict") /\ UNCHANGED <<errorcode, seen, stop_sent, faults>>
      BY <2>1, <2>2, <2>4 DEF TypeOK
    <2>5. CASE NotInstallable /\ UNCHANGED <<stop_sent, faults>>
      <3>1. /\ seen' \in SUBSET Verdict /\ errorcode' \in SUBSET {2, 4, 8, 16}
            /\ at' = "after"
        BY <2>5 DEF NotInstallable, Report, TypeOK, Verdict
      <3>2. QED BY <2>1, <2>2, <2>5, <3>1 DEF TypeOK
    <2>6. QED BY <1>9, <2>3, <2>4, <2>5 DEF Install
  <1>10. CASE Restrict
    <2>1. UNCHANGED <<given, test, left, deps_installed, debs, installed, broken,
                      published, any_positive, lost>>
      BY <1>10 DEF Restrict
    <2>2. /\ tried_provide_sudo' \in {"no", "yes", "refused"}
          /\ modified' \in BOOLEAN /\ sudo' \in BOOLEAN
      BY <1>10 DEF Restrict, TypeOK
    <2>3. CASE \E f \in {"testbed", "unexpected"} : Raise(f) /\ UNCHANGED seen
      BY <2>1, <2>2, <2>3, RaiseType DEF TypeOK, Fault
    <2>4. CASE Goto("run") /\ UNCHANGED <<errorcode, seen, stop_sent, faults>>
      BY <2>1, <2>2, <2>4 DEF TypeOK
    <2>5. CASE Unsupported /\ UNCHANGED <<stop_sent, faults>>
      <3>1. /\ seen' \in SUBSET Verdict /\ errorcode' \in SUBSET {2, 4, 8, 16}
            /\ at' = "after"
        BY <2>5 DEF Unsupported, Report, TypeOK, Verdict
      <3>2. QED BY <2>1, <2>2, <2>5, <3>1 DEF TypeOK
    <2>6. QED BY <1>10, <2>3, <2>4, <2>5 DEF Restrict
  <1>11. CASE Run
    <2>1. CASE Fails(Fault)
      BY <2>1, FailsType
    <2>2. CASE ~Fails(Fault)
      <3>1. PICK o \in {"pass", "fail", "skip"} :
                /\ Report(Judge(o))
                /\ \/ /\ errorcode' = errorcode \cup
                            CASE Judge(o) \in {"skip", "flaky"} -> {2}
                              [] Judge(o) = "fail" -> {4}
                              [] OTHER -> {}
                      /\ any_positive' = (any_positive \/ Judge(o) = "pass")
                      /\ Goto("after")
                      /\ \/ UNCHANGED <<stop_sent, lost>>
                         \/ o = "fail" /\ stop_sent' = TRUE /\ lost' = TRUE
                      /\ UNCHANGED faults
                   \/ /\ \E f \in {"testbed", "autopkgtest", "unexpected"} : Raise(f)
                      /\ UNCHANGED <<any_positive, lost>>
        BY <1>11, <2>2 DEF Run
      <3>2. /\ broken' \in BOOLEAN
            /\ UNCHANGED <<given, test, left, modified, deps_installed,
                           tried_provide_sudo, debs, installed, sudo, published>>
        BY <1>11, <2>2 DEF Run, TypeOK, Has
      <3>3. Judge(o) \in Verdict
        BY DEF Judge, Verdict
      <3>4. seen' \in SUBSET Verdict
        BY <3>1, <3>3, ReportType
      <3>5. CASE \E f \in {"testbed", "autopkgtest", "unexpected"} : Raise(f)
        <4>1. /\ at' = "testinfo" /\ errorcode' \in SUBSET {2, 4, 8, 16}
              /\ faults' \in SUBSET Fault /\ stop_sent' \in BOOLEAN
          BY <3>5, RaiseType DEF Fault
        <4>2. any_positive' \in BOOLEAN /\ lost' \in BOOLEAN
          BY <3>1 DEF TypeOK
        <4>3. QED BY <3>2, <3>4, <4>1, <4>2 DEF TypeOK
      <3>6. CASE ~\E f \in {"testbed", "autopkgtest", "unexpected"} : Raise(f)
        <4>1. /\ errorcode' \in SUBSET {2, 4, 8, 16} /\ any_positive' \in BOOLEAN
              /\ at' = "after" /\ stop_sent' \in BOOLEAN /\ lost' \in BOOLEAN
              /\ UNCHANGED faults
          BY <3>1, <3>6 DEF TypeOK
        <4>2. QED BY <3>2, <3>4, <4>1 DEF TypeOK
      <3>7. QED BY <3>5, <3>6
    <2>3. QED BY <2>1, <2>2
  <1>12. CASE AfterTest
    BY <1>12 DEF AfterTest, Has, TypeOK
  <1>13. CASE FinishTests
    BY <1>13 DEF FinishTests, FinalCode, TypeOK
  <1>14. CASE CreateTestinfo
    <2>1. errorcode' \in SUBSET {2, 4, 8, 16} /\ faults' \in SUBSET Fault
      BY <1>14, StatusType DEF CreateTestinfo, Unexpected, TypeOK, Fault
    <2>2. QED BY <1>14, <2>1 DEF CreateTestinfo, TypeOK
  <1>15. CASE Cleanup
    <2>1. errorcode' \in SUBSET {2, 4, 8, 16} /\ faults' \in SUBSET Fault
      BY <1>15, StatusType DEF Cleanup, Unexpected, TypeOK, Fault
    <2>2. /\ need_apt_reset' \in BOOLEAN /\ published' \in BOOLEAN
          /\ stop_sent' \in BOOLEAN /\ at' = "exited"
      BY <1>15 DEF Cleanup, MustResetApt, TypeOK
    <2>3. QED BY <1>15, <2>1, <2>2 DEF Cleanup, TypeOK
  <1>16. CASE Done
    BY <1>16 DEF Done, vars, TypeOK
  <1>17. CASE UNCHANGED vars
    BY <1>17 DEF vars, TypeOK
  <1>18. QED BY <1>1, <1>2, <1>3, <1>4, <1>5, <1>6, <1>7, <1>8, <1>9, <1>10, <1>11,
                <1>12, <1>13, <1>14, <1>15, <1>16, <1>17 DEF Next
\* What a test leaves behind is either in deps_installed or has set modified.
LEMMA IsolatedStep == IInv /\ [Next]_vars => IsolatedInv'
  <1> SUFFICES ASSUME IInv, [Next]_vars PROVE IsolatedInv'
    OBVIOUS
  <1> USE DEF IInv, TypeOK, IsolatedInv, Clean, Has, Test, NoTest, Extra, Fails, Raise, Goto, Report, given, client, debs, real, result
  <1>1. CASE Open
    BY <1>1 DEF Open
  <1>2. CASE RegisterBinary
    BY <1>2 DEF RegisterBinary
  <1>3. CASE StartSource
    BY <1>3 DEF StartSource
  <1>4. CASE Unpack
    BY <1>4 DEF Unpack, CanApt, Root
  <1>5. CASE Build
    BY <1>5 DEF Build, CanApt, Root
  <1>6. CASE ParseTests
    BY <1>6 DEF ParseTests
  <1>7. CASE NextTest
    BY <1>7 DEF NextTest, MoreTests, MustRevert, Revert
  <1>8. CASE Publish
    BY <1>8 DEF Publish, CanApt, Root
  <1>9. CASE Install
    BY <1>9 DEF Install, NotInstallable, CanApt, Root
  <1>10. CASE Restrict
    BY <1>10 DEF Restrict, Unsupported, CanProvideSudo, Root
  <1>11. CASE Run
    BY <1>11 DEF Run, Judge
  <1>12. CASE AfterTest
    BY <1>12 DEF AfterTest
  <1>13. CASE FinishTests
    BY <1>13 DEF FinishTests, MoreTests, FinalCode
  <1>14. CASE CreateTestinfo
    BY <1>14 DEF CreateTestinfo, Unexpected
  <1>15. CASE Cleanup
    BY <1>15 DEF Cleanup, MustResetApt, Unexpected
  <1>16. CASE Done
    BY <1>16 DEF Done, vars
  <1>17. CASE UNCHANGED vars
    BY <1>17 DEF vars
  <1>18. QED BY <1>1, <1>2, <1>3, <1>4, <1>5, <1>6, <1>7, <1>8, <1>9, <1>10,
                <1>11, <1>12, <1>13, <1>14, <1>15, <1>16, <1>17 DEF Next

\* A revert takes back what was provided, and the belief that it was.
LEMMA ProvidedStep == IInv /\ [Next]_vars => ProvidedInv'
  <1> SUFFICES ASSUME IInv, [Next]_vars PROVE ProvidedInv'
    OBVIOUS
  <1> USE DEF IInv, TypeOK, ProvidedInv, CanApt, Root, Has, Test, NoTest, Fails, Raise, Goto, Report, given, client, debs, real, result
  <1>1. CASE Open
    BY <1>1 DEF Open
  <1>2. CASE RegisterBinary
    BY <1>2 DEF RegisterBinary
  <1>3. CASE StartSource
    BY <1>3 DEF StartSource
  <1>4. CASE Unpack
    BY <1>4 DEF Unpack
  <1>5. CASE Build
    BY <1>5 DEF Build
  <1>6. CASE ParseTests
    BY <1>6 DEF ParseTests
  <1>7. CASE NextTest
    BY <1>7 DEF NextTest, MoreTests, MustRevert, Revert
  <1>8. CASE Publish
    BY <1>8 DEF Publish
  <1>9. CASE Install
    BY <1>9 DEF Install, NotInstallable
  <1>10. CASE Restrict
    BY <1>10 DEF Restrict, Unsupported, CanProvideSudo
  <1>11. CASE Run
    BY <1>11 DEF Run, Judge
  <1>12. CASE AfterTest
    BY <1>12 DEF AfterTest
  <1>13. CASE FinishTests
    BY <1>13 DEF FinishTests, MoreTests, FinalCode
  <1>14. CASE CreateTestinfo
    BY <1>14 DEF CreateTestinfo, Unexpected
  <1>15. CASE Cleanup
    BY <1>15 DEF Cleanup, MustResetApt, Unexpected
  <1>16. CASE Done
    BY <1>16 DEF Done, vars
  <1>17. CASE UNCHANGED vars
    BY <1>17 DEF vars
  <1>18. QED BY <1>1, <1>2, <1>3, <1>4, <1>5, <1>6, <1>7, <1>8, <1>9, <1>10,
                <1>11, <1>12, <1>13, <1>14, <1>15, <1>16, <1>17 DEF Next

\* Nothing but publish() sets apt up, and it leaves a note for reset() first.
LEMMA AptStep == IInv /\ [Next]_vars => AptInv'
  <1> SUFFICES ASSUME IInv, [Next]_vars PROVE AptInv'
    OBVIOUS
  <1> USE DEF IInv, AptInv, AptRestored, StatusOf, Fails, Raise, Goto, Report, given, client, debs, real, result
  <1>1. CASE Open
    BY <1>1 DEF Open
  <1>2. CASE RegisterBinary
    BY <1>2 DEF RegisterBinary
  <1>3. CASE StartSource
    BY <1>3 DEF StartSource
  <1>4. CASE Unpack
    BY <1>4 DEF Unpack, CanApt, Root
  <1>5. CASE Build
    <2>1. UNCHANGED <<caps, published, need_apt_reset>> /\ at' # "exited"
      BY <1>5 DEF Build
    <2>2. QED BY <2>1
  <1>6. CASE ParseTests
    BY <1>6 DEF ParseTests
  <1>7. CASE NextTest
    BY <1>7 DEF NextTest, MoreTests, MustRevert, Revert
  <1>8. CASE Publish
    BY <1>8 DEF Publish, CanApt, Root
  <1>9. CASE Install
    BY <1>9 DEF Install, NotInstallable, CanApt, Root, Has
  <1>10. CASE Restrict
    BY <1>10 DEF Restrict, Unsupported, CanProvideSudo, Root, Has
  <1>11. CASE Run
    BY <1>11 DEF Run, Judge, Has
  <1>12. CASE AfterTest
    BY <1>12 DEF AfterTest, Has
  <1>13. CASE FinishTests
    BY <1>13 DEF FinishTests, MoreTests, FinalCode
  <1>14. CASE CreateTestinfo
    BY <1>14 DEF CreateTestinfo, Unexpected
  <1>15. CASE Cleanup
    BY <1>15 DEF Cleanup, MustResetApt, Unexpected
  <1>16. CASE Done
    BY <1>16 DEF Done, vars
  <1>17. CASE UNCHANGED vars
    BY <1>17 DEF vars
  <1>18. QED BY <1>1, <1>2, <1>3, <1>4, <1>5, <1>6, <1>7, <1>8, <1>9, <1>10,
                <1>11, <1>12, <1>13, <1>14, <1>15, <1>16, <1>17 DEF Next

\* Every verdict sets its bits, and FinalCode makes the documented status of them.
LEMMA ExitStep == IInv /\ [Next]_vars => ExitInv'
  <1> SUFFICES ASSUME IInv, [Next]_vars PROVE ExitInv'
    OBVIOUS
  <1> USE DEF IInv, ExitInv, Looping, Ending, Correct, Bits, StatusOf, Fails, Raise, Goto, Report, given, client, debs, real, result
  <1>1. CASE Open
    BY <1>1 DEF Open
  <1>2. CASE RegisterBinary
    BY <1>2 DEF RegisterBinary
  <1>3. CASE StartSource
    BY <1>3 DEF StartSource
  <1>4. CASE Unpack
    BY <1>4 DEF Unpack, CanApt, Root
  <1>5. CASE Build
    BY <1>5 DEF Build, CanApt, Root
  <1>6. CASE ParseTests
    BY <1>6 DEF ParseTests, Documented, TypeOK, Verdict
  <1>7. CASE NextTest
    BY <1>7 DEF NextTest, MoreTests, MustRevert, Revert
  <1>8. CASE Publish
    BY <1>8 DEF Publish, CanApt, Root
  <1>9. CASE Install
    BY <1>9 DEF Install, NotInstallable, CanApt, Root, Has
  <1>10. CASE Restrict
    BY <1>10 DEF Restrict, Unsupported, CanProvideSudo, Root, Has
  <1>11. CASE Run
    <2>1. CASE Ending'
      BY <1>11, <2>1 DEF Run
    <2>2. CASE ~Ending'
      <3>1. PICK o \in {"pass", "fail", "skip"} :
              /\ seen' = seen \cup {Judge(o)}
              /\ errorcode' = errorcode \cup
                    CASE Judge(o) \in {"skip", "flaky"} -> {2}
                      [] Judge(o) = "fail" -> {4}
                      [] OTHER -> {}
              /\ any_positive' = (any_positive \/ Judge(o) = "pass")
              /\ at' = "after" /\ UNCHANGED faults
        BY <1>11, <2>2 DEF Run
      <3>2. Judge(o) \in {"pass", "superficial", "skip", "flaky", "fail"}
        BY DEF Judge
      <3>3. errorcode' = Bits(seen')
        <4>1. CASE Judge(o) \in {"skip", "flaky"}
          BY <1>11, <3>1, <4>1 DEF Run
        <4>2. CASE Judge(o) = "fail"
          BY <1>11, <3>1, <4>2 DEF Run
        <4>3. CASE Judge(o) \in {"pass", "superficial"}
          BY <1>11, <3>1, <4>3 DEF Run
        <4>4. QED BY <3>2, <4>1, <4>2, <4>3
      <3>4. "valid" \notin seen' /\ (any_positive' <=> "pass" \in seen')
        BY <1>11, <3>1, <3>2 DEF Run
      <3>5. QED BY <1>11, <3>1, <3>3, <3>4 DEF Run
    <2>3. QED BY <2>1, <2>2
  <1>12. CASE AfterTest
    BY <1>12 DEF AfterTest, Has
  <1>13. CASE FinishTests
    <2>1. /\ errorcode = Bits(seen) /\ "valid" \notin seen /\ faults = {}
          /\ any_positive <=> "pass" \in seen
      BY <1>13 DEF FinishTests
    <2>2. FinalCode = Documented(seen)
      <3>1. errorcode \subseteq {2} <=> "fail" \notin seen /\ "badpkg" \notin seen
        BY <2>1
      <3>2. seen \subseteq {"skip", "flaky", "superficial"}
              <=> {"pass", "fail", "badpkg", "valid"} \cap seen = {}
        BY DEF TypeOK, Verdict
      <3>3. CASE seen \subseteq {"skip", "flaky", "superficial"}
        BY <2>1, <3>1, <3>2, <3>3 DEF FinalCode, Documented
      <3>4. CASE ~(seen \subseteq {"skip", "flaky", "superficial"})
        BY <2>1, <3>1, <3>2, <3>4 DEF FinalCode, Documented
      <3>5. QED BY <3>3, <3>4
    <2>3. QED BY <1>13, <2>1, <2>2 DEF FinishTests
  <1>14. CASE CreateTestinfo
    BY <1>14 DEF CreateTestinfo, Unexpected
  <1>15. CASE Cleanup
    BY <1>15 DEF Cleanup, MustResetApt, Unexpected
  <1>16. CASE Done
    BY <1>16 DEF Done, vars
  <1>17. CASE UNCHANGED vars
    BY <1>17 DEF vars
  <1>18. QED BY <1>1, <1>2, <1>3, <1>4, <1>5, <1>6, <1>7, <1>8, <1>9, <1>10,
                <1>11, <1>12, <1>13, <1>14, <1>15, <1>16, <1>17 DEF Next

LEMMA InitIInv == Init => IInv
  <1> SUFFICES ASSUME Init PROVE IInv
    OBVIOUS
  <1>1. TypeOK
    <2>1. /\ any_positive \in BOOLEAN /\ modified \in BOOLEAN /\ stop_sent \in BOOLEAN
          /\ registered \in BOOLEAN /\ need_apt_reset \in BOOLEAN
          /\ broken \in BOOLEAN /\ published \in BOOLEAN /\ lost \in BOOLEAN
      BY DEF Init
    <2>2. left \in 0..MaxTests
      BY DEF Init
    <2>3. /\ caps \in CapSet /\ test \in Test \cup {NoTest}
          /\ image_sudo \in BOOLEAN /\ image_apt \in BOOLEAN /\ sudo \in BOOLEAN
          /\ at = "begin" /\ tried_provide_sudo = "no"
          /\ errorcode = {} /\ deps_installed = {} /\ installed = {}
          /\ seen = {} /\ faults = {}
      BY DEF Init
    <2>4. QED BY <2>1, <2>2, <2>3 DEF TypeOK
  <1>2. IsolatedInv
    BY DEF Init, IsolatedInv, Clean
  <1>3. ProvidedInv
    BY DEF Init, ProvidedInv
  <1>4. AptInv
    BY DEF Init, AptInv, AptRestored
  <1>5. at = "begin" /\ faults = {} /\ errorcode = {} /\ seen = {}
    BY DEF Init
  <1>6. ~Ending /\ ~Looping
    BY <1>5 DEF Looping, Ending
  <1>7. ExitInv
    BY <1>5, <1>6 DEF ExitInv
  <1>8. QED BY <1>1, <1>2, <1>3, <1>4, <1>7 DEF IInv

\* What the runner believes of the testbed, and what it makes of the verdicts,
\* is right at every point of a run.
THEOREM RunInvariant == Spec => []IInv
  <1>1. IInv /\ [Next]_vars => IInv'
    BY TypeStep, IsolatedStep, ProvidedStep, AptStep, ExitStep DEF IInv
  <1>2. QED BY InitIInv, <1>1, PTL DEF Spec

\* The variables of the runner keep their types: no counter of tests runs below
\* zero, no bit but the documented ones gets into the exit status.
THEOREM TypeCorrect == Spec => []TypeOK
  <1>1. IInv => TypeOK
    BY DEF IInv
  <1>2. QED BY RunInvariant, <1>1, PTL

\* reset(), needs_reset() and deps_installed keep every test from what ran before.
THEOREM TestsIsolated == Spec => []Isolated
  <1>1. IInv => Isolated
    BY DEF IInv, IsolatedInv, Isolated, Clean
  <1>2. QED BY RunInvariant, <1>1, PTL

\* publish(), install_deps() and satisfy_restrictions() have done their work in
\* the testbed the test runs in.
THEOREM TestsProvided == Spec => []Provided
  <1>1. IInv => Provided
    BY DEF IInv, ProvidedInv, Provided
  <1>2. QED BY RunInvariant, <1>1, PTL

\* The exit status of main() is the documented function of what happened.
THEOREM ExitStatus == Spec => []ExitAsDocumented
  <1>1. IInv => ExitAsDocumented
    BY DEF IInv, ExitInv, ExitAsDocumented, Correct, Ending
  <1>2. QED BY RunInvariant, <1>1, PTL

\* DebBinaries.reset() restores apt where a revert does not.
THEOREM AptIsRestored == Spec => []AptRestored
  <1>1. IInv => AptRestored
    BY DEF IInv, AptInv
  <1>2. QED BY RunInvariant, <1>1, PTL
=============================================================================
