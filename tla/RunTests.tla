------------------------------ MODULE RunTests ------------------------------
(***************************************************************************)
(* One run of runner/autopkgtest: open the testbed, build the source, run  *)
(* the tests one after the other, clean up, exit.  The module relates what *)
(* the runner believes of the testbed (the fields of lib/adt_testbed.py's  *)
(* Testbed) to what is true of it, and the exit status to what happened.   *)
(*                                                                         *)
(* Tests are chosen when the loop reaches them: nothing that run_tests()   *)
(* does with one test depends on the tests that follow.                    *)
(***************************************************************************)
EXTENDS Naturals

CONSTANTS
    Pkg,           \* packages a test may depend on
    Restriction,   \* the sets of restrictions a test may carry
    CapSet,        \* the sets of capabilities a testbed may have
    MaxTests       \* bound on the number of tests of the source package

\* Packages nobody asked for: dpkg-dev, git and apt-utils, which the runner
\* installs for itself, and what the build of the source package needs.
Extra == {"tools", "builddeps"}

Capability == {"revert", "root-on-testbed", "revert-full-system"}
KnownRestrictions == {"skip-not-installable", "flaky", "superficial",
                      "breaks-testbed", "needs-sudo", "skippable"}

ASSUME PkgAssumption == Pkg \cap Extra = {}
ASSUME RestrictionAssumption == Restriction \subseteq SUBSET KnownRestrictions
\* Every backend that can revert a full system can revert.
ASSUME CapSetAssumption ==
    \A c \in CapSet : c \subseteq Capability /\
        ("revert-full-system" \in c => "revert" \in c)
ASSUME MaxTestsAssumption == MaxTests \in Nat

VARIABLES
    at,                 \* what the runner does next
    caps,               \* Testbed.caps
    image_sudo,         \* there is a test user, and it can use sudo to begin with
    image_apt,          \* root can write to dpkg's database in the testbed
    test, left,         \* the current test, and how many follow it
    errorcode,          \* the exit status, as the set of its bits
    any_positive,       \* run_tests(): a test that is not superficial passed
    modified,           \* Testbed.modified
    deps_installed,     \* Testbed.deps_installed
    tried_provide_sudo, \* Testbed._tried_provide_sudo: "no", "yes" or "refused"
    stop_sent,          \* Testbed.stop_sent: the testbed is closed
    registered,         \* DebBinaries.registered is not empty
    need_apt_reset,     \* DebBinaries.need_apt_reset
    installed,          \* packages installed in the testbed since it was opened
    sudo,               \* the test user can use sudo
    broken,             \* a breaks-testbed test has run since it was opened
    published,          \* apt in the testbed is set up to use the binaries
    seen,               \* the verdicts reported so far
    faults,             \* the exceptions that reached main()
    lost                \* a test that timed out took the testbed with it

client == <<modified, deps_installed, tried_provide_sudo, stop_sent>>
debs   == <<registered, need_apt_reset>>
real   == <<installed, sudo, broken, published>>
result == <<errorcode, any_positive, seen, faults, lost>>
given  == <<caps, image_sudo, image_apt>>
vars   == <<at, given, test, left, client, debs, real, result>>

Test    == [deps : SUBSET Pkg, restrictions : Restriction]
NoTest  == [deps |-> {}, restrictions |-> {}]
Verdict == {"pass", "superficial", "skip", "flaky", "fail", "badpkg", "valid"}
Fault   == {"badpkg", "testbed", "autopkgtest", "unexpected"}

TypeOK ==
    /\ at \in {"begin", "binaries", "unpack", "build", "parse", "next", "publish",
               "install", "restrict", "run", "after", "testinfo", "cleanup", "exited"}
    /\ caps \in CapSet
    /\ image_sudo \in BOOLEAN /\ image_apt \in BOOLEAN
    /\ test \in Test \cup {NoTest}
    /\ left \in 0..MaxTests
    /\ errorcode \in SUBSET {2, 4, 8, 16}
    /\ any_positive \in BOOLEAN
    /\ modified \in BOOLEAN
    /\ deps_installed \in SUBSET Pkg
    /\ tried_provide_sudo \in {"no", "yes", "refused"}
    /\ stop_sent \in BOOLEAN
    /\ registered \in BOOLEAN
    /\ need_apt_reset \in BOOLEAN
    /\ installed \in SUBSET (Pkg \cup Extra)
    /\ sudo \in BOOLEAN
    /\ broken \in BOOLEAN
    /\ published \in BOOLEAN
    /\ seen \in SUBSET Verdict
    /\ faults \in SUBSET Fault
    /\ lost \in BOOLEAN

Init ==
    /\ at = "begin"
    /\ caps \in CapSet /\ image_sudo \in BOOLEAN /\ image_apt \in BOOLEAN
    /\ test = NoTest /\ left = 0
    /\ errorcode = {} /\ any_positive = FALSE
    /\ modified = FALSE /\ deps_installed = {} /\ tried_provide_sudo = "no"
    /\ stop_sent = FALSE
    /\ registered = FALSE /\ need_apt_reset = FALSE
    /\ installed = {} /\ sudo = image_sudo /\ broken = FALSE /\ published = FALSE
    /\ seen = {} /\ faults = {} /\ lost = FALSE

Root     == "root-on-testbed" \in caps
\* satisfy_dependencies_string(): the testbed lets the runner install packages.
CanApt   == Root /\ image_apt /\ ~stop_sent
Has(r)   == r \in test.restrictions
Goto(l)  == at' = l
-----------------------------------------------------------------------------
(* Exceptions.                                                             *)

\* print_exception(): the exit status of an exception that reached main().
StatusOf(f) ==
    CASE f = "badpkg" -> {4, 8}
      [] f = "testbed" -> {16}
      [] OTHER -> {4, 16}

\* An exception of kind f leaves process_actions(); Testbed.bomb() has stopped
\* the testbed before it raises.
Raise(f) ==
    /\ errorcode' = StatusOf(f)
    /\ faults' = faults \cup {f}
    /\ stop_sent' = (stop_sent \/ f \in {"testbed", "autopkgtest"})
    /\ Goto("testinfo")

\* The same, where nothing else changes.
Fails(F) ==
    /\ \E f \in F : Raise(f)
    /\ UNCHANGED <<given, test, left, modified, deps_installed, tried_provide_sudo,
                   debs, real, any_positive, seen, lost>>
-----------------------------------------------------------------------------
(* Before the tests.                                                       *)

\* setup_trace(), Testbed.start(), open() and _opened() with its setup commands.
Open ==
    /\ at = "begin"
    /\ \/ /\ Goto("binaries")
          /\ UNCHANGED <<given, test, left, client, debs, real, result>>
       \/ Fails(Fault)

\* process_actions(), for the binaries on the command line.
RegisterBinary ==
    /\ at = "binaries"
    /\ \/ /\ registered' = TRUE
          /\ UNCHANGED <<at, given, test, left, client, need_apt_reset, real, result>>
       \/ Fails({"badpkg", "unexpected"})

StartSource ==
    /\ at = "binaries" /\ Goto("unpack")
    /\ UNCHANGED <<given, test, left, client, debs, real, result>>

\* build_source() up to the decision to build: reset([]) finds nothing to
\* revert, then git or dpkg-dev may be installed, and the source is unpacked.
Unpack ==
    /\ at = "unpack"
    /\ \/ /\ modified' = FALSE /\ deps_installed' = {}
          /\ installed' \in {installed} \cup IF CanApt THEN {installed \cup {"tools"}} ELSE {}
          /\ at' \in {"build", "parse"}
          /\ UNCHANGED <<given, test, left, tried_provide_sudo, stop_sent, debs,
                         sudo, broken, published, result>>
       \/ Fails(Fault)

\* The rest of build_source() when a build is needed.
Build ==
    /\ at = "build"
    /\ \/ /\ modified' = TRUE /\ deps_installed' = {}
          /\ installed' = IF CanApt THEN installed \cup {"builddeps"} ELSE installed
          /\ registered' \in {registered, TRUE}
          /\ Goto("parse")
          /\ UNCHANGED <<given, test, left, tried_provide_sudo, stop_sent,
                         need_apt_reset, sudo, broken, published, result>>
       \/ Fails(Fault)

Report(v) == seen' = seen \cup {v}

\* parse_debian_source(), and run_tests() up to its loop.
ParseTests ==
    /\ at = "parse"
    /\ \/ \E n \in 0..MaxTests, skipped \in BOOLEAN :
            /\ seen' = IF skipped THEN seen \cup {"skip"} ELSE seen
            /\ \/ n = 0 /\ errorcode' = {8} /\ Goto("testinfo")
               \/ n > 0 /\ Goto("next") /\
                  errorcode' = IF skipped THEN errorcode \cup {2} ELSE errorcode
            /\ left' = n
            /\ any_positive' = FALSE
            /\ UNCHANGED <<given, test, client, debs, real, faults, lost>>
       \/ /\ Report("valid") /\ Goto("testinfo")    \* --validate
          /\ UNCHANGED <<given, test, left, client, debs, real, errorcode,
                         any_positive, faults, lost>>
       \/ Fails({"badpkg", "unexpected"})
-----------------------------------------------------------------------------
(* The loop of run_tests().                                                *)

MoreTests == left > 0

\* Testbed.reset(t.depends) has to revert.
MustRevert(t) == "revert" \in caps /\ (modified \/ ~(deps_installed \subseteq t.deps))

RevertKeepingSudo ==    \* mutant: _opened() does not forget the attempt
    /\ installed' = {} /\ sudo' = image_sudo /\ broken' = FALSE /\ published' = FALSE
    /\ deps_installed' = {}
    /\ tried_provide_sudo' = tried_provide_sudo

\* The server's revert, and what Testbed._opened() forgets.
Revert ==
    /\ installed' = {} /\ sudo' = image_sudo /\ broken' = FALSE /\ published' = FALSE
    /\ deps_installed' = {}
    /\ tried_provide_sudo' = "no"

\* A command to a testbed that has been stopped fails: send() finds no process.
NextTest ==
    /\ at = "next" /\ MoreTests
    /\ \E t \in Test :
        \/ /\ MustRevert(t) /\ ~stop_sent /\ Revert
           /\ test' = t /\ left' = left - 1
           /\ modified' = FALSE
           /\ Goto("publish")
           /\ UNCHANGED <<given, stop_sent, debs, result>>
        \/ /\ MustRevert(t)
           /\ Fails(IF stop_sent THEN {"testbed"} ELSE Fault)
        \/ /\ ~MustRevert(t)
           /\ test' = t /\ left' = left - 1
           /\ modified' = FALSE
           /\ Goto("publish")
           /\ UNCHANGED <<given, deps_installed, tried_provide_sudo, stop_sent,
                          debs, real, result>>

\* binaries.publish(): copy the binaries down, and point apt at them.
Publish ==
    /\ at = "publish"
    /\ \/ /\ ~registered /\ Goto("install")
          /\ UNCHANGED <<given, test, left, client, debs, real, result>>
       \/ /\ registered /\ ~stop_sent
          /\ need_apt_reset' = TRUE /\ published' = TRUE
          /\ installed' \in {installed} \cup IF CanApt THEN {installed \cup {"tools"}} ELSE {}
          /\ \/ /\ Goto("install")
                /\ UNCHANGED <<client, result>>
             \/ /\ \E f \in Fault : Raise(f)
                /\ UNCHANGED <<modified, deps_installed, tried_provide_sudo,
                               any_positive, seen, lost>>
          /\ UNCHANGED <<given, test, left, registered, sudo, broken>>
       \/ /\ registered
          /\ Fails(IF stop_sent THEN {"unexpected"} ELSE {"testbed", "autopkgtest"})

\* install_deps() raised BadPackageError, which run_tests() handles.
NotInstallable ==
    /\ \/ Has("skip-not-installable") /\ Report("skip") /\ errorcode' = errorcode \cup {2}
       \/ ~Has("skip-not-installable") /\ Report("badpkg") /\ errorcode' = errorcode \cup {4, 8}
    /\ Goto("after")

\* testbed.install_deps(t.depends): where the runner cannot install packages, or
\* the testbed has been stopped, the dependencies are checked for at best.
Install ==
    /\ at = "install"
    /\ deps_installed' = test.deps
    /\ \/ /\ test.deps = {} \/ ~CanApt
          /\ Goto("restrict")
          /\ UNCHANGED <<installed, errorcode, seen, stop_sent, faults>>
       \/ /\ test.deps # {} /\ CanApt
          /\ installed' = installed \cup test.deps
          /\ Goto("restrict")
          /\ UNCHANGED <<errorcode, seen, stop_sent, faults>>
       \/ /\ test.deps # {}
          /\ \E some \in SUBSET test.deps :
                installed' = IF CanApt THEN installed \cup some ELSE installed
          /\ NotInstallable
          /\ UNCHANGED <<stop_sent, faults>>
       \/ /\ test.deps # {}
          /\ \E f \in Fault \ {"badpkg"} : Raise(f)
          /\ UNCHANGED <<installed, seen>>
    /\ UNCHANGED <<given, test, left, modified, tried_provide_sudo, debs, sudo,
                   broken, published, any_positive, lost>>

Unsupported == Report("skip") /\ errorcode' = errorcode \cup {2} /\ Goto("after")

\* _provide_sudo() can give the test user sudo.
CanProvideSudo == Root /\ "revert-full-system" \in caps

\* satisfy_restrictions() with _provide_sudo().  In a testbed that has been
\* stopped nobody has sudo, and nobody gets it.
Restrict ==
    /\ at = "restrict"
    /\ \/ /\ ~Has("needs-sudo") \/ tried_provide_sudo = "yes"
          /\ Goto("run")
          /\ UNCHANGED <<tried_provide_sudo, modified, sudo, errorcode, seen, stop_sent, faults>>
       \/ /\ Has("needs-sudo") /\ tried_provide_sudo = "refused"
          /\ Unsupported
          /\ UNCHANGED <<tried_provide_sudo, modified, sudo, stop_sent, faults>>
       \/ /\ Has("needs-sudo") /\ tried_provide_sudo = "no"
          /\ \/ /\ sudo /\ ~stop_sent
                /\ tried_provide_sudo' = "yes" /\ Goto("run")
                /\ UNCHANGED <<modified, sudo, errorcode, seen>>
             \/ /\ ~sudo \/ stop_sent
                /\ tried_provide_sudo' = "refused" /\ Unsupported
                /\ modified' = (modified \/ CanProvideSudo)
                /\ sudo' \in {sudo, sudo \/ (CanProvideSudo /\ ~stop_sent)}
             \/ /\ ~sudo /\ ~stop_sent /\ CanProvideSudo
                /\ tried_provide_sudo' = "yes" /\ Goto("run")
                /\ modified' = TRUE /\ sudo' = TRUE
                /\ UNCHANGED <<errorcode, seen>>
          /\ UNCHANGED <<stop_sent, faults>>
       \/ /\ Has("needs-sudo") /\ tried_provide_sudo = "no"
          /\ \E f \in {"testbed", "unexpected"} : Raise(f)
          /\ UNCHANGED <<tried_provide_sudo, modified, sudo, seen>>
    /\ UNCHANGED <<given, test, left, deps_installed, debs, installed, broken,
                   published, any_positive, lost>>

\* What run_tests() makes of the result of a test.
Judge(o) ==
    CASE o = "skip" -> "skip"
      [] o = "fail" -> IF Has("flaky") THEN "flaky" ELSE "fail"
      [] o = "pass" -> IF Has("superficial") THEN "superficial" ELSE "pass"

\* testbed.run_test().  In a testbed that has been stopped the copydown() of the
\* tests fails before anything runs.  A result that has been reported may still be followed by
\* an exception when the artifacts are copied.  When a test that timed out has
\* taken the testbed with it, copyup() has stopped the testbed, and the
\* TestbedFailure is ignored.
Run ==
    /\ at = "run"
    /\ \/ /\ ~stop_sent
          /\ broken' = (broken \/ Has("breaks-testbed"))
          /\ \E o \in {"pass", "fail"} \cup IF Has("skippable") THEN {"skip"} ELSE {} :
                /\ Report(Judge(o))
                /\ \/ /\ errorcode' = errorcode \cup
                            CASE Judge(o) \in {"skip", "flaky"} -> {2}
                              [] Judge(o) = "fail" -> {4}
                              [] OTHER -> {}
                      /\ any_positive' = (any_positive \/ Judge(o) = "pass")
                      /\ Goto("after")
                      /\ \/ UNCHANGED <<stop_sent, lost>>
                         \/ o = "fail" /\ stop_sent' = TRUE /\ lost' = TRUE
                      /\ UNCHANGED faults
                   \/ /\ \E f \in {"testbed", "autopkgtest", "unexpected"} : Raise(f)
                      /\ UNCHANGED <<any_positive, lost>>
          /\ UNCHANGED <<given, test, left, modified, deps_installed,
                         tried_provide_sudo, debs, installed, sudo, published>>
       \/ Fails(Fault)

AfterTestWithoutReset ==    \* mutant: breaks-testbed is not honoured
    /\ at = "after"
    /\ test' = NoTest
    /\ Goto("next")
    /\ UNCHANGED <<given, left, client, debs, real, result>>

AfterTest ==
    /\ at = "after"
    /\ modified' = (modified \/ Has("breaks-testbed"))
    /\ test' = NoTest
    /\ Goto("next")
    /\ UNCHANGED <<given, left, deps_installed, tried_provide_sudo, stop_sent,
                   debs, real, result>>

FinalCodeOnlySuccess == IF errorcode = {} /\ ~any_positive THEN {8} ELSE errorcode    \* mutant
\* The end of run_tests().
FinalCode == IF errorcode \subseteq {2} /\ ~any_positive THEN {8} ELSE errorcode

FinishTests ==
    /\ at = "next" /\ ~MoreTests
    /\ errorcode' = FinalCode
    /\ modified' = TRUE
    /\ Goto("testinfo")
    /\ UNCHANGED <<given, test, left, deps_installed, tried_provide_sudo, stop_sent,
                   debs, real, any_positive, seen, faults, lost>>
-----------------------------------------------------------------------------
(* The end of main().                                                      *)

Unexpected == errorcode' = StatusOf("unexpected") /\ faults' = faults \cup {"unexpected"}

CreateTestinfo ==
    /\ at = "testinfo" /\ Goto("cleanup")
    /\ UNCHANGED <<errorcode, faults>> \/ Unexpected
    /\ UNCHANGED <<given, test, left, client, debs, real, any_positive, seen, lost>>

MustResetAptInverted == need_apt_reset /\ "revert" \in caps    \* mutant
MustResetApt == need_apt_reset /\ "revert" \notin caps

\* cleanup(): binaries.reset(), then testbed.stop(), which the first one may
\* have called; any exception is a 20.
Cleanup ==
    /\ at = "cleanup" /\ Goto("exited")
    /\ \/ /\ need_apt_reset' = (need_apt_reset /\ ~MustResetApt)
          /\ published' = (published /\ ~MustResetApt)
          /\ stop_sent' = TRUE
          /\ \/ UNCHANGED <<errorcode, faults>>
             \/ ~stop_sent /\ Unexpected
       \/ /\ MustResetApt /\ Unexpected
          /\ stop_sent' \in {stop_sent, TRUE}
          /\ UNCHANGED <<need_apt_reset, published>>
    /\ UNCHANGED <<given, test, left, modified, deps_installed, tried_provide_sudo,
                   registered, installed, sudo, broken, any_positive, seen, lost>>

Done == at = "exited" /\ UNCHANGED vars
-----------------------------------------------------------------------------
Next ==
    \/ Open \/ RegisterBinary \/ StartSource \/ Unpack \/ Build \/ ParseTests
    \/ NextTest \/ Publish \/ Install \/ Restrict \/ Run \/ AfterTest \/ FinishTests
    \/ CreateTestinfo \/ Cleanup \/ Done

Spec == Init /\ [][Next]_vars
-----------------------------------------------------------------------------
(* Properties.                                                             *)

\* On a testbed that can revert, a test never runs in what another test or the
\* build has left: no package but its own dependencies and the runner's tools,
\* nothing a breaks-testbed test did, and sudo only for a test that asks for it.
Isolated ==
    at = "run" /\ "revert" \in caps =>
        /\ installed \subseteq test.deps \cup {"tools"}
        /\ ~broken
        /\ sudo => image_sudo \/ Has("needs-sudo")

\* A test that runs has what it asks for in the testbed as it is now, also when
\* a revert has just thrown away what earlier tests were given.
Provided ==
    at = "run" /\ ~stop_sent =>
        /\ CanApt => test.deps \subseteq installed
        /\ Has("needs-sudo") => sudo
        /\ registered => published

\* What the manual page says of an exit status, from the verdicts reported.
Documented(v) ==
    CASE "valid" \in v -> {}
      [] v \subseteq {"skip", "flaky", "superficial"} -> {8}
      [] OTHER -> (IF v \cap {"skip", "flaky"} # {} THEN {2} ELSE {})
                    \cup (IF "fail" \in v THEN {4} ELSE {})
                    \cup (IF "badpkg" \in v THEN {4, 8} ELSE {})

\* The exit status says what happened: after a run without an exception it is
\* the documented function of the verdicts, so 0 means that a test that is not
\* superficial passed and none failed; with one it is 12, 16 or 20.
ExitAsDocumented ==
    at = "exited" =>
        IF faults = {} THEN errorcode = Documented(seen)
        ELSE \E f \in faults : errorcode = StatusOf(f)

\* A testbed that cannot be reverted gets its apt configuration back, however
\* the run ends, unless the status is 20.
AptRestored ==
    at = "exited" /\ "revert" \notin caps /\ errorcode # {4, 16} => ~published
-----------------------------------------------------------------------------
(* What the documentation says and the code does not do.                   *)

\* Exit status 14: "erroneous package and at least one test skipped".
\* (print_exception() replaces the status, and the 2 is gone.)
SkipsSurvive ==
    at = "exited" /\ faults = {"badpkg"} /\ "skip" \in seen => 2 \in errorcode

\* A test that times out and destroys the testbed is "a failure": the run does
\* not end as a testbed failure.  (The next test finds the testbed stopped.)
TimeoutIsFailure ==
    at = "exited" /\ lost /\ faults \subseteq {"testbed"} => errorcode # {16}
=============================================================================
