# Verification of autopkgtest

TLA+ models of autopkgtest (the Debian test runner kept in this repository), the
TLC runs that check them on small instances, and theorems about them that TLAPS
has checked. `PROJECT.json` says for every definition which lines it models.

## 1. The system

`runner/autopkgtest` runs the tests of one source package in a *testbed*: a
chroot, a container, a virtual machine or a remote machine. It starts one
*virtualisation server* (`virt/autopkgtest-virt-*`, all built on
`lib/VirtSubproc.py`) as a child process and talks to it over two pipes, one
line per command and one per reply. Commands in the testbed itself run through
the *auxverb* the server names (`docker exec`, `ssh`, `schroot`, ...). This fork
adds batch drivers that run the runner once per package on RISC-V images.

    auto_autopkgtest.py --> runner/autopkgtest --pipes--> virt server --> testbed
                              |  adt_testbed.Testbed        VirtSubproc + hooks
                              |  adt_binaries.DebBinaries
                              |  testdesc.Test
                              +-------- auxverb ------------------------> wrapper.sh,
                                                                          reboot.sh

| Component | State it keeps | Operations | What makes it correct |
|---|---|---|---|
| Virtualisation server (`lib/VirtSubproc.py`) | `downtmp`, `downtmp_open`, `cleaning`, signal dispositions, one `SIGALRM` | the commands `open`, `close`, `revert`, `reboot`, `copyup`, `copydown`, `capabilities`, `print-execute-command`, `quit`; signals; exceptions | answers only what the protocol allows; what it believes of the testbed is true between commands; cleans up once and completely however it ends |
| Backends (`virt/*`, `lib/autopkgtest_qemu.py`) | the container, session, process, work directory, port | `hook_open`, `hook_downtmp`, `hook_revert`, `hook_cleanup`, `hook_prepare_reboot`, `hook_wait_reboot` | every resource made is removed, also when a hook fails half way; a reboot is recognised |
| Auxverb of qemu (`virt/autopkgtest-virt-qemu`) | a console, a directory of stream files for each invocation | `runcmd` with its threads, `eofcat` | no truncated input, a free console afterwards |
| Runner (`runner/autopkgtest`) | `errorcode`, `any_positive`, the current test | build, the loop of `run_tests()`, `cleanup()`, signal handler | tests do not influence each other; the exit status says what happened |
| Testbed client (`lib/adt_testbed.py`) | `scratch`, `caps`, `modified`, `deps_installed`, `_tried_provide_sudo`, `stop_sent`, `apt_pin_for_releases`, last reboot mark | `start`, `stop`, `open`, `reset`, `install_deps`, `install_apt`, `satisfy_restrictions`, `run_test`, `bomb` | its fields agree with the testbed, after reverts too; it always ends with the server told to quit |
| Local binaries (`lib/adt_binaries.py`) | `registered`, `need_apt_reset` | `register`, `publish`, `reset` | apt is restored where a revert does not do it |
| Reboot handshake (`lib/in-testbed/reboot*.sh`, the loop in `run_test`) | marks in `/run`, pid file | request, prepare, resume | a test resumes with the mark it gave, once per reboot |
| Test wrapper (`lib/in-testbed/wrapper.sh`) | two FIFOs, pid file | run, find leaked processes, wait | always ends, kills neither a tee nor a process of another test |
| Test descriptions (`lib/testdesc.py`) | the tests, counters and reports of one parse | parse the control file, check capabilities, resolve dependencies | each declared test runs, is reported or was excluded; its own packages are the ones tested |
| Batch driver (`auto_autopkgtest.py`) | directories of results, a list | one run per package, sorting, restart | no package and no result is lost, also over a restart |
| Argument parsing, logging, `auto.sh`, image builders, setup scripts | none of interest | | see section 8 |

### How they interact, and what is hard

* **One global set of variables, several ways out.** In the server a hook can be
  left by its end, by an exception, by a signal handler that runs `cleanup()`
  on top of it, or by the death of the process; `cleanup()` itself can fail and
  be entered again. Everything hangs on one global, `downtmp`, that is assigned
  last and cleared by some hooks and not by others.
* **Two processes that fail separately.** The runner may die while the server
  waits for a command or works on one; the server may end while the runner
  waits for a reply; `stop()`, `bomb()` and `debug_fail()` call each other, and a
  signal handler calls `stop()` in the middle of any of them.
* **Beliefs about a testbed that is thrown away.** A revert takes back packages,
  sudo, pins and the apt configuration, and the fields that say they are there
  must go at the same moment; a test that leaves something behind must have set
  `modified` or be covered by `deps_installed`.
* **Timeouts** through one `SIGALRM` that nested calls share, and a test that
  times out with the testbed gone.
* **Reboots**, where the test is killed by the script it has called, three
  processes run at the same time, and the runner finds out from an exit status
  and a file.
* **Files as channels**: the streams of the qemu auxverb, the pid file and FIFOs
  of the wrapper, lock files for ports.

The full list, each at its line and with the properties that cover it, is
`hazards` in `PROJECT.json`.

## 2. How the modules fit together

| Module | Models | Uses | Run | Proofs |
|---|---|---|---|---|
| `VirtProtocol` | what a caller may rely on (abstract) | | | |
| `VirtServer` | the server, for any hooks | `VirtProtocol` | `VirtServer` | `VirtServerProofs` |
| `Backends` | the hooks of nine backends, ssh in three variants | | `VirtServer` | |
| `HookContracts` | what each hook owes the server | `VirtServer` | `VirtServer` | `VirtServerProofs` |
| `Copy` | the inside of `copyup` and `copydown` | | `Copy` | `SessionProofs` |
| `TestbedSession` | runner and server over two pipes | | `TestbedSession` | `SessionProofs` |
| `RunTests` | one run of the runner | | `RunTests` | `RunTestsProofs` |
| `AptInstall` | `install_apt()`, pins, reverts | | `AptInstall` | `AptInstallProofs` |
| `RebootSegments` | what a test is promised (abstract) | | | |
| `RebootHandshake` | test, runner and server in a reboot | `RebootSegments` | `RebootHandshake` | `InTestbedProofs` |
| `TestDesc` | the control file and the selection | | `PackageTests` | |
| `Depends` | the field Depends, to the packages | | `PackageTests` | |
| `PackageTests` | a package: both, composed | `TestDesc`, `Depends` | `PackageTests` | `PackageTestsProofs` |
| `QemuAuxverb` | `runcmd`, console, `eofcat` | | `QemuAuxverb`, `QemuAuxverb_OutputWhole` | `QemuProofs` |
| `QemuPorts` | `find_free_port()` of several servers | | `QemuPorts` | `QemuProofs` |
| `Wrapper` | `wrapper.sh`, one test after the other | | `Wrapper` | `InTestbedProofs` |
| `BatchDriver` | the driver, its child, restarts | | `BatchDriver` | `BatchDriverProofs` |

`MC...` modules give the constants their values. `TestbedSession` uses of the
server only what `VirtServer` shows to hold; `RunTests` uses of the client's
dialogue, of an installation and of a test with its reboots only that each of
them ends well or raises, which the modules about them detail.

### Left for later

* The lxc and docker variants without a shared directory, and capabilities that
  grow with each revert, in `Backends`.
* Installation without root (`Testbed.install_deps()` on a testbed without
  `root-on-testbed`: download, unpack, rewrite paths) in `AptInstall`.
* `TestbedSession` and `VirtServer` in one instance; today they meet in the
  protocol. The product of the two is beyond what TLC finishes in minutes.

## 3. The modules and the code

### VirtServer, Backends, VirtProtocol

A hook is a sequence of *steps*, records that say which resources a step makes
or removes, whether it may fail before or after it takes effect, what the hook
does with the failure, and whether a timeout bounds it. `Backends` writes the
hooks of the nine backends down this way (ssh three times: with a setup script that
makes the machine, with that and a sudo password, and without a script);
`VirtServer` executes them:

| Code | Model |
|---|---|
| `command()`: read a line, look up `cmd_*`, print the reply | `at = "read"`, the `Read...` actions by kind of command, `Answer`, `PrintReply` |
| `cmd_open`, `cmd_revert`, `cmd_reboot`, `cmd_close` | `ReadHookCommand`, `ReadClose`, then the hook, then `EndOpenOrRevert`, `EndTmp`, `EndReboot`, `EndCleanup` |
| a line of a hook, `check_exec` | `StepOk`, `StepSkip`, `StepRaise` on `Current` |
| an exception that unwinds | `Raise`, `RaiseInCleanup`: to the except block of the hook (`"rescue"`), or to `error_cleanup()` |
| `cleanup()`, with its test of `downtmp` and `cleaning` | `EnterCleanup` |
| the signal handlers of `prepare()`, at any step | `Signal`, `Deliver`; `BrokenPipe` for SIGPIPE |
| the caller's death | `alive`, `ReadEof` |

`res` and `orphans` are not in the code: together they are what really exists,
against which the properties hold the globals. `orphans` is what a step that has
failed, and whose failure the hook has passed over, has left; no later step looks
for it. `lost` is the set of resources that somebody should have removed and did
not get to: what a failed step was about, what the rest of a `hook_cleanup()` or an
except block left by an exception would have removed, and everything if the server
is stopped while `downtmp` is `None` in a hook, or killed without handlers. It is
per resource, so that one failure excuses nothing else.

`HookContracts` extends `VirtServer` with what each hook by itself owes the main
loop: that it makes again what it gives up, that it makes nothing `hook_cleanup()`
does not undo, that it sets `downtmp` to `None` before it removes what
`hook_open()` has made, and in qemu and ssh where an exception may come that no
except block catches. The contracts speak of one hook and of the order of its
lines only, not of commands, failures or signals; TLC evaluates them on the hooks
of `Backends`.

`VirtProtocol` is the README of virtualisation servers as a state machine: three
states, a reply per request, one scratch directory. `KeepsProtocol` in
`VirtServer` is its specification under the mapping `ProtocolState`.

### RunTests

One action per phase of `main()`, `process_actions()` and `run_tests()`. The
client's fields (`modified`, `deps_installed`, `tried_provide_sudo`, `stop_sent`,
`registered`, `need_apt_reset`) are variables of their names; `installed`,
`sudo`, `broken` and `published` are the truth about the testbed. `errorcode` is
the set of its bits, so `|= 12` adds 4 and 8 and 14 is `{2, 4, 8}`. Any phase may
end in any exception its code can raise (`Fails`, `Raise`); `seen` and `faults`
remember what happened. Tests are chosen when the loop reaches them: their
dependencies, and their restrictions as far as the runner reads them. A test
that depends on an Internet connection that is not guaranteed is skipped like a
`skippable` one, and `Has("skippable")` stands for both.

The binaries of the command line come before the one source package, which
`lib/autopkgtest_args.py` sees to.

### Copy

`copyupdown()` takes one of eight ways, which depend on the backend's shared
directory and on where the two ends lie; `UpOutside`, `DownShared` and so on
write each down as a sequence of steps over three places, `Piped` is
`copyupdown_internal()` with its two processes. `Done`, `Fails`, `CopyFails`,
`PipeFails`, `PipeCannotStart`, `FallBack` and `CopyTimesOut` say how a step or the pipe may end. `limit` is the
one `SIGALRM` that is pending: `check_exec()` inside of a copy starts and stops
it, and so cancels the one the copy has started.

### TestbedSession

The runner's call stack is `stack`, the list of what it still has to do: a call
puts the steps of the function in front, an exception drops what is in front of
the next handler. So `stop()`, `bomb()`, `debug_fail()`, `cleanup()` and the
signal handler nest as they do in the program. `to_server` and `to_runner` are the
pipes; `Write` and `Flush` are apart because a signal may come in between. Where
`process_actions()` works, any number of calls to the testbed comes before
`WorkDone`. The server (`Take`, `Serve`, `Quit`, `Dies`, `ServerFails`) answers each
command, may fail at each and ends when its input is closed and it has something to
read or to print. `stray` marks the histories that `NotForgotten` excludes; they are listed
in section 7.

### AptInstall

`CreatePin`/`SetupDone` are `run_setup_commands()`, `Revert`/`StartTest`/`EndTest`
the loop of the runner, and `Unpack` to `Purge` the phases of `install_apt()` in
the order of the code. `pins` is `apt_pin_for_releases`, `files` the pin files in
the testbed, and `blocks` says which packages apt cannot install under which
pins. `unlucky` marks that an apt command failed for no reason in the model.

### RebootHandshake, RebootSegments

Three actors: the runner (`Execute`, `LookReboot`, `LookPrepare`, `PostBootSetup`,
...), the test with the two scripts (`AskReboot`, `Killed`, `AskPrepare`,
`KillWrapper`, `Prepared`, ...) and `cmd_reboot()` (`Save`, `PrepareReboot`,
`Order`, `WaitReboot`, `Restore`, ...), with `Down` and `Up` of the testbed at any
moment; a test that goes on after a preparation may reboot before the server waits. The backends differ in what `hook_wait_reboot()` waits for: lxd compares
uptimes, ssh waits for the port to go and to come back, lxc for the container to
stop, qemu for its console. `RebootSegments` is what `README.package-tests`
promises: segments, each one started after a reboot with the mark the last one
asked with.

### TestDesc, Depends, PackageTests

`TestDesc` reads a control file stanza by stanza: `ReadTests`, `ReadName` for each
name of a `Tests` field, `ReadCommand`, `ReadInvalid` for a stanza that ends
everything; then `Filter` with the options. `Depends` reads a field group by group,
with its words `@`, `@builddeps@` and `@recommends@`, and then satisfies it:
`Resolve` drops what is for other architectures, `Apt` installs with a choice of
alternatives and providers, `InstallReal` the packages that must be real ones.
The tests taken, the groups to satisfy and those to be met by a real package are
sets: what a test finds does not depend on their order, and a test is told apart
by its stanza and its place in the field. `PackageTests` composes them: `ParseField`
comes before `ReadControl` takes the stanza of the field and decides whether that
stanza is valid, and `Satisfy` runs for a test that is left.

### QemuAuxverb, QemuPorts

`main`, the three threads (stderr is like stdout and left out), the command, `eofcat`
and the shell on the console have each their own position; the files between host
and guest are counters of blocks and flags. `CatLooks` is the order in which
`eofcat` reads the two files that say where the end is. `QemuPorts` has one process
per server: `MakeLock`, `Unlink`, `Taken`, `Free`, `Errs` (any other error of the
machine, which the code passes over with the port), then the qemu that binds the port. The
names in the two modules differ, so that `QemuProofs` extends both.

### Wrapper, BatchDriver

`Wrapper`: `Begin` to `Wait` are the sections of the script, one instance per test
in the same testbed; `Fork`, `Exit` and `BecomesRoot` are what the command does, and
`Reaches` is what the user of the wrapper may see and kill. Process numbers are
sequences of digits, since `grep -F`
compares them as strings. `BatchDriver`: `Spawn` to `WriteNoSource` are `main()`;
autopkgtest is the child with two pipes (`Says`, `ChildLogs`, `ChildWrites`, ...),
the image comes up in `StartVm` and `WaitReady`, and `Crash`/`Restart` cut a session
off and start the next on what is on disk. A session that ends with an exception
may leave its child running; what that still does to its directory is part of
`Crash`.

## 4. What the runs check

| Run | States | Bounds |
|---|---|---|
| `VirtServer` | 543 444 | nine backends, ssh in three variants, two directory names; sequences of commands, failures and signals are not bounded |
| `RunTests` | 4.76 M | two tests, two packages, one restriction each or one of four pairs that interact, every consistent set of capabilities |
| `AptInstall` | 288 778 | two packages, three releases of which one has a dot in its name, a release pinned twice, three attempts; tests are not bounded |
| `RebootHandshake` | 180 460 | two marks, two tests, four backends, reboots not bounded; perils: none, each, all |
| `Copy` | 738 | every way of copying, copies not bounded |
| `TestbedSession` | 33 658 | one signal; calls of the runner are not bounded |
| `PackageTests` | 205 332 | three stanzas, fields of two groups of three alternatives, three testbeds, twelve selections |
| `QemuAuxverb` | 166 870 | two invocations, one with input that ends and one whose input does not |
| `QemuAuxverb_OutputWhole` | to the counterexample | the same |
| `Wrapper` | 1.41 M | two tests of any users, either with or without sudo, five process numbers of which one contains another |
| `BatchDriver` | 1.17 M | four packages, one of each kind and one verbose, pipes of two, three sessions |
| `QemuPorts` | 62 297 | three servers, three ports, one of them taken |

Two tests are the least with an earlier and a later one, and two sessions and a
third that starts on what two have left. Where a bound is on what a history may
contain (tests, sessions, servers), the invariants that are proved (section 6)
hold without it. `Copy` and `TestbedSession` have finitely many states however long
they run, and their runs look at all of them: what they show is not a matter of
bounds. *Perils* are what may go wrong in a run of
`RebootHandshake` and `Wrapper`, drawn once at the start, so that a property can
say which ones it excludes; each that is excluded is one under which TLC finds
the property violated. A variable that its module calls *history* is there for a
property only: no guard reads it.

Every property has a mutant in `PROJECT.json`: a plausible bug in a modelled
definition under which TLC finds the property violated. The mutant operators
stand beside the definitions they change. A property that joins several named
parts is violated when one of them is.

**VirtServer.** `KnownWhenIdle`: between commands `downtmp` tells the truth: set,
the whole testbed exists (after reverts and reboots too); `None`, nothing does, but
for what was there before (the directory of unshare, the wrapper of ssh on a
machine it did not make). Of an earlier testbed, closed or reverted and answered
for with ok, only that can be left which a step whose failure this backend passes
over was to remove (`Shrugged`): never a container of lxd or docker, or a qemu.
`CleanedUp`: a server that has ended has left, resource by resource, no more than is
in `lost` (`CompleteCleanup`); what a revert or an except block has removed is not
removed again (`NoSecondCleanup`); the except blocks of qemu and ssh catch every
failure of their hooks (`GuardedOpenRescued`). The cases that both leave out are
refuted as properties of their own, in section 7.
`GlobalsAgree`: the types, which hook can run for which command with which flags
(`Consistent`), and the scratch directory keeps its name over close, open and
revert, so that the bomb in `cmd_revert()` about it is dead code
(`PathNeverMoves`). `RebootSettles` (liveness): a reboot is answered or ends the
server; only a cleanup step without a timeout can hold it. `KeepsProtocol`: the
refinement of `VirtProtocol`.

**RunTests.** `Isolated`: on a testbed that can revert, a test finds nothing of
the build or of other tests: no packages but its own and the runner's tools (git,
dpkg-dev, apt-utils, which the code does not track), no sudo it did not ask for,
nothing a `breaks-testbed` test did. `Provided`: the test that runs has its
dependencies, sudo and the local binaries in the testbed as it is now.
`ExitAsDocumented`: the exit status is the manual page's function of the
verdicts, or 12, 16 or 20 for an exception. `AptRestored`: without revert, apt is
restored unless the status is 20.

**AptInstall.** `TestsAlike`: a test sees the pins its own dependencies leave,
not what an earlier test made the fallback give up (`PinsAsFresh`); the program
knows the pins the testbed has (`PinsKnown`), and the dummy package is gone
(`SatdepHidden`). `FallbackHelps`: a package is called bad only if no retry is
left that could help (`BadIsBad`), and giving a pin up ends no run, unless its
file has another name or was removed already (`FallbackWorks`). `InstallEnds`
(liveness).

**RebootHandshake.** `KeepsSegments`: the refinement of `RebootSegments`.
`Resumed`: a segment finds the files as they were when the test asked, and the
commands to ask again. `BackIsSeen`: the server gives up on a testbed that has
rebooted and is back only if the test rebooted so soon after the mark had gone that
the server had nothing yet to know the reboot by (`Outrun`); that it does so then
is in section 7. `RequestSettles` (liveness): a request is resumed or
ends the run. `TypeOK`.

**Copy.** `AlarmIsOwn`: no command leaves an alarm behind. `CopiedCleanly` says
exactly what a reply of ok means after any copies that failed, timed out or fell
back. `CopiedWhole`: the copy is whole and at its place, except that `copyup` of a
directory from outside the shared one over a left-over name always ends up inside
of what is there. `LeavesOnly`: a command leaves its name in the shared directory
exactly if it put something there and then fell back to tar, and a name left by
another command stays unless this one goes through it. Both exceptions are in
section 7. `PipeEnds` (liveness).

**TestbedSession.** `InStep`: runner and server never wait for each other, the
runner keeps to the states of the protocol, takes no reply for another one,
`stop()` and `debug_fail()` do not recurse, and commands run with the auxverb of
the latest open or revert. `NotForgotten`: a runner that has ended leaves no
testbed whose server does not know. `RunEnds` (liveness).

**PackageTests.** `AsDeclared`: each declared test runs, is reported or was
excluded, nothing else runs, numbers of commands do not depend on the testbed, an
invalid stanza is never passed over. `RunsWhereItMay`: against an independent
definition of architectures and restrictions. `DependenciesMet`: a test's own
packages are real ones, each group is satisfied, and where perl dies of a field and
the testbed gets the blame, `dep_re`, whose grammar is not that of `Dpkg::Deps`, took
what it dies of, or the loop had passed it over behind a foreign package
(`BlameFits`); that the docstring promises more is in section 7. `NothingForced` (action property): nothing is installed for real
that is only an alternative to a foreign package.

**QemuAuxverb.** `InputWhole`: a command that sees the end of its input has had
all of it. `ConsoleFree`: after an invocation the console is free. `ProgramEnds`
(liveness). `TypeOK`.

**Wrapper.** `NextUnharmed`: the pid file is that of the running test, no test
fails by what an earlier one left, no tee is killed, and the hunt misses exactly what
`Missed` says: processes of root in a test that runs as a user, which the wrapper
neither sees nor may kill, processes whose number contains that of the tee, and
processes forked after the listing. `OnlyItsOwn` (action property): the hunt kills
nothing of another test. `LeaksTerminated` (liveness): the wrapper ends unless
missed processes hold its pipes for ever; that the header of the script knows no
exception is in section 7.

**BatchDriver.** `AllSorted`: a session that works its list through leaves each
package where it belongs and nowhere else (`Placed`, `NoneMisplaced`), whatever
sessions were before it. Two exceptions are exact, and in section 7: a package
without tests is in `testRes` as well when a later session has tested it again,
and the directory of the package that a session was at when it died stays as
it is. `ResultsKept` (action property): a complete result stays.
`BatchEnds` (liveness): the list is worked through, unless a child is stuck on
its stdout, which the driver does not read. `TypeOK`.

**QemuPorts.** `SearchRight`: a server is without a port only if each was taken, locked
or one at which a search had met an error of the machine;
locks stay only of servers that were killed. `SearchEnds` (liveness).

### Fairness

* `VirtServer`: the server reads and answers (it is an ordinary process), a hook
  step *with a timeout* ends or raises `Timeout`, and so does a copy. A step
  without a timeout may hang, and the model lets it.
* `AptInstall`: an installation goes on; apt runs under `--timeout-install`.
* `RebootHandshake`: runner and server, each of whose steps has a timeout. The
  testbed need never come down or up.
* `Copy`: the pipe's alarm goes off, a step that is done goes on, a reply is
  printed. A copying command need not end.
* `TestbedSession`: the runner goes on, the server takes, and answers or ends,
  for each command: what `VirtServer` shows for steps with a timeout. That
  `process_actions()` calls the testbed a finite number of times is strong fairness
  of `WorkDone`: the calls are those of a list of actions and tests.
* `QemuAuxverb`: each thread, the shell and `eofcat`; not the command, and not who
  writes stdin.
* `Wrapper`: the wrapper goes on; what it hunts need not end.
* `BatchDriver`: driver, child and the fetching of the list; a crash may come
  at any time.
* `QemuPorts`: a search that is not killed goes on.

Nothing is assumed of callers, signals or failures. Deadlock is checked but in
`QemuPorts`, `Wrapper` and `BatchDriver`, which really stop at the end (all
servers closed, all tests ended, all sessions over) or, in `BatchDriver`, on the
blocked child that `BatchEnds` names.

## 5. Assumptions

Named in the modules and evaluated by TLC in the run of each:

* `VirtServer`: `HooksAssumption`, `CapsAssumption`, `InitialAssumption` (types),
  `ForgetAssumption` (a reboot never drops `downtmp`), `SharedAssumption` (lxc and
  docker name their shared directory in `hook_open()`), `PathAssumption`. The
  tables of `Backends` satisfy them, so the theorems are about more than these
  backends.
* `HookContracts`: `RestoreContract`, `OpenContract`, `MakeContract`,
  `CleanupContract`, `ForgetContract`, `RescueContract`. Only the theorems about
  `KnownWhenIdle` and `CleanedUp` use them. They are conditions on the text of each
  hook, checked for every backend. A hook that breaks one need not break a
  property by itself, but each contract excludes a way to break one.
* `RunTests`: `PkgAssumption`, `RestrictionAssumption`, `CapSetAssumption`,
  `MaxTestsAssumption`.
* `AptInstall`: `ReleaseAssumption`, `RequestsAssumption`, `RetriesAssumption`.
* `RebootHandshake`: `MarksAssumption` (no mark is the absence of one),
  `OptionsAssumption`.
* `TestDesc`: `ControlsAssumption`; `PackageTests`: `FieldsAssumption` (types of
  what is read).
* `Copy`: `CopiesAssumption`; `Wrapper`: `WrapperAssumption`; `QemuAuxverb`:
  `StreamsAssumption`; `BatchDriver`: `BatchAssumption`; `QemuPorts`:
  `PortsAssumption`.

## 6. What is proved

`VirtServerProofs`, for any table of hooks: `TypeCorrect`, `GlobalsConsistent`
(`Consistent`), `PathStays` (`PathNeverMoves`), together `GlobalsHold`
(`GlobalsAgree`). The inductive invariant is `TypeOK /\ Consistent`; `Consistent`
is needed whole because, for example, that `downtmp` equals `downtmp_open` while
open rests on the shared directory's name, and that one on how far `hook_open()`
has got. `PathNeverMoves` follows from it. `ServerKeepsProtocol`: every initial
state maps to an initial state of `VirtProtocol`, every step to a step or a
stutter, under the same invariant.

For any table of hooks that keep the contracts: `TestbedKnown` (`KnownWhenIdle`)
and `ServerCleansUp` (`CleanedUp`). `KnownWhenIdle` speaks of the moment between two
commands and is not inductive. `Known` adds what holds elsewhere: what may be there
while no testbed is open (`IdleOK`); what must be there when a hook returns is there
or is made by a step that is still to come (`ForwardOK`, from `RestoreContract` and
`OpenContract`), and what a cleanup has removed stays away (`GoneOK`). `Finished`
says what is left: everything that exists is tracked by a hook or in `lost`, and
orphans are of steps that may be passed over (`TrackedOK`); a cleanup has removed
`downtmp` or failed to (`RemovedOK`); and at the end nothing else is there (`LeftOK`).
With `Known` it gives that an exception may leave `hook_cleanup()` anywhere:
each thing is gone, lost, or owed by the steps to come (`OwedCovers`). `Finished`
carries half of `KnownWhenIdle` and all of `CompleteCleanup`. The other parts of
`CleanedUp` need `Secured` for `NoSecondCleanup` (with `downtmp` set, everything is
there, from `ForgetContract`) and `Rescued` for `GuardedOpenRescued` (where the testbed
can exist while no except block would catch an exception). Without the contracts
both properties are false: a hook that forgets to undo a step breaks them.

`RunTestsProofs`, for any packages, restrictions, capabilities and number of
tests: `TypeCorrect`, `TestsIsolated`, `TestsProvided`, `ExitStatus`,
`AptIsRestored`, all from `RunInvariant`. Each property has an invariant that says
what holds at every point of the loop: `IsolatedInv` (what is in the testbed beyond
the image is in `deps_installed`, or `modified` is set, or the current test did
it), `ProvidedInv` (the belief about sudo is true; what earlier phases did is still
there), `AptInv`, `ExitInv` (`errorcode` is the bits of the verdicts).

`InTestbedProofs`, for any marks, backends and number of tests:
`SegmentsResumed` (`Resumed`) and `HandshakeKeepsSegments` (`KeepsSegments`). The
invariant has two halves. `Held` says where each of the three actors may be while
the runner is where it is, and where the files are (the scratch directory, then
the tar file, then both) at each stage of the reboot; it holds unless a container
may be resumed before it has stopped. `Marked` says which file holds the mark the
test asked with, and holds in an orderly run, which is where the refinement is
claimed; otherwise the mapping is constant. `TypeCorrect` (`TypeOK`) needs besides
that a runner between two tests has one left to start (`MoreTests`).
`RebootIsSeen` (`BackIsSeen`) has the invariant `Waiting`: until the server waits,
the testbed is up and has not rebooted, or the history variable `hasty` says how far
it has got ahead (`StillOld`), and from that what the server compares with and has
seen by the time the testbed is back (`HasSeen`). It holds in every run, whatever
is out of order.

`QemuProofs`, for any number of invocations of the auxverb and any streams:
`NoTruncatedInput` (`InputWhole`) and `ConsoleIsFree` (`ConsoleFree`). The invariant
orders the positions of all threads (`Queue`: one invocation at a time is at the
shell), counts the blocks (`Counted`, `Fed`) and ties the two end files to the
thread that writes them (`Left`, `SentOnce`). `TypeCorrect` (`TypeOK`) follows with
the same counts for stdout (`Copied`). For any number of servers and ports:
`SearchIsRight` (`SearchRight` of `QemuPorts`). The invariant adds that a server has
a reason for each port it has passed over (`Passed`: it is used, or an error came up
there), which no later step takes away.

`BatchDriverProofs`, for a list of any length and any number of sessions:
`PackagesSorted` (`AllSorted`), `CompleteStays` (`ResultsKept`) and `TypeCorrect`
(`TypeOK`). The invariant `IInv` says that all packages before the current one have
been dealt with (`Behind`), what the current one has got (`AtHand`), and that a child
is waited for (`ChildWaitedFor`): so only the child of the current package writes a
result, and a session that goes on to the next has none running. `Sorted` adds what
a package may look like when no session is at it (`AllLeft`), that only what belongs
there is in `emptyTest` and in the list (`Moved`, `NoneFound`), and what the child has
written by the time it says so (`AtWork`): a line that there is no source is read
before the result is sorted.

`AptInstallProofs`, for any packages, releases, pins asked for and numbers of
attempts, and whatever the archive lets apt solve: `TestsSeeTheirPins`
(`TestsAlike`) and `BadPackagesAreBad` (`FallbackHelps`). That the pins of a test are
those a fresh testbed would leave it is not inductive, as pins are given up by one
test and kept by the next. The pins left are a prefix of those asked for
(`Prefix`), and for each pin given up the dependencies on the testbed could not be
had with it (`GivenUp`); the next test runs there only if it depends on all of
these, and what is unsolvable stays so with more dependencies (`MoreIsHarder`).
`Solved` says what each phase of the installation knows of this.

`PackageTestsProofs`, for any control file, field, source package, testbed and
options, and whatever apt chooses to install: `TestsAsDeclared` (`AsDeclared`),
`TestsRunWhereTheyMay` (`RunsWhereItMay`), `TestsHaveDependencies`
(`DependenciesMet`) and `OnlyOwnForced` (`NothingForced`). The steps of `TestDesc` and
of `Depends` change disjoint variables, so there is one invariant for each.
`TestsInv` says what has become of every name that has been looked at (`Settled`),
that what is taken is declared and supported (`Taken`), and that the counter is the
number of unlabelled commands read (`Counted`), from which a command's number is
its place. `FieldInv` says that each group read has been entered where it belongs
(`FieldRead`), that those noted for a real package are of own packages only
(`SynthOwn`), that what Dpkg::Deps refuses has been through the check of the package
(`DepsValid`), and what apt has done (`Asked`, `Installed`, `OwnInstalled`).

Also in `InTestbedProofs`, for any number of tests, users and process numbers:
`TestsUnharmed` (`NextUnharmed`) and `KillsOnlyItsOwn` (`OnlyItsOwn`). The invariant
says whose wrapper may still be about (`InTurn`), who may have left the pid file
(`PidFileLeft`), and that each process a wrapper is about to kill held its own
pipes when it was listed and has had no others since (`Hunted`), since a process
number is used once, and that a holder of the pipes that is not listed is one that
is missed (`Thorough`). That grep leaves out the tee itself, whatever its number, is
`ListedAre`.

`SessionProofs`, for any set of ways to copy: `NoAlarmLeft` (`AlarmIsOwn`) and
`CopiesAreWhole` (`CopiedCleanly`). The invariant `Along` says for each way and
for each step it has come to what is in between and at the destination, and under
which alarm: only the whole list of a way's steps tells what the next one works on.

Also in `SessionProofs`: `SessionInStep` (`InStep`) and `TestbedNotForgotten`
(`NotForgotten`), from one invariant, `SInv`. Its first part is about the stack alone
(`StackInv`): each step is followed by what the program does after it (`Link`),
`stop()` waits and `debug_fail()` tries once, and after a signal the steps of the
handler come first. An action replaces the first step, drops steps or puts some in
front, and one lemma for each of these (`Replaced`, `RaisedIs`, `SignalledIs`,
`SkippedIs`) shows that all this is kept, however deep the stack is; so the proof of
an action looks at two steps. The rest of `SInv` is about what cannot be seen in the
stack. Neither property is inductive: that a reply belongs to the command rests on
nothing else being under way when it was sent (`Flight`), and this on where an
exception may leave the runner (`Astray`) and an alarm may still be pending
(`AlarmInv`, `Unflushed`); that a command is legal rests on what all lines ahead of
it in the pipe do (`ServerInv`) and on what the runner may believe of the testbed at
each step (`Points`, `Ready`); that a testbed is not forgotten, on who is still to
tell the server, the pipe or a step of the handler (`Telling`, `Duty`).

Only model-checked: all liveness (`RebootSettles`, `InstallEnds`, `RequestSettles`,
`PipeEnds`, `RunEnds`, `ProgramEnds`, `LeaksTerminated`, `BatchEnds`, `SearchEnds`),
since `ENABLED` and fairness are outside the prover's reach.

## 7. Where documentation and code differ

Each is a definition in the last section of its module, with the words of the
documentation; TLC refutes it when it is named in the configuration of the module's
run as an `INVARIANT`, or as a `PROPERTY` if it is temporal. One, where output is
lost without anything having failed, is a run of its own.

| Definition | What the code does |
|---|---|
| `QemuAuxverb.OutputWhole` (run) | an output thread that finds nothing to read and then `running` cleared ends, though a block has come in between |
| `QemuAuxverb.SeveralAtOnce` | a second command waits until the first one has ended: one console |
| `QemuPorts.PortIsFree` | the port is tried and let go; two servers may choose the same |
| `VirtServer.EofEndsServer` | a server whose caller has gone polls its closed stdin for ever |
| `VirtServer.CloseUndoes` | `close` is answered with ok though `lxc-destroy`, `schroot --end-session` or the `rm` of the scratch directory has failed |
| `VirtServer.SignalClosesTestbed` | a signal between the making of the testbed and the assignment of `downtmp` leaves it behind |
| `VirtServer.SignalClosesReopened` | after the first `close` the handlers are `SIG_DFL`: a signal leaves a testbed that was opened again |
| `VirtServer.ErrorClosesTestbed` | a failing `hook_downtmp()` leaves the testbed behind |
| `VirtServer.FailedSetupCleaned` | with a sudo password the except block of ssh runs an `rm` in the testbed before it calls the setup script: it raises if there is no auxverb, and the machine stays |
| `VirtServer.QuitClosesTestbed` | `quit` exits with 0 though the cleanup failed |
| `RebootHandshake.ReadyWhenUnmarked` | the mark goes before `hook_prepare_reboot()` and `hook_wait_reboot()`: a test that reboots at once is back before the server looks (qemu, ssh) or down when it asks for the uptime (lxd), and the server gives up on it; lxc goes on after a minute |
| `Copy.ArrivesInPlace` | `cp -r` of a directory to a name that an earlier copy has left in the shared directory goes inside of it, and the reply is ok |
| `Copy.IntermediateRemoved` | a copy that falls back to tar leaves the intermediate copy |
| `Copy.CopyEnds` | only a copy through the pipe is under the timeout of copies: the others are cancelled by their first nested command |
| `TestbedSession.SignalCloses` | SIGTERM before `stop()` has sent `close`, or while the reply to `open` is read, leaves the testbed to a server that reads end of file only |
| `TestbedSession.InterruptCloses` | SIGINT has no handler: the runner ends without `close` or `quit`, wherever it is |
| `TestbedSession.AuxverbValid` | `binaries.reset()` in `cleanup()` executes with the auxverb of a testbed that `bomb()` has already closed |
| `TestbedSession.AlarmHasCommand` | `execute()` does not stop its alarm when the output is not decodable |
| `RunTests.SkipsSurvive` | status 14 is not given when the erroneous package is found by an exception that reaches `main()`; it is 12 |
| `RunTests.TimeoutIsFailure` | a test that times out and destroys the testbed ends a run with more tests in 16, not 4 |
| `AptInstall.FallbackNeverFatal` | the file of a pin is looked for under another name if that of the release has a dot, and has gone if the release was pinned twice: `rm` fails, and the run ends in 16 |
| `AptInstall.SatdepRemoved` | the dummy package stays on a testbed without revert when a package is found bad |
| `Depends.SyntaxValidated` | `dep_re` takes what `Dpkg::Deps` does not, `foo (>= )` for one, and nothing is checked behind a foreign package of a group: perl dies of it, and the testbed is said to have failed |
| `TestDesc.SkipsReported` | a Test-Command asked for by its name is left out without a report |
| `TestDesc.IndividualOutput` | two tests of one name write to the same files |
| `Wrapper.LeaksAllTerminated` | three kinds of leaked processes stay, and the wrapper waits for them: those of root in a test that runs as a user and has sudo; those with the number of a tee in their own; those that were forked between `find` and `kill` |
| `BatchDriver.ResultsComplete` | the directory of a test that a crash has cut off is passed over by the next session |
| `BatchDriver.EmptySorted` | each later session tests a package without tests again, and its `mv` fails as there is one in `emptyTest`: the directory is in `testRes` too; a crash before the result is moved leaves it in `testRes` only |
| `BatchDriver.SourceWhole` | the tree is copied when a later line on stderr shows up, whether or not the child has written all of it by then, or not at all after a crash |
| `BatchDriver.ListEnds` | `waitReady()` asks for ever for a machine that does not come up |

The comment before each definition is exact about the case.

## 8. What is not modelled, and why

* In the server: `shell` and `auxverb-debug-fail` (interactive debugging), what is
  written to logs.
* In the backends: command lines and configuration; lxc and docker without a
  shared directory; the provisioning inside a ssh setup script.
* In the runner: the contents of the build, `--shell-fail`; in the client: the
  installation without root, and the set-up commands a user gives.
* In the test descriptions: the click manifest, the syntax of `debian/control`.
* `lib/autopkgtest_args.py` (options into fields), `lib/adtlog.py` (formatting),
  `auto.sh` (a loop over scripts that are not in the repository), `await-boot.sh`
  (a loop on the state of systemd), the image builders in `tools/`,
  `setup-commands/`, `ssh-setup/`, and in `lib/sftp.py` and `lib/ssh_cmd.py` what the
  driver does not use: no state of their own that outlives a call, or pure I/O.
