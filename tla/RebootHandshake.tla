-------------------------- MODULE RebootHandshake --------------------------
(***************************************************************************)
(* How a test reboots its testbed: the test and the two scripts it may     *)
(* call (reboot.sh, reboot-prepare.sh), the loop in Testbed.run_test(),    *)
(* and cmd_reboot() of the server with hook_prepare_reboot() and           *)
(* hook_wait_reboot() of the four backends that can reboot.  The three     *)
(* run at the same time; a test that has only asked for a preparation      *)
(* reboots the testbed itself, whenever it likes.                          *)
(*                                                                         *)
(* The scratch directory is represented by the mark of the segment that    *)
(* wrote to it last.                                                       *)
(***************************************************************************)
EXTENDS Naturals

CONSTANTS
    Marks,      \* arguments of the scripts that are more than blanks
    NoMark,     \* no file, no variable
    Blank,      \* an argument of blanks only; [ -n "$1" ] lets it pass
    Kinds,      \* backends: a subset of {"lxc", "lxd", "qemu", "ssh"}
    Perils,     \* what may be out of order in a run: a set of subsets of Peril
    MaxTests

\* Tests ask with a blank mark; share their testbed, which is not reverted.  The
\* scripts fail after they have written the mark; a container takes more than a
\* minute to stop.
Peril == {"blank mark", "shared testbed", "script failure", "slow stop"}

Lost == "lost"
Asked == Marks \cup {Blank}
File == Asked \cup {NoMark}

ASSUME MarksAssumption ==
    /\ NoMark \notin Marks \cup {Blank} /\ Blank \notin Marks /\ Lost \notin File
ASSUME OptionsAssumption ==
    /\ Kinds \subseteq {"lxc", "lxd", "qemu", "ssh"} /\ Perils \subseteq SUBSET Peril
    /\ MaxTests \in Nat \ {0}

VARIABLES
    kind, perils,
    tests,       \* tests started so far
    runner,      \* "between", "start", "exec", "killed", "reboot", "judged",
                 \* "over", "failed"
    last_reboot_marker,
    pid,         \* the test: "none", "runs", "marked", "prepares", "waits",
                 \* "goes on"
    env_mark,    \* its AUTOPKGTEST_REBOOT_MARK
    server,      \* "idle", "save", "unmark", "prepare", "order", "wait",
                 \* "restore", "ok", "failed"
    prepare_only,
    initial_uptime, \* what hook_prepare_reboot() of lxd has seen: "none",
                 \* "old" (before the reboot), "new"
    seen,        \* hook_wait_reboot() of the others has seen what it waits for
    up, rebooted, \* the testbed runs; it has booted since the test asked
    hasty,       \* history: how far it had got with a reboot when the server was
                 \* not waiting for one: "no", "down", "back"
    mark, prepare_mark, \* the files in /run
    scripts,     \* /tmp/autopkgtest-reboot and -prepare are there
    downtmp,     \* the scratch directory, as a mark or Lost
    tar,         \* the copy of it
    asked        \* the mark the test asked with, until the next segment

chosen  == <<kind, perils>>
loop    == <<tests, runner, last_reboot_marker>>
process == <<pid, env_mark, asked>>
command == <<server, prepare_only, initial_uptime, seen>>
testbed == <<up, rebooted, hasty, mark, prepare_mark, scripts, downtmp, tar>>
vars == <<chosen, loop, process, command, testbed>>

TypeOK ==
    /\ kind \in Kinds /\ perils \in Perils
    /\ tests \in 0..MaxTests
    /\ runner \in {"between", "start", "exec", "killed", "reboot", "judged",
                   "over", "failed"}
    /\ last_reboot_marker \in Marks \cup {NoMark}
    /\ pid \in {"none", "runs", "marked", "prepares", "waits", "goes on"}
    /\ env_mark \in Marks \cup {NoMark} /\ asked \in File
    /\ server \in {"idle", "save", "unmark", "prepare", "order", "wait",
                   "restore", "ok", "failed"}
    /\ prepare_only \in BOOLEAN
    /\ initial_uptime \in {"none", "old", "new"}
    /\ seen \in BOOLEAN /\ up \in BOOLEAN /\ rebooted \in BOOLEAN
    /\ hasty \in {"no", "down", "back"}
    /\ mark \in File /\ prepare_mark \in File
    /\ scripts \in BOOLEAN
    /\ downtmp \in File \cup {Lost} /\ tar \in File \cup {Lost}

Init ==
    /\ kind \in Kinds /\ perils \in Perils
    /\ tests = 0 /\ runner = "between" /\ last_reboot_marker = NoMark
    /\ pid = "none" /\ env_mark = NoMark /\ asked = NoMark
    /\ server = "idle" /\ prepare_only = FALSE
    /\ initial_uptime = "none" /\ seen = FALSE
    /\ up = TRUE /\ rebooted = FALSE /\ hasty = "no"
    /\ mark = NoMark /\ prepare_mark = NoMark
    /\ scripts = TRUE /\ downtmp = NoMark /\ tar = NoMark
-----------------------------------------------------------------------------
(* The runner: run_test().                                                 *)

\* The next test; a revert gives it a new testbed.
NextTest ==
    /\ runner = "between"
    /\ tests' = tests + 1
    /\ runner' = "start" /\ last_reboot_marker' = NoMark
    /\ IF "shared testbed" \in perils
       THEN UNCHANGED <<up, scripts, downtmp, mark, prepare_mark>>
       ELSE /\ up' = TRUE /\ scripts' = TRUE /\ downtmp' = NoMark
            /\ mark' = NoMark /\ prepare_mark' = NoMark
    /\ UNCHANGED <<chosen, process, command, rebooted, hasty, tar>>

\* execute(): a segment starts.
Execute ==
    /\ runner = "start" /\ up
    /\ runner' = "exec"
    /\ pid' = "runs" /\ env_mark' = last_reboot_marker /\ asked' = NoMark
    /\ rebooted' = FALSE /\ hasty' = "no"
    /\ UNCHANGED <<chosen, tests, last_reboot_marker, command, up, mark,
                   prepare_mark, scripts, downtmp, tar>>

\* execute() raises Timeout and kills what it has started.
TimesOut ==
    /\ runner = "exec"
    /\ runner' = "judged" /\ pid' = "none"
    /\ UNCHANGED <<chosen, tests, last_reboot_marker, env_mark, asked, command,
                   testbed>>

Strip(m) == IF m = Blank THEN NoMark ELSE m

\* SIGKILL, and cat finds the mark of autopkgtest-reboot.
LookReboot ==
    /\ runner = "killed" /\ mark # NoMark
    /\ last_reboot_marker' = Strip(mark)
    /\ runner' = "reboot" /\ server' = "save" /\ prepare_only' = FALSE
    /\ UNCHANGED <<chosen, tests, process, initial_uptime, seen, testbed>>

\* It does not, but it finds the one of autopkgtest-reboot-prepare.
LookPrepare ==
    /\ runner = "killed" /\ mark = NoMark /\ prepare_mark # NoMark
    /\ last_reboot_marker' = Strip(prepare_mark)
    /\ runner' = "reboot" /\ server' = "save" /\ prepare_only' = TRUE
    /\ UNCHANGED <<chosen, tests, process, initial_uptime, seen, testbed>>

LookFails ==
    /\ runner = "killed" /\ mark = NoMark /\ prepare_mark = NoMark
    /\ runner' = "judged"
    /\ UNCHANGED <<chosen, tests, last_reboot_marker, process, command, testbed>>

\* The reply to reboot: post_boot_setup().
PostBootSetup ==
    /\ runner = "reboot" /\ server = "ok" /\ up
    /\ server' = "idle" /\ runner' = "start"
    /\ scripts' = TRUE
    /\ UNCHANGED <<chosen, tests, last_reboot_marker, process, prepare_only,
                   initial_uptime, seen, up, rebooted, hasty, mark,
                   prepare_mark, downtmp, tar>>

\* The server has failed, or a command on the testbed does: bomb().
Fails ==
    /\ \/ runner = "reboot" /\ server = "failed"
       \/ runner \in {"start", "killed"}
       \/ runner = "reboot" /\ server = "ok"
    /\ runner' = "failed" /\ pid' = "none"
    /\ UNCHANGED <<chosen, tests, last_reboot_marker, env_mark, asked, command,
                   testbed>>

\* Mutant of Report: one test too many.
ReportOffByOne ==
    /\ runner = "judged"
    /\ runner' = IF tests <= MaxTests THEN "between" ELSE "over"
    /\ asked' = NoMark /\ env_mark' = NoMark
    /\ downtmp' = NoMark
    /\ UNCHANGED <<chosen, tests, last_reboot_marker, pid, command, up,
                   rebooted, hasty, mark, prepare_mark, scripts, tar>>

\* copyup of the output, verdict, rm of the artifacts.
Report ==
    /\ runner = "judged"
    /\ runner' = IF tests < MaxTests THEN "between" ELSE "over"
    /\ asked' = NoMark /\ env_mark' = NoMark
    /\ downtmp' = NoMark
    /\ UNCHANGED <<chosen, tests, last_reboot_marker, pid, command, up,
                   rebooted, hasty, mark, prepare_mark, scripts, tar>>

Runner ==
    \/ NextTest \/ Execute \/ TimesOut \/ LookReboot \/ LookPrepare
    \/ LookFails \/ PostBootSetup \/ Fails \/ Report
-----------------------------------------------------------------------------
(* The test and its scripts.                                               *)

MayAsk(m) == m = Blank => "blank mark" \in perils

\* It writes artifacts under the name of its mark, and reboot.sh the mark.
AskReboot(m) ==
    /\ pid = "runs" /\ scripts /\ MayAsk(m)
    /\ downtmp' = m /\ mark' = m /\ asked' = m
    /\ pid' = "marked"
    /\ UNCHANGED <<chosen, loop, env_mark, command, up, rebooted, hasty,
                   prepare_mark, scripts, tar>>

\* reboot.sh kills the test, or somebody else does (out of memory).
Killed ==
    /\ pid \in {"runs", "marked"}
    /\ pid' = "none" /\ runner' = "killed"
    /\ UNCHANGED <<chosen, tests, last_reboot_marker, env_mark, asked, command,
                   testbed>>

AskPrepare(m) ==
    /\ pid = "runs" /\ scripts /\ MayAsk(m)
    /\ downtmp' = m /\ prepare_mark' = m /\ asked' = m
    /\ pid' = "prepares"
    /\ UNCHANGED <<chosen, loop, env_mark, command, up, rebooted, hasty, mark,
                   scripts, tar>>

\* reboot-prepare.sh kills the wrapper; the test stays.
KillWrapper ==
    /\ pid = "prepares"
    /\ pid' = "waits" /\ runner' = "killed"
    /\ UNCHANGED <<chosen, tests, last_reboot_marker, env_mark, asked, command,
                   testbed>>

\* reboot-prepare.sh sees that the mark has gone and returns to the test, which
\* may write once more before it reboots.
Prepared ==
    /\ pid = "waits" /\ prepare_mark = NoMark
    /\ pid' = "goes on"
    /\ downtmp' \in {downtmp, NoMark}
    /\ UNCHANGED <<chosen, loop, env_mark, asked, command, up, rebooted,
                   hasty, mark, prepare_mark, scripts, tar>>

\* No pid file, or a caller that is not below the wrapper: set -e ends the script
\* and the test goes on.
ScriptFails ==
    /\ "script failure" \in perils /\ pid \in {"marked", "prepares"}
    /\ pid' = "runs"
    /\ UNCHANGED <<chosen, loop, env_mark, asked, command, testbed>>

\* The test ends by itself.
Exits ==
    /\ pid = "runs"
    /\ pid' = "none" /\ runner' = "judged"
    /\ UNCHANGED <<chosen, tests, last_reboot_marker, env_mark, asked, command,
                   testbed>>

Test ==
    \/ \E m \in Asked : AskReboot(m) \/ AskPrepare(m)
    \/ Killed \/ KillWrapper \/ Prepared \/ ScriptFails \/ Exits
-----------------------------------------------------------------------------
(* The testbed.                                                            *)

\* lxc-wait and wait_port_down() wait for the testbed to go away.
SeesDown == kind \in {"lxc", "ssh"}

\* (What becomes of a test that lxc has resumed before the testbed went down is
\* not followed.)  A test that goes on reboots when it likes, whether the server
\* waits by then or not.  /run is gone, /tmp and the scratch directory may be.
Down ==
    /\ up
    /\ \/ server = "wait" /\ ~prepare_only /\ ~rebooted
       \/ pid = "goes on"
    /\ up' = FALSE
    /\ pid' = "none" /\ mark' = NoMark /\ prepare_mark' = NoMark
    /\ scripts' \in {FALSE, scripts}
    /\ downtmp' \in {Lost, downtmp}
    /\ hasty' = IF server = "wait" THEN hasty ELSE "down"
    /\ seen' = (seen \/ (server = "wait" /\ SeesDown))
    /\ UNCHANGED <<chosen, loop, env_mark, asked, server, prepare_only,
                   initial_uptime, rebooted, tar>>

Up ==
    /\ ~up /\ up' = TRUE /\ rebooted' = TRUE
    /\ hasty' = IF server # "wait" /\ hasty = "down" THEN "back" ELSE hasty
    /\ seen' = (seen \/ (server = "wait" /\ kind = "qemu"))
    /\ UNCHANGED <<chosen, loop, process, server, prepare_only, initial_uptime,
                   mark, prepare_mark, scripts, downtmp, tar>>
-----------------------------------------------------------------------------
(* The server: cmd_reboot().                                               *)

\* tar, and then rm of the mark, in one script.
Save ==
    /\ server \in {"save", "unmark"}
    /\ IF server = "save"
       THEN server' = "unmark" /\ tar' = downtmp /\ UNCHANGED prepare_mark
       ELSE server' = "prepare" /\ prepare_mark' = NoMark /\ UNCHANGED tar
    /\ UNCHANGED <<chosen, loop, process, prepare_only, initial_uptime, seen, up,
                   rebooted, hasty, mark, scripts, downtmp>>

\* Mutant of PrepareReboot: the uptime is taken too late.
PrepareRebootLate ==
    /\ server = "prepare"
    /\ server' = IF prepare_only THEN "wait" ELSE "order"
    /\ initial_uptime' = "new"
    /\ seen' = (prepare_only /\ ~up /\ SeesDown)
    /\ UNCHANGED <<chosen, loop, process, prepare_only, testbed>>

\* get_uptime(), of which nothing comes when the testbed is down.
Uptime ==
    IF kind # "lxd" \/ ~up THEN "none" ELSE IF rebooted THEN "new" ELSE "old"

\* hook_prepare_reboot(): only lxd looks at the testbed.  A server that goes on
\* to wait for a testbed that is down sees that at once.
PrepareReboot ==
    /\ server = "prepare"
    /\ server' = IF prepare_only THEN "wait" ELSE "order"
    /\ initial_uptime' = Uptime
    /\ seen' = (prepare_only /\ ~up /\ SeesDown)
    /\ UNCHANGED <<chosen, loop, process, prepare_only, testbed>>

\* reboot_testbed(): the testbed goes down in three seconds, when the server
\* waits for it.
Order ==
    /\ server = "order"
    /\ server' = "wait"
    /\ seen' = (~up /\ SeesDown)
    /\ UNCHANGED <<chosen, loop, process, prepare_only, initial_uptime, testbed>>

\* lxc-wait gives up after 60 seconds, on a container that has not stopped or is
\* back already; nobody looks at its status.
StopWaitTimesOut ==
    /\ server = "wait" /\ kind = "lxc" /\ ~seen
    /\ "slow stop" \in perils \/ rebooted
    /\ seen' = TRUE
    /\ UNCHANGED <<chosen, loop, process, server, prepare_only, initial_uptime,
                   testbed>>

\* Mutant of BackAgain: any testbed that answers is taken for rebooted.
BackAgainUp == up

\* What hook_wait_reboot() takes for the end of a reboot: a smaller uptime, a
\* testbed that answers after it did not, a login prompt on the console.
BackAgain ==
    /\ up
    /\ IF kind = "lxd" THEN initial_uptime = "old" /\ rebooted ELSE seen

WaitReboot ==
    /\ server = "wait" /\ BackAgain
    /\ server' = "restore"
    /\ UNCHANGED <<chosen, loop, process, prepare_only, initial_uptime, seen,
                   testbed>>

\* Mutant of GiveUp: it looks again, for ever.
GiveUpNever == server = "wait" /\ ~BackAgain /\ UNCHANGED vars

\* A retry too many, or a comparison with no uptime at all.  (lxc finds out that
\* the container is back when lxc-wait gives up.)
GiveUp ==
    /\ server = "wait" /\ ~BackAgain
    /\ ~(kind = "lxc" /\ up /\ rebooted)
    /\ server' = "failed"
    /\ UNCHANGED <<chosen, loop, process, prepare_only, initial_uptime, seen,
                   testbed>>

\* Mutant of Restore: the tar file is removed and not extracted.
RestoreNothing ==
    /\ server = "restore" /\ up
    /\ server' = "ok" /\ tar' = NoMark
    /\ UNCHANGED <<chosen, loop, process, prepare_only, initial_uptime, seen, up,
                   rebooted, hasty, mark, prepare_mark, scripts, downtmp>>

Restore ==
    /\ server = "restore" /\ up
    /\ server' = "ok"
    /\ downtmp' = tar /\ tar' = NoMark
    /\ UNCHANGED <<chosen, loop, process, prepare_only, initial_uptime, seen, up,
                   rebooted, hasty, mark, prepare_mark, scripts>>

\* check_exec() fails, or what a hook or reboot_testbed() talks to does not answer.
ServerFails ==
    /\ server \in {"save", "unmark", "prepare", "order", "restore"}
    /\ server' = "failed"
    /\ UNCHANGED <<chosen, loop, process, prepare_only, initial_uptime, seen,
                   testbed>>

Server ==
    \/ Save \/ PrepareReboot \/ Order \/ StopWaitTimesOut \/ WaitReboot
    \/ GiveUp \/ Restore \/ ServerFails
-----------------------------------------------------------------------------
Ended == runner \in {"over", "failed"} /\ UNCHANGED vars

Next == Runner \/ Test \/ Down \/ Up \/ Server \/ Ended

Spec == Init /\ [][Next]_vars

\* The runner and the server have a timeout for everything they do, a test too.
\* No reboot need ever come about.
FairSpec == Spec /\ WF_vars(Runner) /\ WF_vars(Server)
-----------------------------------------------------------------------------
(* Properties.                                                             *)

\* The phase of a test whose runner is at r, that has asked with a, and whose
\* testbed has rebooted since or not.
PhaseOf(r, a, again) ==
    IF r \in {"judged", "over", "failed"} THEN "over"
    ELSE IF a # NoMark THEN IF again THEN "rebooted" ELSE "asked"
    ELSE IF r \in {"between", "start"} THEN "off" ELSE "runs"

\* The segments are followed where nothing is out of order that breaks them.
Orderly == perils = {}

SegmentPhase == IF Orderly THEN PhaseOf(runner, asked, rebooted) ELSE "off"
GivenMark == IF SegmentPhase \in {"runs", "asked", "rebooted"} THEN env_mark ELSE NoMark
WantedMark == IF SegmentPhase \in {"asked", "rebooted"} THEN asked ELSE NoMark

Segments == INSTANCE RebootSegments WITH
    phase <- SegmentPhase, given <- GivenMark, wanted <- WantedMark

\* A test runs in segments as the documentation says: each one after the first
\* starts after a reboot and with the mark the one before has asked for.  That
\* takes a testbed of its own, marks that are not blank, scripts that do not fail
\* after they have written one, and containers that stop within a minute.
KeepsSegments == Segments!Spec

\* A segment after the first finds the files as they were when the one before
\* it asked: tar in cmd_reboot(), whatever the reboot does to the directory,
\* unless a container was resumed before it has stopped.
FilesKept == "slow stop" \notin perils /\ runner = "start" /\ asked # NoMark => downtmp = asked

\* A test that runs can reboot the testbed, though a reboot removes the
\* commands: post_boot_setup(); with the same exception.
HasScripts == "slow stop" \notin perils /\ pid = "runs" => scripts

\* A segment has what it needs to go on and to ask again.
Resumed == FilesKept /\ HasScripts

\* The testbed has got ahead of what the server will know its reboot by: the
\* uptime of the old system, the port that closes, the prompt on the console.
\* (lxc takes any container that answers after a minute.)
Outrun ==
    \/ kind = "lxd" /\ hasty # "no"
    \/ kind \in {"qemu", "ssh"} /\ hasty = "back"

\* The server never gives up on a testbed that has rebooted and is back, unless
\* the reboot came after cmd_reboot() had removed the mark and before it looked
\* for what the backend knows a reboot by; that is the only way to outrun it.
BackIsSeen ==
    [][server = "wait" /\ server' = "failed" /\ up /\ rebooted => Outrun]_vars

\* Not so, though reboot-prepare.sh says that the mark goes when the backend "is
\* ready for us to return control to the test script, which will trigger the
\* actual reboot": the server never gives up on a testbed that is back.
ReadyWhenUnmarked ==
    [][server = "wait" /\ server' = "failed" => ~(up /\ rebooted)]_vars

\* A test that has asked is resumed, or the run ends.
RequestSettles == runner = "killed" ~> runner \notin {"killed", "reboot"}
=============================================================================
