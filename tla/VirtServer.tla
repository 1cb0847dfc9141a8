----------------------------- MODULE VirtServer -----------------------------
(***************************************************************************)
(* A virtualisation server: the main loop of lib/VirtSubproc.py together   *)
(* with the hooks of one of the virt/autopkgtest-virt-* backends.          *)
(*                                                                         *)
(* The server reads one command, runs the hooks the command needs, and     *)
(* prints a reply.  A hook is a sequence of steps (constant Hooks, whose   *)
(* values for the backends of the repository are in module Backends); each *)
(* step acquires or gives up resources of the testbed, or only checks      *)
(* something, and fails in the ways its record lists.  A failure is an     *)
(* exception that unwinds to mainloop(), which runs cleanup() and exits; a *)
(* signal runs cleanup() wherever the server is and then kills it.         *)
(***************************************************************************)
EXTENDS Naturals, Sequences, FiniteSets

CONSTANTS
    Backend,   \* the backends whose hooks are known
    Hooks,     \* Hooks[b][h]: the steps of hook h of backend b
    Caps,      \* Caps[b]: which of "revert" and "reboot" backend b advertises
    Initial,   \* Initial[b]: what backend b creates before the main loop
    HostShared,\* backends whose hook_downtmp() names a directory in shared_dir
    Path,      \* directory names mktemp can give
    NoPath     \* Python's None

Resource == {"tmp", "inst", "share", "dir", "tar", "pass", "wrap"}

\* What is in the testbed, and goes with it.
Inside == {"tmp", "tar", "pass", "wrap"}

HookName == {"open", "tmp", "revert", "cleanup", "rescue", "reboot"}
Command  == {"open", "close", "revert", "reboot", "copyup", "copydown",
             "print-execute-command", "capabilities", "quit", "bogus"}
Failure  == {"refuse", "raise", "rescue", "skip"}

\* One step of a hook: what it does, with which resources; `fresh` when it
\* fails if they exist already; `needs` what must exist; `fails` how it can
\* fail: an exception before it takes effect ("refuse"), or before or after
\* ("raise"), or one that the hook's own except block catches ("rescue"), or a
\* failure the code shrugs off ("skip"); `timed` when a timeout bounds it.
Step == [does  : {"gain", "lose", "forget", "check", "boot"},
         on    : SUBSET Resource,
         fresh : BOOLEAN,
         needs : SUBSET Resource,
         fails : SUBSET Failure,
         timed : BOOLEAN]

ASSUME HooksAssumption == Hooks \in [Backend -> [HookName -> Seq(Step)]]
ASSUME CapsAssumption  == Caps \in [Backend -> SUBSET {"revert", "reboot"}]
ASSUME InitialAssumption == Initial \in [Backend -> SUBSET Resource]
\* Only hook_revert(), hook_cleanup() and the except blocks lose downtmp, and a
\* backend with a shared directory makes it in hook_open().
ASSUME ForgetAssumption ==
    \A b \in Backend : \A k \in 1..Len(Hooks[b]["reboot"]) :
        Hooks[b]["reboot"][k].does # "forget"
ASSUME SharedAssumption ==
    \A b \in HostShared \cap Backend : \E k \in 1..Len(Hooks[b]["open"]) :
        /\ Hooks[b]["open"][k].does = "gain"
        /\ "share" \in Hooks[b]["open"][k].on
ASSUME PathAssumption == NoPath \notin Path /\ Path # {}

VARIABLES
    backend,      \* which backend this server is
    alive,        \* the caller still holds the server's stdin and stdout
    cmd,          \* the command line sent and not yet answered, or "none"
    reply,        \* the last reply printed
    at,           \* where the server is: "read", "hook", "copy", "reply", "exited"
    hook, pos,    \* the hook running and the index of its next step
    why,          \* what cleanup() runs for: "close", "quit", "error", "signal"
    caught,       \* an exception out of the signal handler would be rescued
    downtmp,      \* VirtSubproc.downtmp
    downtmp_open, \* VirtSubproc.downtmp_open
    shared_dir,   \* the host directory lxc and docker share with the testbed
    cleaning,     \* VirtSubproc.cleaning
    handlers,     \* prepare()'s handlers are installed (else SIG_DFL)
    res,          \* resources that exist and that the hooks still track
    orphans,      \* resources a failed step left behind
    lost,         \* resources whose removal has failed or was cut off
    exit          \* how the server ended

run     == <<at, hook, pos, why, exit>>
globals == <<downtmp, cleaning, handlers, lost>>
testbed == <<res, orphans>>
vars == <<backend, alive, cmd, reply, run, caught, downtmp_open, shared_dir,
          globals, testbed>>

Reply == [cmd : Command \cup {"none"}, ok : BOOLEAN, path : Path \cup {NoPath}]

TypeOK ==
    /\ backend \in Backend
    /\ alive \in BOOLEAN
    /\ cmd \in Command \cup {"none"}
    /\ reply \in Reply
    /\ at \in {"read", "hook", "copy", "reply", "exited"}
    /\ hook \in HookName
    /\ pos \in Nat \ {0}
    /\ why \in {"close", "quit", "error", "signal"}
    /\ caught \in BOOLEAN
    /\ downtmp \in Path \cup {NoPath}
    /\ downtmp_open \in Path \cup {NoPath}
    /\ shared_dir \in Path \cup {NoPath}
    /\ cleaning \in BOOLEAN
    /\ handlers \in BOOLEAN
    /\ res \in SUBSET Resource
    /\ orphans \in SUBSET Resource
    /\ lost \in SUBSET Resource
    /\ exit \in {"none", "quit", "error", "signal"}

Init ==
    /\ backend \in Backend
    /\ alive = TRUE
    /\ cmd = "none"
    /\ reply = [cmd |-> "none", ok |-> TRUE, path |-> NoPath]
    /\ at = "read" /\ hook = "cleanup" /\ pos = 1 /\ why = "close"
    /\ exit = "none"
    /\ caught = FALSE
    /\ downtmp = NoPath /\ downtmp_open = NoPath /\ shared_dir = NoPath
    /\ cleaning = FALSE
    /\ handlers = TRUE
    /\ res = Initial[backend] /\ orphans = {}
    /\ lost = {}

Opened  == downtmp # NoPath
Program == Hooks[backend][hook]
Current == Program[pos]

\* What the steps of the hook from the next one on give up.
Owed == {x \in Resource : \E k \in 1..Len(Program) :
            k >= pos /\ Program[k].does \in {"lose", "forget"} /\ x \in Program[k].on}

InHook  == at = "hook" /\ pos <= Len(Program)
HookEnd == at = "hook" /\ pos > Len(Program)
-----------------------------------------------------------------------------
(* The caller: the process on the other end of stdin and stdout.           *)

Send(c) ==
    /\ alive /\ at = "read" /\ cmd = "none"
    /\ cmd' = c
    /\ UNCHANGED <<backend, alive, reply, run, caught, downtmp_open,
                   shared_dir, globals, testbed>>

CallerExits ==
    /\ alive
    /\ alive' = FALSE
    /\ UNCHANGED <<backend, cmd, reply, run, caught, downtmp_open, shared_dir,
                   globals, testbed>>
-----------------------------------------------------------------------------
(* cleanup() and the ways out of the server.                               *)

EnterHook(h) == at' = "hook" /\ hook' = h /\ pos' = 1

Ends(w, how) == at' = "exited" /\ exit' = how /\ why' = w /\ UNCHANGED <<hook, pos>>

\* What follows cleanup(): the reply to close, sys.exit() in mainloop(), or the
\* handler's os.kill() of its own process.
Cleaned(w) ==
    \/ w = "close" /\ at' = "reply" /\ why' = w /\ UNCHANGED <<hook, pos, exit>>
    \/ w # "close" /\ Ends(w, w)

\* cleanup(): the handlers go back to SIG_DFL for good; hook_cleanup() runs only
\* when downtmp is set, and not when it is already running.  What a hook has made
\* before downtmp is assigned, nobody removes.  (`l` is what is lost so far.)
EnterCleanup(w, l) ==
    /\ handlers' = FALSE
    /\ \/ /\ cleaning
          /\ Cleaned(w)
          /\ lost' = l
          /\ UNCHANGED <<cleaning, downtmp>>
       \/ /\ ~cleaning /\ Opened
          /\ cleaning' = TRUE
          /\ EnterHook("cleanup") /\ why' = w
          /\ lost' = l
          /\ UNCHANGED <<downtmp, exit>>
       \/ /\ ~cleaning /\ ~Opened
          /\ Cleaned(w)
          /\ lost' = IF at = "hook" THEN Resource ELSE l
          /\ UNCHANGED <<cleaning, downtmp>>

\* An exception leaves hook_cleanup(): error_cleanup() swallows it and the exit
\* status stays what it was; out of cmd_close() or the signal handler it goes
\* to mainloop(), whose cleanup() finds `cleaning` set and does nothing.  What the
\* rest of hook_cleanup() would have removed stays.
RaiseInCleanup ==
    /\ lost' = lost \cup Owed
    /\ handlers' = FALSE
    /\ UNCHANGED <<downtmp, cleaning>>
    /\ \/ why = "signal" /\ caught /\ EnterHook("rescue")
          /\ why' = "error" /\ UNCHANGED exit
       \/ why = "signal" /\ ~caught /\ Ends("error", "error")
       \/ why = "close" /\ Ends("error", "error")
       \/ why \in {"quit", "error"} /\ Ends(why, why)

\* Mutant of Raise: hook_open() and hook_revert() have no except block.
RaiseUnrescued(f) ==
    \/ hook = "cleanup" /\ RaiseInCleanup
    \/ hook # "cleanup" /\ EnterCleanup("error", lost)

\* An exception of kind f leaves the current step of the running hook.
Raise(f) ==
    \/ hook = "cleanup" /\ RaiseInCleanup
    \/ /\ hook \in {"open", "revert"} /\ f = "rescue"
       /\ EnterHook("rescue")
       /\ UNCHANGED <<why, exit, globals>>
    \/ /\ hook # "cleanup" /\ ~(hook \in {"open", "revert"} /\ f = "rescue")
       /\ EnterCleanup("error", IF hook = "rescue" THEN lost \cup Owed ELSE lost)
-----------------------------------------------------------------------------
(* The steps of a hook.                                                    *)

CanSucceed(s) == s.needs \subseteq res /\ (s.fresh => s.on \cap (res \cup orphans) = {})

\* The effect of a step that succeeds, on the testbed and on the globals.
Effect(s) ==
    \/ s.does = "gain" /\ res' = res \cup s.on /\ UNCHANGED <<orphans, downtmp, lost>>
    \/ /\ s.does = "lose"
       /\ res' = res \ s.on
       /\ orphans' = IF "inst" \in s.on THEN orphans \ Inside ELSE orphans
       /\ UNCHANGED <<downtmp, lost>>
    \/ s.does = "check" /\ UNCHANGED <<testbed, downtmp, lost>>
    \/ /\ s.does = "boot"
       /\ res' \in {res, res \ s.on}
       /\ UNCHANGED <<orphans, downtmp, lost>>
    \/ /\ s.does = "forget" /\ Opened
       /\ downtmp' = NoPath
       /\ res' = res \ s.on
       /\ \/ UNCHANGED <<orphans, lost>>
          \/ orphans' = orphans \cup (s.on \cap res) /\ lost' = lost \cup s.on
    \/ s.does = "forget" /\ ~Opened /\ UNCHANGED <<testbed, downtmp, lost>>

\* Mutant of NamesShare: every hook_open() picks a new shared directory.
NamesShareAgain(s) == s.does = "gain" /\ "share" \in s.on /\ backend \in HostShared

NamesShare(s) ==
    /\ s.does = "gain" /\ "share" \in s.on
    /\ backend \in HostShared /\ shared_dir = NoPath

\* The step completes; the first hook_open() of lxc and docker also picks the
\* name of the shared directory, which later ones keep.
StepOk ==
    /\ InHook /\ CanSucceed(Current)
    /\ Effect(Current)
    /\ pos' = pos + 1
    /\ shared_dir' \in IF NamesShare(Current) THEN Path ELSE {shared_dir}
    /\ UNCHANGED <<backend, alive, cmd, reply, at, hook, why, exit, caught,
                   downtmp_open, cleaning, handlers>>

\* The step fails and the hook goes on: what it should have given up stays
\* behind, except that a timed out downtmp_remove() leaves downtmp set.
StepSkip ==
    /\ InHook /\ "skip" \in Current.fails
    /\ pos' = pos + 1
    /\ lost' = lost \cup Current.on
    /\ \/ /\ Current.does = "forget" /\ Opened
          /\ res' \in {res, res \ Current.on} /\ UNCHANGED orphans
       \/ /\ Current.does = "lose"
          /\ res' = res \ Current.on
          /\ orphans' = orphans \cup (Current.on \cap res)
    /\ UNCHANGED <<backend, alive, cmd, reply, at, hook, why, exit, caught,
                   downtmp, downtmp_open, shared_dir, cleaning, handlers>>

\* The step raises, with or without having taken effect on the testbed.
StepRaise ==
    /\ InHook
    /\ ~(Current.does = "forget" /\ ~Opened)
    /\ \E f \in Current.fails \ {"skip"} :
        /\ \/ UNCHANGED testbed
           \/ /\ f # "refuse" /\ CanSucceed(Current)
              /\ \/ Current.does = "gain" /\ res' = res \cup Current.on
                 \/ Current.does \in {"lose", "forget", "boot"} /\ res' = res \ Current.on
              /\ UNCHANGED orphans
        /\ Raise(f)
    /\ UNCHANGED <<backend, alive, cmd, reply, caught, downtmp_open, shared_dir>>
-----------------------------------------------------------------------------
(* command(): read a line, run the cmd_ function it names, print the reply. *)

NeedsOpen == {"close", "revert", "reboot", "copyup", "copydown",
              "print-execute-command"}

\* Mutant of Illegal: cmd_open() does not look at downtmp.
IllegalButOpen(c) ==
    \/ c = "bogus"
    \/ c \in NeedsOpen /\ ~Opened
    \/ c \in {"revert", "reboot"} /\ c \notin Caps[backend]

\* The conditions under which a cmd_ function bombs before doing anything.
Illegal(c) ==
    \/ c = "bogus"
    \/ c = "open" /\ Opened
    \/ c \in NeedsOpen /\ ~Opened
    \/ c \in {"revert", "reboot"} /\ c \notin Caps[backend]

Reading(c) == at = "read" /\ cmd = c

ReadIllegal ==
    /\ at = "read" /\ cmd # "none" /\ Illegal(cmd)
    /\ UNCHANGED testbed
    /\ EnterCleanup("error", lost)
    /\ UNCHANGED <<backend, alive, cmd, reply, caught, downtmp_open, shared_dir>>

ReadHookCommand ==
    /\ \/ Reading("open")   /\ EnterHook("open")
       \/ Reading("revert") /\ EnterHook("revert")
       \/ Reading("reboot") /\ EnterHook("reboot")
    /\ ~Illegal(cmd)
    /\ UNCHANGED <<backend, alive, cmd, reply, why, exit, caught, downtmp_open,
                   shared_dir, globals, testbed>>

ReadClose ==
    /\ Reading("close") /\ ~Illegal("close")
    /\ UNCHANGED testbed
    /\ EnterCleanup("close", lost)
    /\ UNCHANGED <<backend, alive, cmd, reply, caught, downtmp_open, shared_dir>>

ReadQuit ==
    /\ Reading("quit")
    /\ UNCHANGED testbed
    /\ EnterCleanup("quit", lost)
    /\ UNCHANGED <<backend, alive, cmd, reply, caught, downtmp_open, shared_dir>>

ReadPlain ==
    /\ \/ Reading("capabilities") /\ at' = "reply"
       \/ Reading("print-execute-command") /\ at' = "reply"
       \/ cmd \in {"copyup", "copydown"} /\ at = "read" /\ at' = "copy"
    /\ ~Illegal(cmd)
    /\ UNCHANGED <<backend, alive, cmd, reply, hook, pos, why, exit, caught,
                   downtmp_open, shared_dir, globals, testbed>>

\* readline() returns "" at end of file, and command() sleeps and reads again.
ReadEof ==
    /\ at = "read" /\ cmd = "none" /\ ~alive
    /\ UNCHANGED vars

Answer(good, p) ==
    /\ alive
    /\ reply' = [cmd |-> cmd, ok |-> good, path |-> p]
    /\ cmd' = "none"

\* The reply is printed and the next read begins.
PrintReply ==
    /\ at = "reply"
    /\ Answer(TRUE, IF cmd \in {"open", "revert"} THEN downtmp ELSE NoPath)
    /\ at' = "read"
    /\ UNCHANGED <<backend, alive, hook, pos, why, exit, caught, downtmp_open,
                   shared_dir, globals, testbed>>

\* copyup and copydown print ok, or the words of a FailedCmd, or raise.
Copy ==
    /\ at = "copy"
    /\ UNCHANGED testbed
    /\ \/ /\ at' = "reply"
          /\ UNCHANGED <<reply, cmd, hook, pos, why, exit, globals>>
       \/ /\ Answer(FALSE, NoPath) /\ at' = "read"
          /\ UNCHANGED <<hook, pos, why, exit, globals>>
       \/ EnterCleanup("error", lost) /\ UNCHANGED <<reply, cmd>>
    /\ UNCHANGED <<backend, alive, caught, downtmp_open, shared_dir>>
-----------------------------------------------------------------------------
(* The end of a hook.                                                      *)

\* hook_downtmp(path): lxc and docker name a directory in shared_dir, the
\* others the old path if there is one and else a new one.
HookDowntmp ==
    IF backend \in HostShared THEN {shared_dir}
    ELSE IF downtmp_open # NoPath THEN {downtmp_open} ELSE Path

EndOpenOrRevert ==
    /\ HookEnd /\ hook \in {"open", "revert"}
    /\ EnterHook("tmp")
    /\ UNCHANGED <<backend, alive, cmd, reply, why, exit, caught, downtmp_open,
                   shared_dir, globals, testbed>>

\* The rest of cmd_open() and cmd_revert() once hook_downtmp() has returned.
EndTmp ==
    /\ HookEnd /\ hook = "tmp"
    /\ \E p \in HookDowntmp :
        \/ /\ downtmp_open \in {NoPath, p}
           /\ downtmp' = p /\ at' = "reply"
           /\ downtmp_open' = p
           /\ UNCHANGED <<hook, pos, why, exit, cleaning, handlers, lost>>
        \/ /\ downtmp_open \notin {NoPath, p}
           /\ downtmp' = p /\ handlers' = FALSE /\ cleaning' = TRUE
           /\ EnterHook("cleanup") /\ why' = "error"
           /\ UNCHANGED <<downtmp_open, exit, lost>>
    /\ UNCHANGED <<backend, alive, cmd, reply, caught, shared_dir, testbed>>

EndReboot ==
    /\ HookEnd /\ hook = "reboot"
    /\ at' = "reply"
    /\ UNCHANGED <<backend, alive, cmd, reply, hook, pos, why, exit, caught,
                   downtmp_open, shared_dir, globals, testbed>>

\* The except block raises again what it caught.
EndRescue ==
    /\ HookEnd /\ hook = "rescue"
    /\ UNCHANGED testbed
    /\ EnterCleanup("error", lost)
    /\ UNCHANGED <<backend, alive, cmd, reply, caught, downtmp_open, shared_dir>>

\* Mutant of EndCleanup: downtmp is only what downtmp_remove() made of it.
EndCleanupUnset ==
    /\ HookEnd /\ hook = "cleanup"
    /\ cleaning' = FALSE
    /\ res' = res \ {"tmp"} /\ orphans' = orphans \cup (res \cap {"tmp"})
    /\ Cleaned(why)
    /\ UNCHANGED <<backend, alive, cmd, reply, caught, downtmp, downtmp_open,
                   shared_dir, handlers, lost>>

\* After hook_cleanup() downtmp is None, also if downtmp_remove() timed out.
EndCleanup ==
    /\ HookEnd /\ hook = "cleanup"
    /\ cleaning' = FALSE /\ downtmp' = NoPath
    /\ res' = res \ {"tmp"} /\ orphans' = orphans \cup (res \cap {"tmp"})
    /\ Cleaned(why)
    /\ UNCHANGED <<backend, alive, cmd, reply, caught, downtmp_open, shared_dir,
                   handlers, lost>>

\* One of HUP, TERM, INT and PIPE: prepare()'s handler, or death by SIG_DFL.
Deliver ==
    /\ UNCHANGED testbed
    /\ \/ /\ handlers
          /\ caught' = (InHook /\ hook \in {"open", "revert"}
                                /\ "rescue" \in Current.fails)
          /\ EnterCleanup("signal", lost)
       \/ /\ ~handlers
          /\ Ends("signal", "signal")
          /\ lost' = IF at = "hook" /\ hook = "cleanup" THEN lost \cup Owed
                     ELSE IF at = "hook" \/ Opened THEN Resource ELSE lost
          /\ UNCHANGED <<caught, downtmp, cleaning, handlers>>
    /\ UNCHANGED <<backend, alive, cmd, reply, downtmp_open, shared_dir>>

Signal == at # "exited" /\ Deliver

\* Printing to a caller that has gone raises SIGPIPE.
BrokenPipe == at = "reply" /\ ~alive /\ Deliver
-----------------------------------------------------------------------------
HookStep == StepOk \/ StepSkip \/ StepRaise
Serve ==
    \/ ReadIllegal \/ ReadHookCommand \/ ReadClose \/ ReadQuit \/ ReadPlain
    \/ PrintReply \/ BrokenPipe
    \/ EndOpenOrRevert \/ EndTmp \/ EndReboot \/ EndRescue \/ EndCleanup

Done == at = "exited" /\ UNCHANGED vars

Next ==
    \/ \E c \in Command : Send(c)
    \/ CallerExits
    \/ HookStep \/ Copy \/ Serve \/ ReadEof \/ Signal
    \/ Done

Spec == Init /\ [][Next]_vars

\* The server always goes on with what it is doing, except that a program run
\* without a timeout may hang.
FairSpec ==
    /\ Spec
    /\ WF_vars(Serve)
    /\ WF_vars(InHook /\ Current.timed /\ HookStep)
    /\ WF_vars(Copy)
-----------------------------------------------------------------------------
(* Properties.                                                             *)

Gained(h) == UNION {Hooks[backend][h][k].on : k \in
                 {j \in 1..Len(Hooks[backend][h]) : Hooks[backend][h][j].does = "gain"}}

\* All that hook_open() and hook_downtmp() of this backend make.
Whole == Gained("open") \cup Gained("tmp") \cup Initial[backend]

\* The server will not answer any more.
Committed ==
    \/ at = "exited"
    \/ at = "hook" /\ hook = "rescue"
    \/ at = "hook" /\ hook = "cleanup" /\ why # "close"

\* The wrapper of ssh stays on a machine that was there before.
Lasting == IF "inst" \in Whole THEN {} ELSE {"wrap"} \cap Whole

\* What hook_cleanup() and hook_revert() may leave and go on: a downtmp_remove()
\* whose rm fails, and the steps whose failure the backend passes over.
Shrugged == {"tmp"} \cup {x \in Resource : \E h \in HookName : \E k \in 1..Len(Hooks[backend][h]) :
                /\ Hooks[backend][h][k].does = "lose" /\ x \in Hooks[backend][h][k].on
                /\ "skip" \in Hooks[backend][h][k].fails}

\* Between two commands the server's globals tell the truth: with downtmp set
\* every part of the testbed exists (also after any number of reverts and
\* reboots); with downtmp None none does that a hook still knows of, but the
\* wrapper of ssh on a machine that was there before.  cmd_open(), cmd_revert(),
\* cmd_reboot() and cmd_close() each restore this, or the server does not come
\* back to its read.  What else there may be of a testbed that was closed or
\* reverted and answered for with ok is what a step whose failure this backend
\* passes over has failed to remove (a session of schroot, a container of lxc, a
\* scratch directory): no container of lxd or docker, no qemu.
KnownWhenIdle ==
    at = "read" =>
        /\ IF Opened THEN res = Whole ELSE res \subseteq Initial[backend] \cup Lasting
        /\ orphans \subseteq lost \cap Shrugged

\* hook_downtmp() never gives another directory than the one first opened, so
\* "virt-runner failed to restore downtmp path" is not reached: the shared
\* directory keeps its name over close, open and revert.
PathNeverMoves ==
    HookEnd /\ hook = "tmp" => HookDowntmp \cap Path # {} /\
        (downtmp_open # NoPath => HookDowntmp = {downtmp_open})

\* cleanup() does not run hook_cleanup() for a testbed that a hook_revert() or
\* an except block has already removed.  unshare and ssh with a setup script are
\* left out: their hook_cleanup() can end with downtmp still set.
Repeatable == {"unshare", "ssh", "ssh-password"}
NoSecondCleanup ==
    /\ at = "hook" /\ hook = "cleanup" /\ pos = 1
    /\ backend \notin Repeatable
    => Gained("open") \ Inside \subseteq res

\* However the server ends, it leaves nothing behind but, resource by resource,
\* what a failed step should have removed, what the rest of a hook_cleanup() that
\* was left by an exception or a kill would have (or of an except block, by an
\* exception), and anything if it is stopped
\* while hook_open(), hook_downtmp() or hook_revert() has downtmp at None, or is
\* killed with a testbed open after a close has reset the handlers.  So an open
\* testbed is removed whole if the server is left between two commands, in a copy,
\* in a reboot, or at the start of a revert; and a failure to remove one part does
\* not excuse another.  On a machine that ssh did not make the wrapper stays, and
\* the tar file of a reboot that failed; the directory unshare has made before the
\* main loop stays if it is never opened.
CompleteCleanup ==
    at = "exited" =>
        res \cup orphans \subseteq
            lost \cup (IF "inst" \in Whole THEN {} ELSE {"tar", "wrap"})
                 \cup (IF downtmp_open = NoPath THEN Initial[backend] ELSE {})

\* When hook_open() or hook_revert() fails with an exception, qemu and ssh
\* remove the testbed they had made before the server exits, wherever in the
\* hook the exception comes from, unless the except block itself fails to.
Guarded == {"qemu", "ssh", "ssh-password"}
GuardedOpenRescued ==
    /\ at = "exited" /\ exit = "error" /\ backend \in Guarded
    => /\ hook \in {"open", "revert"} => "inst" \notin res
       /\ hook = "rescue" => "inst" \notin res \ lost

\* Every way to the end of the server leaves no more than that and removes once.
CleanedUp == NoSecondCleanup /\ CompleteCleanup /\ GuardedOpenRescued

\* The server keeps the promises of VirtProtocol: a reply comes only to a
\* command that is legal in the state earlier replies put the server in, and
\* carries the one scratch directory; the state stays Open while hook_revert()
\* has downtmp set to None, and a server that has begun to fail says no more.
ProtocolState ==
    CASE Committed -> "gone"
      [] ~Committed /\ at # "read" /\ cmd = "open" -> "closed"
      [] ~Committed /\ at # "read" /\ cmd \in NeedsOpen -> "open"
      [] OTHER -> IF Opened THEN "open" ELSE "closed"
Protocol == INSTANCE VirtProtocol WITH
    st <- ProtocolState, where <- downtmp_open, supported <- Caps[backend]
KeepsProtocol == Protocol!Spec

\* The globals of VirtSubproc agree with the command being served.
\* CleaningOK: `cleaning` is set while hook_cleanup() runs and stays set when it
\* raised; no handler that would run cleanup() is installed meanwhile.
CleaningOK ==
    /\ handlers => ~cleaning
    /\ at \in {"read", "copy", "reply"} => ~cleaning
    /\ at = "hook" => /\ hook = "cleanup" => cleaning
                      /\ hook \in {"open", "tmp", "revert", "reboot"} => ~cleaning

\* ServingOK: each hook runs for its command, in the state that command needs.
ServingOK ==
    /\ at = "hook" =>
        /\ hook = "open" => cmd = "open" /\ ~Opened
        /\ hook = "revert" => cmd = "revert"
        /\ hook = "tmp" => cmd \in {"open", "revert"}
        /\ hook = "reboot" => cmd = "reboot" /\ Opened
        /\ hook = "cleanup" /\ why = "close" => cmd = "close"
    /\ at = "copy" => cmd \in {"copyup", "copydown"} /\ Opened
    /\ at = "reply" => /\ cmd \in Command \ {"quit", "bogus"}
                       /\ cmd = "close" => ~Opened
                       /\ cmd \in (NeedsOpen \ {"close"}) \cup {"open"} => Opened
    /\ at # "read" /\ ~Committed /\ cmd \in {"revert", "reboot"} => cmd \in Caps[backend]

\* PathOK: an open testbed is where it was first opened, and a testbed being
\* reverted has been opened.
PathOK ==
    /\ ~Committed /\ Opened => downtmp = downtmp_open
    /\ at = "hook" /\ hook \in {"revert", "tmp"} /\ cmd = "revert" => downtmp_open # NoPath

\* SharedOK: lxc and docker know their shared directory before they need it, and
\* it is the one first opened.
SharedOK ==
    backend \in HostShared =>
        /\ downtmp_open # NoPath => shared_dir = downtmp_open
        /\ at = "hook" /\ hook = "tmp" => shared_dir # NoPath
        /\ at = "hook" /\ hook = "open" =>
              \A k \in 1..(pos - 1) :
                 Program[k].does = "gain" /\ "share" \in Program[k].on => shared_dir # NoPath

Consistent == CleaningOK /\ ServingOK /\ PathOK /\ SharedOK

\* All that holds of the globals, with the path that hook_downtmp() gives.
GlobalsAgree == TypeOK /\ Consistent /\ PathNeverMoves

\* Every step of a reboot is bounded by a timeout: cmd_reboot() answers or the
\* server ends, except for waiting for a QEMU that does not die.
RebootSettles ==
    (at = "hook" /\ cmd = "reboot") ~>
        (at \in {"read", "exited"} \/ (InHook /\ hook = "cleanup" /\ ~Current.timed))
-----------------------------------------------------------------------------
(* What doc/README.virtualisation-server.rst says and the code does not do. *)

\* "EOF on stdin": a server whose caller has gone while it was waiting for a
\* command ends.  (command() takes the empty string for a reason to wait.)
EofEndsServer == (~alive /\ at = "read" /\ cmd = "none") ~> at = "exited"

\* "close" stops the testbed and undoes its changes, when it is answered with ok.
\* (lxc passes over a failing lxc-destroy, schroot over a failing --end-session,
\* and downtmp_remove() does not look at the status of rm.)
CloseUndoes == at = "read" /\ ~Opened => orphans = {}

\* "signals to the server": one signal, whenever it comes, leaves the testbed
\* closed.  (cleanup() skips hook_cleanup() until downtmp has been assigned.)
SignalClosesTestbed ==
    at = "exited" /\ exit = "signal" /\ downtmp_open = NoPath => "inst" \notin res

\* The same for a testbed that has been closed and opened again.  (cmd_close()
\* leaves the handlers at SIG_DFL.)
SignalClosesReopened ==
    at = "exited" /\ exit = "signal" /\ Opened /\ hook = "tmp" => "inst" \notin res

\* "On any error": an exception that ends the server leaves the testbed closed.
\* (A failing hook_downtmp() leaves it open.)
ErrorClosesTestbed ==
    at = "exited" /\ exit = "error" /\ hook = "tmp" => "inst" \notin res

\* "Clean up on failure" of host_setup() in ssh.  (With a sudo password its
\* hook_cleanup() runs an rm in a testbed whose auxverb is not set yet, or is no
\* more, and the setup script is not asked to remove the testbed.)
FailedSetupCleaned ==
    at = "exited" /\ hook = "rescue" /\ backend = "ssh-password" => "inst" \notin res

\* "quit": the server exits with status 0 after closing the testbed.
\* (error_cleanup() swallows a failure of hook_cleanup(), and the status is 0.)
QuitClosesTestbed ==
    at = "exited" /\ exit = "quit" => "inst" \notin res \cup orphans
=============================================================================
