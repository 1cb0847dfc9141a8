--------------------------- MODULE TestbedSession ---------------------------
(***************************************************************************)
(* The dialogue of the runner with its virtualisation server: class        *)
(* Testbed of lib/adt_testbed.py (start, open, command, execute, bomb,     *)
(* debug_fail, close, stop), main(), cleanup() and signal_handler() of     *)
(* runner/autopkgtest, two pipes, and a server of which no more is known   *)
(* than what module VirtServer shows.                                      *)
(*                                                                         *)
(* The runner's call stack is the list of what it still has to do: a call  *)
(* puts the steps of the function in front, an exception drops what is in  *)
(* front of the next handler.                                              *)
(***************************************************************************)
EXTENDS Naturals, Sequences

VARIABLES
    stack,     \* what the runner has to do, the next step first
    scratch,   \* Testbed.scratch is set
    started,   \* Testbed.sp is set
    stop_sent, \* Testbed.stop_sent
    tried,     \* Testbed._tried_debug
    aux,       \* Testbed.exec_cmd: "none", "fresh", or "stale" after close,
               \* revert or quit
    alarm,     \* the SIGALRM of execute() is pending
    stray,     \* it has gone off elsewhere
    signalled, \* SIGTERM or SIGQUIT has come
    end,       \* how the runner has ended
    pending,   \* strings that send() has written and not flushed
    to_server, \* lines in the pipe to the server
    to_runner, \* replies in the pipe from it
    listens,   \* the runner holds its end of the latter
    reverts,   \* the server has the capability revert
    srv,       \* the server: "none", "idle", "busy", "gone"
    serving,   \* the command it is busy with
    handlers,  \* its signal handlers are installed
    ec,        \* its exit status is not 0
    tb         \* its testbed: "none", "there", or "lost", when the server has
               \* failed to clean up

runner == <<stack, scratch, started, stop_sent, tried, aux, alarm, stray, signalled, end>>
calls  == <<stop_sent, tried, started, signalled>>
pipes  == <<pending, to_server, to_runner, listens>>
server == <<srv, serving, handlers, ec, tb, reverts>>
vars == <<runner, pipes, server>>

Commands == {"open", "print-execute-command", "capabilities", "copy", "reboot",
             "revert", "auxverb_debug_fail", "close", "quit"}

\* Number of words after ok; capabilities are not counted.
Results(c) == IF c \in {"open", "revert", "print-execute-command"} THEN 1 ELSE 0

\* Steps.
F(d) == [do |-> d, cmd |-> "none"]
Send(c) == <<[do |-> "write", cmd |-> c], [do |-> "flush", cmd |-> c]>>
Expect(c) == [do |-> "expect", cmd |-> c]

Command(c) == Send(c) \o <<Expect(c)>>

\* debug_fail() and bomb().
GiveUp == <<F("debug_fail"), F("bomb")>>

\* open() or revert, and _opened().
Opening(c) == Command(c) \o <<F("opened")>> \o Command("print-execute-command")
              \o <<F("auxverb")>> \o Command("capabilities")

\* main().
Main == <<F("popen"), Expect("banner")>> \o Opening("open")
        \o <<F("work"), F("endtry"), F("reset"), F("stop"), F("exit")>>

Doing == {"write", "flush", "expect", "read", "debug_fail", "debugged", "bomb",
          "raise", "stop", "close", "hangup", "wait", "handler", "popen",
          "opened", "auxverb", "work", "exec", "running", "endtry", "reset",
          "exit", "failed"}

Step == [do : Doing, cmd : Commands \cup {"banner", "none"}]

TypeOK ==
    /\ stack \in Seq(Step)
    /\ aux \in {"none", "fresh", "stale"}
    /\ {scratch, started, stop_sent, tried, alarm, stray, signalled, listens, reverts, handlers, ec} \subseteq BOOLEAN
    /\ pending \in 0..2
    /\ end \in {"no", "exit", "failed", "killed", "unsaid", "interrupted"}
    /\ to_server \in Seq(Commands \cup {"bogus"})
    /\ to_runner \in Seq([for : Commands \cup {"banner"}, ok : BOOLEAN])
    /\ srv \in {"none", "idle", "busy", "gone"}
    /\ serving \in Commands \cup {"bogus", "none"}
    /\ tb \in {"none", "there", "lost"}

Init ==
    /\ stack = Main /\ end = "no"
    /\ scratch = FALSE /\ started = FALSE /\ stop_sent = FALSE /\ tried = FALSE
    /\ aux = "none" /\ alarm = FALSE /\ stray = FALSE /\ signalled = FALSE
    /\ pending = 0 /\ to_server = <<>> /\ to_runner = <<>> /\ listens = TRUE
    /\ reverts \in BOOLEAN
    /\ srv = "none" /\ serving = "none" /\ handlers = TRUE /\ ec = FALSE
    /\ tb = "none"
-----------------------------------------------------------------------------
(* The runner.                                                             *)

At(d) == end = "no" /\ Head(stack).do = d
Becomes(steps) == stack' = steps \o Tail(stack)

\* What catches an exception: the try of debug_fail(), the finally of
\* signal_handler(), the try of main(), the one of cleanup(); "failed" is its end.
Catches == {"debugged", "handler", "endtry", "exit", "failed"}

Raise ==
    \E k \in DOMAIN stack :
        /\ stack[k].do \in Catches /\ \A j \in 1 .. k - 1 : stack[j].do \notin Catches
        /\ stack' = IF stack[k].do = "exit" THEN <<F("failed")>>
                    ELSE SubSeq(stack, k, Len(stack))

\* start(): the server prints ok as a banner.
Popen ==
    /\ At("popen") /\ Becomes(<<>>)
    /\ started' = TRUE /\ srv' = "idle"
    /\ to_runner' = <<[for |-> "banner", ok |-> TRUE]>>
    /\ UNCHANGED <<scratch, stop_sent, tried, aux, alarm, stray, signalled, end,
                   pending, to_server, listens, serving, handlers, ec, tb, reverts>>

\* send(): the command, ...
Write ==
    /\ At("write") /\ Becomes(<<>>) /\ pending' = pending + 1
    /\ UNCHANGED <<scratch, calls, aux, alarm, stray, end, to_server, to_runner, listens, server>>

\* ... then the newline and flush().  The handler's command ends up in the line
\* of the one it has interrupted.
Flush ==
    /\ At("flush") /\ srv # "gone" /\ Becomes(<<>>)
    /\ to_server' = Append(to_server, IF pending > 1 THEN "bogus" ELSE Head(stack).cmd)
    /\ pending' = 0
    /\ aux' = IF Head(stack).cmd \in {"close", "revert", "quit"} THEN "stale" ELSE aux
    /\ UNCHANGED <<scratch, calls, alarm, stray, end, to_runner, listens, server>>

\* The server has exited, or stop() has closed stdin.
SendFails ==
    /\ At("flush") /\ srv = "gone" /\ Becomes(GiveUp) /\ pending' = 0
    /\ UNCHANGED <<scratch, calls, aux, alarm, stray, end, to_server, to_runner, listens, server>>

\* expect(): readline(), which cannot be entered from a signal handler that
\* interrupts it (RuntimeError: reentrant call).
Interrupted == \E k \in 2..Len(stack) : stack[k].do = "read"

EnterRead ==
    /\ At("expect")
    /\ IF Interrupted THEN Raise
       ELSE Becomes(<<[do |-> "read", cmd |-> Head(stack).cmd]>>)
    /\ UNCHANGED <<scratch, calls, aux, alarm, stray, end, pipes, server>>

Read ==
    /\ At("read") /\ to_runner # <<>> /\ to_runner' = Tail(to_runner)
    /\ LET r == Head(to_runner)
           c == Head(stack).cmd
       IN Becomes(IF ~r.ok THEN GiveUp
                  ELSE IF c # "capabilities" /\ r.for # "banner" /\ Results(r.for) # Results(c)
                  THEN <<F("bomb")>> ELSE <<>>)
    /\ UNCHANGED <<scratch, calls, aux, alarm, stray, end, pending, to_server, listens, server>>

\* Mutant of ReadEof: an empty line is read again.
ReadEofAgain ==
    /\ At("read") /\ to_runner = <<>> /\ srv = "gone"
    /\ Becomes(<<Expect(Head(stack).cmd)>>)
    /\ UNCHANGED <<scratch, calls, aux, alarm, stray, end, pipes, server>>

ReadEof ==
    /\ At("read") /\ to_runner = <<>> /\ srv = "gone" /\ Becomes(GiveUp)
    /\ UNCHANGED <<scratch, calls, aux, alarm, stray, end, pipes, server>>

DebugFail ==
    /\ At("debug_fail") /\ tried' = TRUE
    /\ Becomes(IF tried THEN <<>> ELSE Command("auxverb_debug_fail") \o <<F("debugged")>>)
    /\ UNCHANGED <<scratch, started, stop_sent, aux, alarm, stray, signalled, end, pipes, server>>

\* bomb().
Bomb ==
    /\ At("bomb") /\ Becomes(<<F("stop"), F("raise")>>)
    /\ UNCHANGED <<scratch, calls, aux, alarm, stray, end, pipes, server>>

Raises ==
    /\ At("raise") /\ Raise
    /\ UNCHANGED <<scratch, calls, aux, alarm, stray, end, pipes, server>>

\* stop().
Stop ==
    /\ At("stop") /\ stop_sent' = TRUE
    /\ Becomes(IF stop_sent THEN <<>> ELSE <<F("close"), F("hangup"), F("wait")>>)
    /\ UNCHANGED <<scratch, started, tried, aux, alarm, stray, signalled, end, pipes, server>>

\* Mutant of Close: it does not look at scratch.
CloseAlways ==
    /\ At("close") /\ scratch' = FALSE
    /\ Becomes(IF started THEN Command("close") ELSE <<>>)
    /\ UNCHANGED <<calls, aux, alarm, stray, end, pipes, server>>

\* close().
Close ==
    /\ At("close") /\ scratch' = FALSE
    /\ Becomes(IF scratch THEN Command("close") ELSE <<>>)
    /\ UNCHANGED <<calls, aux, alarm, stray, end, pipes, server>>

\* Closing the stdout of the server needs the lock of readline(), too.
Hangup ==
    /\ At("hangup") /\ started
    /\ IF Interrupted THEN Raise /\ UNCHANGED listens
       ELSE Becomes(Send("quit")) /\ listens' = FALSE
    /\ UNCHANGED <<scratch, calls, aux, alarm, stray, end, pending, to_server, to_runner, server>>

NoServer ==
    /\ At("hangup") /\ ~started
    /\ stack' = Tail(Tail(stack))
    /\ UNCHANGED <<scratch, calls, aux, alarm, stray, end, pipes, server>>

Wait ==
    /\ At("wait") /\ srv = "gone"
    /\ Becomes(IF ec THEN GiveUp ELSE <<>>)
    /\ started' = ec
    /\ UNCHANGED <<scratch, stop_sent, tried, aux, alarm, stray, signalled, end, pipes, server>>

\* _opened().
Opened ==
    /\ At("opened") /\ Becomes(<<>>) /\ scratch' = TRUE
    /\ UNCHANGED <<calls, aux, alarm, stray, end, pipes, server>>

GotAuxverb ==
    /\ At("auxverb") /\ Becomes(<<>>) /\ aux' = "fresh"
    /\ UNCHANGED <<scratch, calls, alarm, stray, end, pipes, server>>

\* process_actions() and all it calls: copies, a reboot, reset(), commands, an
\* exception that does not come from bomb().
Work ==
    /\ At("work")
    /\ \/ \E c \in {"copy", "reboot"} : stack' = Command(c) \o stack
       \/ reverts /\ stack' = Opening("revert") \o stack
       \/ stack' = <<F("exec")>> \o stack
       \/ Raise
    /\ UNCHANGED <<scratch, started, stop_sent, tried, aux, alarm, stray, signalled, end, pipes, server>>

\* It is done.
WorkDone ==
    /\ At("work") /\ Becomes(<<>>)
    /\ UNCHANGED <<scratch, calls, aux, alarm, stray, end, pipes, server>>

\* main() has caught its exception; debug_fail() has ended.
GoOn ==
    /\ \E d \in {"endtry", "debugged"} : At(d)
    /\ Becomes(<<>>)
    /\ UNCHANGED <<scratch, calls, aux, alarm, stray, end, pipes, server>>

\* execute() and check_exec().
Execute ==
    /\ At("exec") /\ Becomes(<<F("running")>>) /\ alarm' = TRUE
    /\ UNCHANGED <<scratch, calls, aux, stray, end, pipes, server>>

\* It succeeds, or fails, or the auxverb does.
Executed ==
    /\ At("running") /\ alarm' = FALSE
    /\ \E steps \in {<<>>, <<F("bomb")>>, GiveUp} : Becomes(steps)
    /\ UNCHANGED <<scratch, calls, aux, stray, end, pipes, server>>

\* decode() of what it has printed, or Popen(), raises an exception: the call of
\* timeout_stop() is skipped.
Undecodable ==
    /\ At("running") /\ Raise
    /\ UNCHANGED <<scratch, calls, aux, alarm, stray, end, pipes, server>>

\* In execute(): bomb(), or the Timeout of a test, which run_test() catches.
\* Elsewhere the exception comes out of whatever the runner is doing.
AlarmRings ==
    /\ alarm /\ end = "no" /\ alarm' = FALSE
    /\ IF Head(stack).do = "running"
       THEN (Becomes(GiveUp) \/ Becomes(<<>>)) /\ UNCHANGED stray
       ELSE Raise /\ stray' = TRUE
    /\ UNCHANGED <<scratch, calls, aux, end, pipes, server>>

\* cleanup(): DebBinaries.reset() after publish(), which needs an open testbed.
Reset ==
    /\ At("reset")
    /\ \/ Becomes(<<>>)
       \/ aux # "none" /\ ~reverts /\ Becomes(<<F("exec")>>)
    /\ UNCHANGED <<scratch, calls, aux, alarm, stray, end, pipes, server>>

\* The process ends, and the pipes with it.
Ends(how) ==
    /\ end' = how /\ stack' = <<>> /\ listens' = FALSE
    /\ pending' = 0 /\ to_runner' = <<>>
    /\ UNCHANGED <<scratch, calls, aux, alarm, stray, to_server, server>>

Exit == \E how \in {"exit", "failed"} : At(how) /\ Ends(how)

\* signal_handler() ends with os.kill().  It may have interrupted stop() before
\* close was sent, and its own stop() has then done nothing; or the readline()
\* of open, and its stop() knows of no testbed and cannot close the pipe.
Unsaid == \E k \in 2..Len(stack) :
    \/ stack[k].do = "close"
    \/ stack[k].do = "read" /\ stack[k].cmd = "open"
    \/ stack[k].do \in {"write", "flush"} /\ stack[k].cmd = "close"

Kill == At("handler") /\ Ends(IF Unsaid THEN "unsaid" ELSE "killed")

\* Mutant of Signal: stop() is not called.
SignalWithoutStop ==
    /\ end = "no" /\ ~signalled /\ signalled' = TRUE
    /\ stack' = <<F("handler")>> \o stack
    /\ UNCHANGED <<scratch, started, stop_sent, tried, aux, alarm, stray, end, pipes, server>>

\* SIGTERM or SIGQUIT, between any two steps or in readline().  A second one
\* would find SIG_DFL.
Signal ==
    /\ end = "no" /\ ~signalled /\ signalled' = TRUE
    /\ stack' = <<F("stop"), F("handler")>> \o stack
    /\ UNCHANGED <<scratch, started, stop_sent, tried, aux, alarm, stray, end, pipes, server>>

\* SIGINT: KeyboardInterrupt is no Exception, nothing catches it.
Interrupt == end = "no" /\ ~signalled /\ Ends("interrupted")
-----------------------------------------------------------------------------
(* The server.                                                             *)

Take ==
    /\ srv = "idle" /\ to_server # <<>>
    /\ srv' = "busy" /\ serving' = Head(to_server) /\ to_server' = Tail(to_server)
    /\ UNCHANGED <<runner, pending, to_runner, listens, handlers, ec, tb, reverts>>

\* cleanup() and exit; hook_cleanup() may fail, and hook_open() half way.
Dies(status, how) ==
    /\ srv' = "gone" /\ ec' = status /\ tb' = how /\ serving' = "none"
    /\ UNCHANGED <<runner, pipes, handlers, reverts>>

\* A command is done and its reply flushed; without a reader SIGPIPE ends the
\* server, with cleanup() as long as its handlers are installed.
Serve ==
    /\ srv = "busy" /\ serving \notin {"quit", "bogus"}
    /\ LET after == IF serving = "open" THEN "there" ELSE IF serving = "close" THEN "none" ELSE tb
           catch == handlers /\ serving # "close"
       IN IF listens
          THEN /\ srv' = "idle" /\ serving' = "none" /\ tb' = after /\ handlers' = catch
               /\ \E good \in BOOLEAN :
                    /\ good \/ serving = "copy"
                    /\ to_runner' = Append(to_runner, [for |-> serving, ok |-> good])
               /\ UNCHANGED <<runner, pending, to_server, listens, ec, reverts>>
          ELSE Dies(TRUE, IF catch THEN "none" ELSE after)

\* quit, also when hook_cleanup() fails.
Quit ==
    /\ srv = "busy" /\ serving = "quit"
    /\ \E how \in {"none", "lost"} : Dies(FALSE, how)

\* An error in a hook, a line that is no command, a signal to the server.
ServerFails ==
    /\ srv \in {"idle", "busy"}
    /\ \E how \in {"none", "lost"} :
          /\ how = "lost" => tb = "there" \/ serving = "open"
          /\ Dies(TRUE, how)

Ended == end # "no" /\ UNCHANGED vars

Runner ==
    \/ Popen \/ Write \/ Flush \/ SendFails \/ EnterRead \/ Read \/ ReadEof
    \/ DebugFail \/ Bomb \/ Raises \/ Stop \/ Close \/ Hangup \/ NoServer \/ Wait
    \/ Opened \/ GotAuxverb \/ Work \/ WorkDone \/ GoOn \/ Execute \/ Executed \/ Undecodable
    \/ AlarmRings \/ Reset \/ Exit \/ Kill

Next == Runner \/ Signal \/ Interrupt \/ Take \/ Serve \/ Quit \/ ServerFails \/ Ended

Spec == Init /\ [][Next]_vars

\* The server comes to an end with each command, and process_actions() calls the
\* testbed a finite number of times.
FairSpec ==
    /\ Spec /\ WF_vars(Runner) /\ SF_vars(WorkDone)
    /\ WF_vars(Take) /\ WF_vars(Serve \/ Quit \/ ServerFails)
-----------------------------------------------------------------------------
(* Properties.                                                             *)

\* The runner and the server never wait for each other, both for ever: whenever
\* the runner reads a reply or waits for the end of the server, a reply is
\* coming, or the server has a command to work on, or has exited.
NoMutualWait ==
    end = "no" /\ Head(stack).do \in {"read", "wait"} /\ srv = "idle"
        => to_server # <<>> \/ (Head(stack).do = "read" /\ to_runner # <<>>)

\* The runner keeps to the states of the protocol, whatever has failed and
\* wherever a signal has interrupted it.
LegalCommands ==
    srv = "busy" =>
        CASE serving = "open" -> tb = "none"
          [] serving \in {"close", "copy", "reboot", "revert", "print-execute-command"}
                -> tb = "there"
          [] OTHER -> TRUE

\* The runner takes no reply for the one to another command.  Only in a signal
\* handler, which came between send() and readline(), may it do so.
RepliesMatch ==
    end = "no" /\ Head(stack).do = "read" /\ to_runner # <<>>
        => Head(to_runner).for = Head(stack).cmd \/ signalled

\* stop(), bomb() and debug_fail() call each other on each failure without end:
\* stop() works once and debug_fail() is inside of itself never.
NoRecursion ==
    \A j, k \in DOMAIN stack :
        stack[j].do = stack[k].do /\ stack[j].do \in {"wait", "debugged"} => j = k

\* What the server has yet to read, or to print to nobody, ends it.
Learns == srv = "busy" \/ \E k \in DOMAIN to_server : to_server[k] \in {"close", "quit", "bogus"}

\* A runner that exits, or that a signal ends, leaves no testbed behind that its
\* server does not know to be finished with.  Exceptions are a signal before
\* stop() has sent close or while the reply to open is read, an alarm that goes
\* off in the meantime, and a cleanup() that fails before it calls stop().
NotForgotten == ~stray /\ end \in {"exit", "killed"} /\ tb = "there" => Learns

\* Commands run in the testbed with the auxverb of its latest open or revert,
\* up to the end of process_actions().
FreshAuxverb ==
    end = "no" /\ Head(stack).do = "exec"
    /\ (\E k \in DOMAIN stack : stack[k].do = "endtry")
        => aux = "fresh"

\* The dialogue is in step on both sides.
InStep ==
    TypeOK /\ NoMutualWait /\ LegalCommands /\ RepliesMatch /\ NoRecursion /\ FreshAuxverb

\* Whatever fails and is tried to debug, a run comes to an end when its server
\* does with each command.
RunEnds == <>(end # "no")
-----------------------------------------------------------------------------
(* What the documentation says and the code does not do.                   *)

\* The changelog: the runner stops the testbed "on TERM and QUIT signals, to
\* avoid leaving stale" ones.
SignalCloses == end \in {"killed", "unsaid"} /\ tb = "there" => Learns

\* The comment in main(): "ensure proper cleanup on signals".
InterruptCloses == end = "interrupted" /\ tb = "there" => Learns

\* The protocol: the auxverb is "only valid between open and the next
\* subsequent close, revert or quit".
AuxverbValid == end = "no" /\ Head(stack).do = "exec" => aux = "fresh"

\* The manual page: a timeout is one "for operations on or with the testbed".
AlarmHasCommand == end = "no" /\ alarm => \E k \in DOMAIN stack : stack[k].do = "running"
=============================================================================
