---------------------------- MODULE QemuAuxverb -----------------------------
(***************************************************************************)
(* The auxverb of the qemu backend.  A root shell on a console of the      *)
(* virtual machine executes the lines it is sent, one after the other.     *)
(* Each invocation of the program runcmd sends it one line, and plumbs     *)
(* stdin, stdout and stderr through files in a shared directory:           *)
(*                                                                         *)
(*   - on the host, threads copy stdin into a file and the output files    *)
(*     out, while the main thread waits for the file "exit";               *)
(*   - in the guest, eofcat follows the file of stdin like tail -f, for a  *)
(*     command that must see the end of it, but not too soon.              *)
(*                                                                         *)
(* Streams are counted in blocks; stdout stands for stderr, too.           *)
(***************************************************************************)
EXTENDS Naturals, Sequences

CONSTANTS
    Jobs,     \* invocations of runcmd
    Input,    \* blocks on stdin of each
    Output,   \* blocks its command may write
    Ends      \* whether its stdin comes to an end

NoJob == "no job"

ASSUME StreamsAssumption ==
    /\ Input \in [Jobs -> Nat] /\ Output \in [Jobs -> Nat] /\ Ends \in [Jobs -> BOOLEAN]
    /\ NoJob \notin Jobs

VARIABLES
    main,     \* "idle", "start", "wait", "join", "ended", "killed"
    inAt,     \* the thread of stdin: "read", "idle", "flag", "done"
    outAt,    \* the thread of stdout: "read", "idle", "done"
    running,  \* the variable that tells the threads to end
    inFile,   \* blocks of stdin in the shared file
    flag,     \* stdin_eof: "none", "empty", "count"
    tty,      \* lines the shell has not read yet
    shell,    \* the job whose line it executes
    cat,      \* eofcat: "none", "read", "look", "done"
    fed,      \* blocks it has passed on
    limit,    \* it knows how many there are
    cmd,      \* the command: "none", "runs", "exited"
    eof,      \* it has seen the end of its stdin
    out,      \* blocks it has written
    copied,   \* of these, copied to the stdout of runcmd
    exit      \* the exit files: "none", "tmp", "tmp whole", "whole"

host == <<main, inAt, outAt, running, inFile, flag, copied>>
guest == <<shell, cat, fed, limit, cmd, eof, out, exit>>
vars == <<host, tty, guest>>

TypeOK ==
    /\ main \in [Jobs -> {"idle", "start", "wait", "join", "ended", "killed"}]
    /\ inAt \in [Jobs -> {"read", "idle", "flag", "done"}]
    /\ outAt \in [Jobs -> {"read", "idle", "done"}]
    /\ running \in [Jobs -> BOOLEAN]
    /\ \A j \in Jobs :
          /\ inFile[j] \in 0 .. Input[j] /\ fed[j] \in 0 .. inFile[j]
          /\ out[j] \in 0 .. Output[j] /\ copied[j] \in 0 .. out[j]
    /\ eof \in [Jobs -> BOOLEAN]
    /\ flag \in [Jobs -> {"none", "empty", "count"}]
    /\ shell \in Jobs \cup {NoJob} /\ tty \in Seq(Jobs)
    /\ cat \in [Jobs -> {"none", "read", "look", "done"}]
    /\ limit \in [Jobs -> BOOLEAN]
    /\ cmd \in [Jobs -> {"none", "runs", "exited"}]
    /\ exit \in [Jobs -> {"none", "tmp", "tmp whole", "whole"}]

Init ==
    /\ main = [j \in Jobs |-> "idle"]
    /\ inAt = [j \in Jobs |-> "read"] /\ outAt = [j \in Jobs |-> "read"]
    /\ running = [j \in Jobs |-> TRUE]
    /\ inFile = [j \in Jobs |-> 0] /\ flag = [j \in Jobs |-> "none"]
    /\ tty = <<>> /\ shell = NoJob
    /\ cat = [j \in Jobs |-> "none"] /\ fed = [j \in Jobs |-> 0]
    /\ limit = [j \in Jobs |-> FALSE]
    /\ cmd = [j \in Jobs |-> "none"] /\ eof = [j \in Jobs |-> FALSE]
    /\ out = [j \in Jobs |-> 0] /\ copied = [j \in Jobs |-> 0]
    /\ exit = [j \in Jobs |-> "none"]
-----------------------------------------------------------------------------
(* runcmd, on the host.                                                    *)

Live(j) == main[j] \in {"start", "wait", "join"}

\* A directory of its own, and the threads.
Start(j) ==
    /\ main[j] = "idle"
    /\ main' = [main EXCEPT ![j] = "start"]
    /\ UNCHANGED <<inAt, outAt, running, inFile, flag, copied, tty, guest>>

SendLine(j) ==
    /\ main[j] = "start"
    /\ main' = [main EXCEPT ![j] = "wait"] /\ tty' = Append(tty, j)
    /\ UNCHANGED <<inAt, outAt, running, inFile, flag, copied, guest>>

\* Mutant of SeesExit: it waits for exit.tmp.
SeesExitEarly(j) ==
    /\ main[j] = "wait" /\ exit[j] # "none"
    /\ main' = [main EXCEPT ![j] = "join"] /\ running' = [running EXCEPT ![j] = FALSE]
    /\ UNCHANGED <<inAt, outAt, inFile, flag, copied, tty, guest>>

SeesExit(j) ==
    /\ main[j] = "wait" /\ exit[j] = "whole"
    /\ main' = [main EXCEPT ![j] = "join"] /\ running' = [running EXCEPT ![j] = FALSE]
    /\ UNCHANGED <<inAt, outAt, inFile, flag, copied, tty, guest>>

\* join() of the threads, and sys.exit().
Ended(j) ==
    /\ main[j] = "join" /\ inAt[j] = "done" /\ outAt[j] = "done"
    /\ main' = [main EXCEPT ![j] = "ended"]
    /\ UNCHANGED <<inAt, outAt, running, inFile, flag, copied, tty, guest>>

\* killtree() of the runner, subprocs[].kill() of a copy: the threads go, too,
\* the directory and what runs in the guest stay.
Kill(j) ==
    /\ Live(j)
    /\ main' = [main EXCEPT ![j] = "killed"]
    /\ UNCHANGED <<inAt, outAt, running, inFile, flag, copied, tty, guest>>

\* shovel() of stdin: a block, the end of it, or nothing yet.
TakeBlock(j) ==
    /\ Live(j) /\ inAt[j] = "read" /\ inFile[j] < Input[j]
    /\ inFile' = [inFile EXCEPT ![j] = @ + 1]
    /\ UNCHANGED <<main, inAt, outAt, running, flag, copied, tty, guest>>

TakeEof(j) ==
    /\ Live(j) /\ inAt[j] = "read" /\ inFile[j] = Input[j] /\ Ends[j]
    /\ flag' = [flag EXCEPT ![j] = "empty"] /\ inAt' = [inAt EXCEPT ![j] = "flag"]
    /\ UNCHANGED <<main, outAt, running, inFile, copied, tty, guest>>

TakeNothing(j) ==
    /\ Live(j) /\ inAt[j] = "read" /\ (inFile[j] < Input[j] \/ ~Ends[j])
    /\ inAt' = [inAt EXCEPT ![j] = "idle"]
    /\ UNCHANGED <<main, outAt, running, inFile, flag, copied, tty, guest>>

\* The count is written when the flag file is closed.
WriteFlag(j) ==
    /\ Live(j) /\ inAt[j] = "flag"
    /\ flag' = [flag EXCEPT ![j] = "count"] /\ inAt' = [inAt EXCEPT ![j] = "done"]
    /\ UNCHANGED <<main, outAt, running, inFile, copied, tty, guest>>

IdleIn(j) ==
    /\ Live(j) /\ inAt[j] = "idle"
    /\ inAt' = [inAt EXCEPT ![j] = IF running[j] THEN "read" ELSE "done"]
    /\ UNCHANGED <<main, outAt, running, inFile, flag, copied, tty, guest>>

\* Mutant of ShovelOut: a block that hit EAGAIN is written in full again.
ShovelOutAgain(j) ==
    /\ Live(j) /\ outAt[j] = "read"
    /\ \/ copied[j] < out[j] /\ copied' = [copied EXCEPT ![j] = 2 * out[j] - @] /\ UNCHANGED outAt
       \/ copied[j] = out[j] /\ outAt' = [outAt EXCEPT ![j] = "idle"] /\ UNCHANGED copied
    /\ UNCHANGED <<main, inAt, running, inFile, flag, tty, guest>>

\* shovel() of stdout: a read, and if there was nothing a look at `running`.
ShovelOut(j) ==
    /\ Live(j) /\ outAt[j] = "read"
    /\ \/ copied[j] < out[j] /\ copied' = [copied EXCEPT ![j] = out[j]] /\ UNCHANGED outAt
       \/ copied[j] = out[j] /\ outAt' = [outAt EXCEPT ![j] = "idle"] /\ UNCHANGED copied
    /\ UNCHANGED <<main, inAt, running, inFile, flag, tty, guest>>

IdleOut(j) ==
    /\ Live(j) /\ outAt[j] = "idle"
    /\ outAt' = [outAt EXCEPT ![j] = IF running[j] THEN "read" ELSE "done"]
    /\ UNCHANGED <<main, inAt, running, inFile, flag, copied, tty, guest>>
-----------------------------------------------------------------------------
(* The guest.                                                              *)

ReadLine(j) ==
    /\ shell = NoJob /\ tty # <<>> /\ Head(tty) = j
    /\ shell' = j /\ tty' = Tail(tty)
    /\ cat' = [cat EXCEPT ![j] = "read"] /\ cmd' = [cmd EXCEPT ![j] = "runs"]
    /\ UNCHANGED <<host, fed, limit, eof, out, exit>>

\* Mutant of CatReads: it does not look for the exit file.
CatReadsOn(j) ==
    /\ cat[j] = "read"
    /\ \/ /\ fed[j] < inFile[j]
          /\ fed' = [fed EXCEPT ![j] = inFile[j]] /\ UNCHANGED cat
       \/ /\ fed[j] = inFile[j]
          /\ cat' = [cat EXCEPT ![j] = "look"] /\ UNCHANGED fed
    /\ UNCHANGED <<host, tty, shell, limit, cmd, eof, out, exit>>

\* The loop of eofcat.  A command that is gone ends it, too, with EPIPE.
CatReads(j) ==
    /\ cat[j] = "read"
    /\ \/ /\ exit[j] # "none"
          /\ cat' = [cat EXCEPT ![j] = "done"] /\ UNCHANGED fed
       \/ /\ exit[j] = "none" /\ fed[j] < inFile[j]
          /\ IF cmd[j] = "runs" THEN fed' = [fed EXCEPT ![j] = inFile[j]] /\ UNCHANGED cat
                                ELSE cat' = [cat EXCEPT ![j] = "done"] /\ UNCHANGED fed
       \/ /\ exit[j] = "none" /\ fed[j] = inFile[j]
          /\ cat' = [cat EXCEPT ![j] = "look"] /\ UNCHANGED fed
    /\ UNCHANGED <<host, tty, shell, limit, cmd, eof, out, exit>>

\* Mutant of CatLooks: the file is enough, whatever has been passed on.
CatLooksForFile(j) ==
    /\ cat[j] = "look"
    /\ limit' = [limit EXCEPT ![j] = flag[j] # "none"]
    /\ cat' = [cat EXCEPT ![j] = IF limit'[j] THEN "done" ELSE "read"]
    /\ UNCHANGED <<host, tty, shell, fed, cmd, eof, out, exit>>

\* An empty stdin_eof is a ValueError, which is ignored; the limit is the number
\* of blocks in the file when it was written.
CatLooks(j) ==
    /\ cat[j] = "look"
    /\ limit' = [limit EXCEPT ![j] = @ \/ flag[j] = "count"]
    /\ cat' = [cat EXCEPT ![j] = IF limit'[j] /\ fed[j] >= inFile[j] THEN "done" ELSE "read"]
    /\ UNCHANGED <<host, tty, shell, fed, cmd, eof, out, exit>>

\* The command writes, sees the end of its stdin, exits, with or without that.
Write(j) ==
    /\ cmd[j] = "runs" /\ out[j] < Output[j]
    /\ out' = [out EXCEPT ![j] = @ + 1]
    /\ UNCHANGED <<host, tty, shell, cat, fed, limit, cmd, eof, exit>>

SeeEof(j) ==
    /\ cmd[j] = "runs" /\ cat[j] = "done" /\ ~eof[j]
    /\ eof' = [eof EXCEPT ![j] = TRUE]
    /\ UNCHANGED <<host, tty, shell, cat, fed, limit, cmd, out, exit>>

ExitCmd(j) ==
    /\ cmd[j] = "runs"
    /\ cmd' = [cmd EXCEPT ![j] = "exited"]
    /\ UNCHANGED <<host, tty, shell, cat, fed, limit, eof, out, exit>>

\* echo $? > exit.tmp: the file is there before its content.
Echo(j) ==
    /\ cmd[j] = "exited"
    /\ \/ exit[j] = "none" /\ exit' = [exit EXCEPT ![j] = "tmp"]
       \/ exit[j] = "tmp" /\ exit' = [exit EXCEPT ![j] = "tmp whole"]
    /\ UNCHANGED <<host, tty, shell, cat, fed, limit, cmd, eof, out>>

\* mv, after both sides of the pipeline; the next line.
Move(j) ==
    /\ shell = j /\ cat[j] = "done" /\ exit[j] = "tmp whole"
    /\ exit' = [exit EXCEPT ![j] = "whole"] /\ shell' = NoJob
    /\ UNCHANGED <<host, tty, cat, fed, limit, cmd, eof, out>>

Host(j) == SendLine(j) \/ SeesExit(j) \/ Ended(j) \/ TakeEof(j) \/ WriteFlag(j)
           \/ IdleIn(j) \/ ShovelOut(j) \/ IdleOut(j)
Guest(j) == ReadLine(j) \/ CatReads(j) \/ CatLooks(j) \/ SeeEof(j) \/ Echo(j) \/ Move(j)

\* What the caller and the command do.
Outside(j) == Start(j) \/ Kill(j) \/ TakeBlock(j) \/ TakeNothing(j) \/ Write(j) \/ ExitCmd(j)

Over == \A j \in Jobs : main[j] \in {"ended", "killed"}
Done == Over /\ UNCHANGED vars

Next == (\E j \in Jobs : Host(j) \/ Guest(j) \/ Outside(j)) \/ Done

Spec == Init /\ [][Next]_vars

\* Every process and thread goes on, and a look at stdin has an outcome.  Nothing
\* is assumed of the caller, nor that a command ends.
FairSpec == Spec /\ \A j \in Jobs :
    /\ WF_vars(SendLine(j)) /\ WF_vars(SeesExit(j)) /\ WF_vars(Ended(j))
    /\ WF_vars(TakeBlock(j) \/ TakeEof(j) \/ TakeNothing(j)) /\ WF_vars(WriteFlag(j))
    /\ WF_vars(IdleIn(j)) /\ WF_vars(ShovelOut(j)) /\ WF_vars(IdleOut(j))
    /\ WF_vars(ReadLine(j)) /\ WF_vars(CatReads(j)) /\ WF_vars(CatLooks(j))
    /\ WF_vars(Echo(j)) /\ WF_vars(Move(j))
-----------------------------------------------------------------------------
(* Properties.                                                             *)

\* A command that sees the end of its stdin has been given all of it, and there
\* is an end: neither a slow stdin nor an unfinished stdin_eof, nor a caller
\* that is killed, makes the command work on a truncated input.
InputWhole == \A j \in Jobs : eof[j] => Ends[j] /\ fed[j] = Input[j]

\* When runcmd has ended by itself the console is free for the next one: the
\* command has exited, eofcat follows no file any more, and the shell is not at
\* this line.
ConsoleFree ==
    \A j \in Jobs : main[j] = "ended" => cmd[j] = "exited" /\ cat[j] = "done" /\ shell # j

\* runcmd ends when its command does, though its own stdin may never end.
ProgramEnds ==
    \A j \in Jobs : cmd[j] = "exited" ~> main[j] \in {"ended", "killed"}
-----------------------------------------------------------------------------
(* What the documentation says and the code does not do.                   *)

\* README.virtualisation-server, of print-auxverb-command: "The caller may run
\* several of these at once", so that none waits for another one to end.
SeveralAtOnce ==
    \A j \in Jobs :
        main[j] = "wait" ~> cmd[j] # "none" \/ \E k \in Jobs : main[k] = "killed"

\* README.virtualisation-server: "The testbed program's stdin, stdout and stderr
\* will be plumbed through to the stdin, stdout and stderr passed to program".
OutputWhole == \A j \in Jobs : main[j] = "ended" => copied[j] = out[j]
=============================================================================
