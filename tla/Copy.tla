-------------------------------- MODULE Copy --------------------------------
(***************************************************************************)
(* The inside of the commands copyup and copydown: through a directory the *)
(* testbed shares with the host, or through two processes and a pipe, and  *)
(* the one SIGALRM that timeout_start() of the copy and timeout_start() of *)
(* the commands nested in it share.                                        *)
(*                                                                         *)
(* A copy is a sequence of steps over three places: "src", "dst" and       *)
(* "tmp", the name in the shared directory a file from elsewhere passes    *)
(* through.                                                                *)
(***************************************************************************)
EXTENDS Naturals, Sequences

CONSTANT Copies    \* the ways a copy may go, sequences of steps

VARIABLES
    began,     \* history: the way the current command began with
    copy,      \* the way it goes
    dirs,      \* the copies are of directories
    todo,      \* steps left
    stage,     \* "idle", "shared", "pipe", "reply", "ended"
    limit,     \* SIGALRM is pending
    tmp,       \* what is in the place in between: "none", "part", "whole",
               \* "nested" (the source inside an older copy)
    dst,       \* what the destination holds, likewise
    stale,     \* history: the place in between was not empty when the command came
    reply      \* "ok", "timeout", "copy-failed", "bomb"

copyVars == <<began, copy, dirs, todo, stage, limit, tmp, stale, dst, reply>>

\* Steps: in the testbed by check_exec(), on the host by shutil and cp, and the
\* two processes with the pipe.
CpToTmp    == [by |-> "testbed", on |-> "tmp"]
CpToDst    == [by |-> "testbed", on |-> "dst"]
RmTmp      == [by |-> "testbed", on |-> "rm tmp"]
RmDst      == [by |-> "testbed", on |-> "rm dst"]
HostToTmp  == [by |-> "host", on |-> "tmp"]
HostToDst  == [by |-> "host", on |-> "dst"]
HostRmTmp  == [by |-> "host", on |-> "rm tmp"]
Pipe       == [by |-> "pipe", on |-> "dst"]

Steps == {CpToTmp, CpToDst, RmTmp, RmDst, HostToTmp, HostToDst, HostRmTmp, Pipe}

\* copyup_shareddir(): from elsewhere in the testbed, from the shared directory,
\* and when source and destination are one file.
UpOutside == <<CpToTmp, HostToDst, RmTmp>>
UpInside  == <<HostToDst>>
UpSame    == <<>>

\* Mutant of DownOutside: the old destination stays.
DownOutsideKeeping == <<HostToTmp, CpToDst, HostRmTmp>>

\* copydown_shareddir(): to elsewhere, to the top of the shared directory, and
\* from it.
DownOutside == <<HostToTmp, RmDst, CpToDst, HostRmTmp>>
DownInside  == <<HostToDst>>
DownShared  == <<RmDst, CpToDst>>

\* No shared directory.
Piped == <<Pipe>>

Shared == {UpOutside, UpInside, UpSame, DownOutside, DownInside, DownShared}

ASSUME CopiesAssumption == Copies \subseteq Shared \cup {Piped}

Content == {"none", "old", "part", "whole", "nested"}

CopyTypeOK ==
    /\ began \in Copies /\ copy \in {began, Piped} /\ todo \in Seq(Steps) /\ Len(todo) <= 4
    /\ dirs \in BOOLEAN
    /\ stage \in {"idle", "shared", "pipe", "reply", "ended"}
    /\ limit \in BOOLEAN /\ stale \in BOOLEAN
    /\ tmp \in Content /\ dst \in Content
    /\ reply \in {"ok", "timeout", "copy-failed", "bomb"}

CopyInit ==
    /\ began \in Copies /\ copy = began /\ dirs \in BOOLEAN /\ todo = <<>>
    /\ stage = "idle" /\ limit = FALSE /\ stale = FALSE
    /\ tmp = "none" /\ dst = "none" /\ reply = "ok"
-----------------------------------------------------------------------------
\* timeout_start() of a nested check_exec() has no limit: it sets alarm(0).
AlarmIn(steps, a) == a /\ ~(steps # <<>> /\ Head(steps).by = "testbed")

\* copyupdown_internal(): with a shared directory, the function for it.
Receive(c) ==
    /\ stage = "idle"
    /\ began' = c /\ copy' = c
    /\ stale' = (tmp # "none")
    /\ dst' \in {"none", "old"}
    /\ todo' = c
    /\ stage' = IF c = Piped THEN "pipe" ELSE "shared"
    /\ limit' = AlarmIn(c, TRUE)
    /\ UNCHANGED <<dirs, tmp, reply>>

\* The content of what a copy of `from` leaves at `to`: cp -r of a directory to
\* one that exists goes inside it.
CopyInto(from, to) == IF dirs /\ to # "none" THEN "nested" ELSE from

\* The other copies go over what is there: copytree() of this module, tar; or
\* remove it, where rmtree() fails by moving it aside, which is not followed.
Effect(step) ==
    CASE step = CpToTmp   -> tmp' = CopyInto("whole", tmp) /\ UNCHANGED dst
      [] step = HostToTmp -> tmp' = "whole" /\ UNCHANGED dst
      [] step \in {RmTmp, HostRmTmp} -> tmp' = "none" /\ UNCHANGED dst
      [] step = RmDst     -> dst' = "none" /\ UNCHANGED tmp
      [] step = CpToDst   ->
            /\ dst' = CopyInto(IF copy = DownOutside THEN tmp ELSE "whole", dst)
            /\ UNCHANGED tmp
      [] step = HostToDst ->
            /\ dst' = IF copy = UpOutside THEN tmp ELSE "whole"
            /\ UNCHANGED tmp
      [] step = Pipe      -> dst' = "whole" /\ UNCHANGED tmp

\* A step that ends early leaves part of its effect.
Part(step) ==
    CASE step \in {CpToTmp, HostToTmp, RmTmp, HostRmTmp} -> tmp' = "part" /\ UNCHANGED dst
      [] step \in {CpToDst, HostToDst, RmDst, Pipe} -> dst' = "part" /\ UNCHANGED tmp

Working == stage \in {"shared", "pipe"}

StepDone ==
    /\ Working /\ todo # <<>>
    /\ Effect(Head(todo))
    /\ todo' = Tail(todo) /\ limit' = AlarmIn(Tail(todo), limit)
    /\ UNCHANGED <<began, copy, dirs, stage, stale, reply>>

\* Mutant of Done: no timeout_stop().
DoneWithoutStop ==
    /\ Working /\ todo = <<>>
    /\ stage' = "reply" /\ reply' = "ok"
    /\ dst' = IF copy = UpSame THEN "whole" ELSE dst
    /\ UNCHANGED <<began, copy, dirs, todo, stale, tmp, limit>>

\* finally: timeout_stop().
Done ==
    /\ Working /\ todo = <<>>
    /\ stage' = "reply" /\ reply' = "ok" /\ limit' = FALSE
    /\ dst' = IF copy = UpSame THEN "whole" ELSE dst
    /\ UNCHANGED <<began, copy, dirs, todo, stale, tmp>>

\* shutil.Error or CalledProcessError, which directories raise: the copy goes on
\* with the pipe.  What is in between stays.
CopyFails(rest) ==
    /\ stage = "shared" /\ todo # <<>> /\ dirs
    /\ Head(todo) \in {HostToTmp, HostToDst}
    /\ Part(Head(todo))
    /\ copy' = Piped /\ stage' = "pipe" /\ todo' = rest /\ limit' = TRUE
    /\ UNCHANGED <<began, dirs, stale, reply>>

FallBack == CopyFails(Piped)

StopCopy(answer) ==
    /\ Part(Head(todo))
    /\ stage' = "reply" /\ reply' = answer /\ limit' = FALSE /\ todo' = <<>>
    /\ UNCHANGED <<began, copy, dirs, stale>>

\* check_exec() of a nested command fails, or shutil.copy(), os.unlink() or
\* shutil.rmtree() raises an OSError that nobody catches.
Fails ==
    /\ stage = "shared" /\ todo # <<>>
    /\ Head(todo).by = "testbed" \/ ~dirs \/ Head(todo) = HostRmTmp
    /\ StopCopy("bomb")

\* A process fails.
PipeFails == stage = "pipe" /\ todo # <<>> /\ StopCopy("copy-failed")

\* open(), mkdir() or Popen() raises an OSError before there is an alarm.
PipeCannotStart ==
    /\ stage = "pipe" /\ todo = Piped
    /\ stage' = "reply" /\ reply' = "bomb" /\ limit' = FALSE /\ todo' = <<>>
    /\ UNCHANGED <<began, copy, dirs, stale, tmp, dst>>

\* Mutant of CopyTimesOut: only the copy through a shared directory is limited.
CopyTimesOutShared == limit /\ stage = "shared" /\ todo # <<>> /\ StopCopy("timeout")

\* Timeout.
CopyTimesOut == limit /\ Working /\ todo # <<>> /\ StopCopy("timeout")

\* command() prints the reply; bomb() and an exception end the server.
Answer ==
    /\ stage = "reply"
    /\ stage' = IF reply = "bomb" THEN "ended" ELSE "idle"
    /\ UNCHANGED <<began, copy, dirs, todo, limit, stale, tmp, dst, reply>>

CopyEnded == stage = "ended" /\ UNCHANGED copyVars

CopyNext ==
    \/ \E c \in Copies : Receive(c)
    \/ StepDone \/ Done \/ FallBack \/ Fails \/ PipeFails \/ PipeCannotStart
    \/ CopyTimesOut \/ Answer \/ CopyEnded

CopySpec == CopyInit /\ [][CopyNext]_copyVars

\* An alarm that is set goes off; a step without one may take for ever.
FairCopySpec == CopySpec /\ WF_copyVars(CopyTimesOut) /\ WF_copyVars(Done) /\ WF_copyVars(Answer)
-----------------------------------------------------------------------------
(* Properties.                                                             *)

\* No command leaves an alarm behind, which would raise Timeout in a later one,
\* however the copy has ended.
NoStrayAlarm == stage \in {"idle", "reply", "ended"} => ~limit

\* The same, and the types.
AlarmIsOwn == CopyTypeOK /\ NoStrayAlarm

Answered == stage = "reply" /\ reply = "ok"
Outside == {UpOutside, DownOutside}

\* What is answered with ok is complete and at its place, whatever was in between or
\* at the destination, except in one case, when it never is: copyup of a directory
\* from outside the shared one over a name an earlier copy has left there.
CopiedWhole ==
    Answered => dst = IF copy = UpOutside /\ dirs /\ stale THEN "nested" ELSE "whole"

\* A command answered with ok leaves its name in the shared directory exactly if it
\* put something there and then fell back to the pipe; what is left by another one
\* stays unless the command goes through that name itself.
LeavesOnly ==
    Answered => /\ began \in Outside => (tmp # "none" <=> copy = Piped)
                /\ began \notin Outside => (tmp # "none" <=> stale)

\* Where a copy arrives and what it leaves in between is as said, over any copies
\* that failed, timed out or fell back before.
CopiedCleanly == CopiedWhole /\ LeavesOnly

\* The copy through a pipe is limited by AUTOPKGTEST_VIRT_COPY_TIMEOUT.
PipeEnds == stage = "pipe" ~> stage = "reply"
-----------------------------------------------------------------------------
(* What the documentation says and the code does not do.                   *)

\* The manual page: --timeout-copy limits "copy files/directories between host
\* and testbed".
CopyEnds == Working ~> stage = "reply"

\* README.virtualisation-server: "copyup testbed-path host-path" is answered with "ok"
\* when the source is an existing directory; a directory can arrive inside of an
\* older copy of it, at host-path/name.
ArrivesInPlace == Answered => dst = "whole"

\* "rm intermediate copy", VirtSubproc.py:522: not when the copy goes on with tar.
IntermediateRemoved == Answered /\ ~stale => tmp = "none"
=============================================================================
