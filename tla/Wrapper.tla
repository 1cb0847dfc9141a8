------------------------------ MODULE Wrapper -------------------------------
(***************************************************************************)
(* lib/in-testbed/wrapper.sh: runs the command of a test with its stdout   *)
(* and stderr in named pipes, which two tees read; kills what the command  *)
(* leaves behind if it holds the pipes; waits for the tees.  One test      *)
(* after the other runs in the same testbed, and they share the path of    *)
(* the pid file, in a sticky /tmp.                                         *)
(*                                                                         *)
(* The wrapper runs as the user of its test.  A test may have sudo, and    *)
(* what it starts as root the wrapper neither sees nor can kill.           *)
(*                                                                         *)
(* A process number is a sequence of digits.  One tee stands for both.     *)
(***************************************************************************)
EXTENDS Naturals, Sequences, SequencesExt

CONSTANTS
    N,         \* number of tests
    Users,     \* functions that give each test its user
    Pids,      \* process numbers of what the tests start, each used once
    Mishaps    \* what may happen in a run: a set of subsets of Mishap

\* A wrapper survives the timeout of its test.
Mishap == {"survivor"}

ASSUME WrapperAssumption ==
    /\ N \in Nat \ {0} /\ Users \subseteq [1 .. N -> {"root", "user"}]
    /\ Pids \subseteq Seq(0 .. 9) /\ Mishaps \subseteq SUBSET Mishap

Tests == 1 .. N
NoTest == 0
NoPid == <<>>

VARIABLES
    user, mishaps,
    test,      \* the test that runs
    at,        \* of each wrapper: "idle", "pid", "run", "find", "kill", "wait",
               \* "ended", "failed", "killed"
    tee,       \* the process number of its tee
    child,     \* of the command
    holds,     \* the test whose pipes a process has open, for writing
    roots,     \* processes of a user's test that have become root's
    used,      \* process numbers there have been
    found,     \* what find(1) has listed
    pidFile,   \* the wrapper whose number is in the pid file
    teeKilled, \* some tee was killed
    late       \* history: forked when find(1) had made its list

wrapperVars == <<user, mishaps, test, at, tee, child, holds, roots, used, found, pidFile,
                 teeKilled, late>>

WrapperTypeOK ==
    /\ user \in Users /\ mishaps \in Mishaps /\ test \in Tests
    /\ at \in [Tests -> {"idle", "pid", "run", "find", "kill", "wait",
                         "ended", "failed", "killed"}]
    /\ tee \in [Tests -> Pids \cup {NoPid}] /\ child \in [Tests -> Pids \cup {NoPid}]
    /\ holds \in [Pids -> Tests \cup {NoTest}] /\ used \subseteq Pids
    /\ roots \subseteq used /\ late \subseteq used
    /\ \A p \in Pids : holds[p] # NoTest => p \in used
    /\ found \in [Tests -> SUBSET used]
    /\ pidFile \in Tests \cup {NoTest} /\ teeKilled \in BOOLEAN

WrapperInit ==
    /\ user \in Users /\ mishaps \in Mishaps
    /\ test = 1 /\ at = [n \in Tests |-> "idle"]
    /\ tee = [n \in Tests |-> NoPid] /\ child = [n \in Tests |-> NoPid]
    /\ holds = [p \in Pids |-> NoTest] /\ used = {}
    /\ roots = {} /\ late = {} /\ found = [n \in Tests |-> {}] /\ pidFile = NoTest /\ teeKilled = FALSE
-----------------------------------------------------------------------------
Holders(n) == {p \in Pids : holds[p] = n}

Unused == Pids \ used

\* mkfifo, tee in the background.
Begin(n) ==
    /\ test = n /\ at[n] = "idle"
    /\ \E p \in Unused : tee' = [tee EXCEPT ![n] = p] /\ used' = used \cup {p}
    /\ at' = [at EXCEPT ![n] = "pid"]
    /\ UNCHANGED <<user, mishaps, test, child, holds, found, pidFile, teeKilled, roots, late>>

MayRemove(n) == pidFile = NoTest \/ user[n] = "root" \/ user[pidFile] = user[n]

\* Mutant of WritePid: one that is there is good enough.
WritePidOnce(n) ==
    /\ at[n] = "pid"
    /\ pidFile' = IF pidFile = NoTest THEN n ELSE pidFile
    /\ at' = [at EXCEPT ![n] = "run"]
    /\ \E p \in Unused :
          /\ child' = [child EXCEPT ![n] = p] /\ used' = used \cup {p}
          /\ holds' = [holds EXCEPT ![p] = n]
    /\ UNCHANGED <<user, mishaps, test, tee, found, teeKilled, roots, late>>

\* The pid file, then the command.  rm -f of a file that belongs to somebody else
\* fails, and with set -e the script ends there.
WritePid(n) ==
    /\ at[n] = "pid"
    /\ IF MayRemove(n)
       THEN /\ pidFile' = n /\ at' = [at EXCEPT ![n] = "run"]
            /\ \E p \in Unused :
                  /\ child' = [child EXCEPT ![n] = p] /\ used' = used \cup {p}
                  /\ holds' = [holds EXCEPT ![p] = n]
       ELSE at' = [at EXCEPT ![n] = "failed"] /\ UNCHANGED <<pidFile, child, used, holds>>
    /\ UNCHANGED <<user, mishaps, test, tee, found, teeKilled, roots, late>>

\* A process that holds the pipes starts another one, which inherits them.
Fork(n) ==
    /\ \E f \in Holders(n), p \in Unused :
          /\ holds' = [holds EXCEPT ![p] = n] /\ used' = used \cup {p}
          /\ roots' = IF f \in roots THEN roots \cup {p} ELSE roots
          /\ late' = IF at[n] \in {"kill", "wait"} THEN late \cup {p} ELSE late
    /\ UNCHANGED <<user, mishaps, test, at, tee, child, found, pidFile, teeKilled>>

\* sudo, in a test that runs as a user.
BecomesRoot(p) ==
    /\ holds[p] # NoTest /\ user[holds[p]] = "user" /\ p \notin roots
    /\ roots' = roots \cup {p}
    /\ UNCHANGED <<user, mishaps, test, at, tee, child, holds, used, found, pidFile,
                   teeKilled, late>>

\* It exits, or closes them.
Exit(p) ==
    /\ holds[p] # NoTest
    /\ holds' = [holds EXCEPT ![p] = NoTest]
    /\ UNCHANGED <<user, mishaps, test, at, tee, child, used, found, pidFile, teeKilled, roots, late>>

\* The shell waits for its child only.
CommandEnds(n) ==
    /\ at[n] = "run" /\ holds[child[n]] = NoTest
    /\ at' = [at EXCEPT ![n] = "find"]
    /\ UNCHANGED <<user, mishaps, test, tee, child, holds, used, found, pidFile, teeKilled, roots, late>>

Within(s, t) == \E i \in 0 .. Len(t) : IsPrefix(s, SubSeq(t, i + 1, Len(t)))

\* /proc/PID/fd can be read, and a signal sent, by the owner and by root.
Reaches(n, p) == user[n] = "root" \/ p \notin roots

\* Mutant of Listed: any pipe of that name.
ListedOfAll(n) == {p \in Pids : holds[p] # NoTest /\ Reaches(n, p) /\ ~Within(tee[n], p)}

\* What find(1) sees; grep -v -F drops each line that has the number of the tee in it.
Listed(n) == {p \in Holders(n) \cup {tee[n]} : Reaches(n, p) /\ ~Within(tee[n], p)}

Find(n) ==
    /\ at[n] = "find"
    /\ found' = [found EXCEPT ![n] = Listed(n)]
    /\ at' = [at EXCEPT ![n] = IF Listed(n) = {} THEN "wait" ELSE "kill"]
    /\ UNCHANGED <<user, mishaps, test, tee, child, holds, used, pidFile, teeKilled, roots, late>>

\* Mutant of KillFound: only the first one.
KillFirst(n) ==
    /\ at[n] = "kill"
    /\ \E q \in found[n] : holds' = [holds EXCEPT ![q] = NoTest]
    /\ at' = [at EXCEPT ![n] = "wait"]
    /\ UNCHANGED <<user, mishaps, test, tee, child, used, found, pidFile, teeKilled, roots, late>>

\* A process that kill(1) may not signal is passed over, and the others are killed.
KillFound(n) ==
    /\ at[n] = "kill"
    /\ holds' = [p \in Pids |-> IF p \in found[n] /\ Reaches(n, p) THEN NoTest ELSE holds[p]]
    /\ teeKilled' = (teeKilled \/ tee[n] \in found[n])
    /\ at' = [at EXCEPT ![n] = "wait"]
    /\ UNCHANGED <<user, mishaps, test, tee, child, used, found, pidFile, roots, late>>

\* wait for the tee, which ends when nobody holds the pipe; the trap of EXIT
\* removes the pid file, if it may.
Wait(n) ==
    /\ at[n] = "wait" /\ Holders(n) = {}
    /\ at' = [at EXCEPT ![n] = "ended"]
    /\ pidFile' = IF MayRemove(n) THEN NoTest ELSE pidFile
    /\ UNCHANGED <<user, mishaps, test, tee, child, holds, used, found, teeKilled, roots, late>>

\* The timeout of the test.  SIGTERM, of which there is no trap, ends the wrapper
\* and some of what it has started; or it does not get that far.
KilledByTimeout(n) ==
    /\ at' = [at EXCEPT ![n] = "killed"]
    /\ \E ended \in SUBSET Holders(n) :
          holds' = [p \in Pids |-> IF p \in ended THEN NoTest ELSE holds[p]]

TestTimesOut(n) ==
    /\ test = n /\ n < N /\ at[n] \in {"run", "wait"} /\ test' = n + 1
    /\ KilledByTimeout(n) \/ ("survivor" \in mishaps /\ UNCHANGED <<at, holds>>)
    /\ UNCHANGED <<user, mishaps, tee, child, used, found, pidFile, teeKilled, roots, late>>

TestAfter(n) ==
    /\ test = n /\ n < N /\ at[n] \in {"ended", "failed"} /\ test' = n + 1
    /\ UNCHANGED <<user, mishaps, at, tee, child, holds, used, found, pidFile, teeKilled, roots, late>>

Step(n) == Begin(n) \/ WritePid(n) \/ CommandEnds(n) \/ Find(n) \/ KillFound(n) \/ Wait(n)

WrapperNext ==
    \/ \E n \in Tests : Step(n) \/ Fork(n) \/ TestTimesOut(n) \/ TestAfter(n)
    \/ \E p \in Pids : Exit(p) \/ BecomesRoot(p)

WrapperSpec == WrapperInit /\ [][WrapperNext]_wrapperVars

\* The wrapper goes on.  What the command leaves behind need not end.
FairWrapperSpec ==
    /\ WrapperSpec
    /\ \A n \in Tests : WF_wrapperVars(Find(n)) /\ WF_wrapperVars(KillFound(n)) /\ WF_wrapperVars(Wait(n))
-----------------------------------------------------------------------------
(* Properties.                                                             *)

\* What the hunt may miss: a process of root, in a test that runs as a user; one
\* whose number has that of the tee in it; one that was forked after the listing.
Missed(n, p) == ~Reaches(n, p) \/ Within(tee[n], p) \/ p \in late

\* The header of wrapper.sh: "If COMMAND leaks background processes that hold the
\* pipes open, terminate those processes".  The hunt misses no others.
HuntThorough == \A n \in Tests : at[n] = "wait" => \A p \in Holders(n) : Missed(n, p)

\* A wrapper whose command has exited ends, or is killed, unless what it has missed
\* holds its pipes for ever.
LeaksTerminated ==
    \A n \in Tests :
        at[n] = "find" ~> \/ at[n] \in {"ended", "killed"}
                          \/ [](at[n] = "wait" /\ \E p \in Holders(n) : Missed(n, p))

\* The tee is there until it has read everything: no output of a test is lost to
\* the hunt for what it left behind.
OutputWhole == ~teeKilled

\* A wrapper that has survived its test, and goes hunting during the next one,
\* kills nothing of that one.
OnlyItsOwn ==
    [][\A n \in Tests : at[n] = "kill" /\ at'[n] = "wait" =>
          \A p \in Pids : holds[p] \notin {n, NoTest} => holds'[p] = holds[p]]_wrapperVars

\* While a command runs the pid file names its own wrapper, so that
\* autopkgtest-reboot finds the test it must kill, and not an earlier one; unless
\* that earlier one is still about and removes the file.
PidFileIsOwn ==
    \A n \in Tests :
        test = n /\ at[n] = "run" => \/ pidFile = n
                                     \/ pidFile = NoTest /\ "survivor" \in mishaps

\* What one test leaves does not fail the next one before its command has run,
\* except for the pid file of a wrapper of root that did not end by itself.
AllRun ==
    \A n \in Tests :
        at[n] = "failed" =>
            /\ user[n] = "user"
            /\ \E k \in 1 .. n - 1 :
                  user[k] = "root" /\ (at[k] = "killed" \/ "survivor" \in mishaps)

\* An earlier test does not harm the next one, nor what it leaves itself.
NextUnharmed == WrapperTypeOK /\ PidFileIsOwn /\ AllRun /\ OutputWhole /\ HuntThorough
-----------------------------------------------------------------------------
(* What the documentation says and the code does not do.  This is not      *)
(* checked as a property of the code: TLC refutes it.                      *)

\* The same words of the header, without exception.
LeaksAllTerminated == \A n \in Tests : at[n] = "wait" => Holders(n) = {}
=============================================================================
