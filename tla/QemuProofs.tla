----------------------------- MODULE QemuProofs -----------------------------
(***************************************************************************)
(* Proofs about the backend qemu.                                          *)
(*                                                                         *)
(* For any number of invocations of its auxverb, any streams, and any of   *)
(* them killed: no command works on a truncated input, and the console is  *)
(* free when an invocation has ended by itself (QemuAuxverb).              *)
(*                                                                         *)
(* For any number of servers and any range of ports: lock files go, and a  *)
(* server is without a port only if there was none (QemuPorts).            *)
(***************************************************************************)
EXTENDS QemuAuxverb, QemuPorts, SequenceTheorems, TLAPS

-----------------------------------------------------------------------------
(* The auxverb.                                                            *)

Types ==
    /\ main \in [Jobs -> {"idle", "start", "wait", "join", "ended", "killed"}]
    /\ inAt \in [Jobs -> {"read", "idle", "flag", "done"}]
    /\ inFile \in [Jobs -> Nat] /\ fed \in [Jobs -> Nat]
    /\ flag \in [Jobs -> {"none", "empty", "count"}]
    /\ limit \in [Jobs -> BOOLEAN] /\ eof \in [Jobs -> BOOLEAN]
    /\ cat \in [Jobs -> {"none", "read", "look", "done"}]
    /\ cmd \in [Jobs -> {"none", "runs", "exited"}]
    /\ exit \in [Jobs -> {"none", "tmp", "tmp whole", "whole"}]
    /\ tty \in Seq(Jobs)

\* What has been counted is there, and stays so.
Counted(j) ==
    /\ inFile[j] <= Input[j] /\ fed[j] <= inFile[j]
    /\ flag[j] # "none" => Ends[j] /\ inFile[j] = Input[j] /\ inAt[j] \in {"flag", "done"}
    /\ inAt[j] = "flag" => flag[j] # "none"
    /\ limit[j] => flag[j] = "count"

\* eofcat ends with the command, or when it has passed on everything; and a
\* command sees the end of stdin only then.
Fed(j) ==
    /\ exit[j] # "none" => cmd[j] = "exited"
    /\ cat[j] = "done" => cmd[j] = "exited" \/ (Ends[j] /\ fed[j] = Input[j])
    /\ eof[j] => cat[j] = "done" /\ Ends[j] /\ fed[j] = Input[j]

\* What an exit status means.
Left(j) ==
    /\ main[j] \in {"join", "ended"} => exit[j] = "whole"
    /\ exit[j] = "whole" => cat[j] = "done" /\ shell # j

\* The line of a job is sent once.
SentOnce(j) ==
    /\ main[j] \in {"idle", "start"} => cmd[j] = "none"
    /\ cmd[j] = "none" => cat[j] = "none"

Queue ==
    /\ \A k \in 1 .. Len(tty) : main[tty[k]] \notin {"idle", "start"} /\ cmd[tty[k]] = "none"
    /\ \A k, l \in 1 .. Len(tty) : tty[k] = tty[l] => k = l

Job(j) == Counted(j) /\ Fed(j) /\ Left(j) /\ SentOnce(j)

IInv == Types /\ Queue /\ \A j \in Jobs : Job(j)

JobStep(j) == Host(j) \/ Guest(j) \/ Outside(j)

USE DEF host, guest

\* The other steps leave the queue alone, and what it depends on.
LEMMA QueueStays ==
    ASSUME IInv, UNCHANGED tty,
           \A k \in Jobs : main[k] \notin {"idle", "start"} /\ cmd[k] = "none"
                              => main'[k] \notin {"idle", "start"} /\ cmd'[k] = "none"
    PROVE  Queue'
<1>1. \A k \in 1 .. Len(tty) : tty[k] \in Jobs
  BY ElementOfSeq DEF IInv, Types
<1> QED
  BY <1>1 DEF IInv, Queue

LEMMA StartKeeps ==
    ASSUME IInv, NEW j \in Jobs,
           \/ Start(j) \/ Kill(j) \/ Ended(j)
    PROVE  Types' /\ Queue' /\ Job(j)'
<1>1. CASE Start(j)
  <2>1. Types'
    BY <1>1 DEF IInv, Types, Start
  <2>2. Queue'
    BY <1>1, QueueStays DEF IInv, Types, Start
  <2>3. Counted(j)'
    BY <1>1 DEF IInv, Types, Job, Counted, Start
  <2>4. Fed(j)'
    BY <1>1 DEF IInv, Types, Job, Fed, Start
  <2>5. Left(j)' /\ SentOnce(j)'
    BY <1>1 DEF IInv, Types, Job, Fed, Left, SentOnce, Start
  <2> QED
    BY <2>1, <2>2, <2>3, <2>4, <2>5 DEF Job
<1>2. CASE Kill(j)
  <2>1. Types'
    BY <1>2 DEF IInv, Types, Kill, Live
  <2>2. Queue'
    BY <1>2, QueueStays DEF IInv, Types, Kill, Live
  <2>3. Counted(j)'
    BY <1>2 DEF IInv, Types, Job, Counted, Kill, Live
  <2>4. Fed(j)'
    BY <1>2 DEF IInv, Types, Job, Fed, Kill, Live
  <2>5. Left(j)' /\ SentOnce(j)'
    BY <1>2 DEF IInv, Types, Job, Fed, Left, SentOnce, Kill, Live
  <2> QED
    BY <2>1, <2>2, <2>3, <2>4, <2>5 DEF Job
<1>3. CASE Ended(j)
  <2>1. Types'
    BY <1>3 DEF IInv, Types, Ended
  <2>2. Queue'
    BY <1>3, QueueStays DEF IInv, Types, Ended
  <2>3. Counted(j)'
    BY <1>3 DEF IInv, Types, Job, Counted, Ended
  <2>4. Fed(j)'
    BY <1>3 DEF IInv, Types, Job, Fed, Ended
  <2>5. Left(j)' /\ SentOnce(j)'
    BY <1>3 DEF IInv, Types, Job, Fed, Left, SentOnce, Ended
  <2> QED
    BY <2>1, <2>2, <2>3, <2>4, <2>5 DEF Job
<1> QED
  BY <1>1, <1>2, <1>3

LEMMA SendKeeps ==
    ASSUME IInv, NEW j \in Jobs, SendLine(j)
    PROVE  Types' /\ Queue' /\ Job(j)'
<1>1. main'[j] = "wait" /\ cmd[j] = "none" /\ main[j] = "start"
  BY DEF IInv, Types, Job, SentOnce, SendLine
<1>2. \A k \in Jobs \ {j} : main'[k] = main[k]
  BY DEF SendLine, IInv, Types
<1>3. /\ tty' \in Seq(Jobs) /\ Len(tty') = Len(tty) + 1 /\ Len(tty) \in Nat
      /\ \A k \in 1 .. Len(tty) : tty'[k] = tty[k] /\ tty[k] \in Jobs
      /\ tty'[Len(tty) + 1] = j
  <2>1. tty \in Seq(Jobs) /\ tty' = Append(tty, j)
    BY DEF SendLine, IInv, Types
  <2>2. Len(tty) \in Nat
    BY <2>1, LenProperties
  <2>3. \A k \in 1 .. Len(tty) : tty[k] \in Jobs
    BY <2>1, ElementOfSeq
  <2> QED
    BY <2>1, <2>2, <2>3, AppendProperties
<1>4. \A k \in 1 .. Len(tty) : tty[k] # j
  BY <1>1 DEF IInv, Queue
<1>5. UNCHANGED cmd
  BY DEF SendLine
<1>6. Types'
  BY <1>3 DEF IInv, Types, SendLine
<1>7. \A k \in 1 .. Len(tty') : k \in 1 .. Len(tty) \/ k = Len(tty) + 1
  BY <1>3
<1>8. Queue'
  <2>1. \A k \in 1 .. Len(tty') :
            main'[tty'[k]] \notin {"idle", "start"} /\ cmd'[tty'[k]] = "none"
    BY <1>1, <1>2, <1>3, <1>4, <1>5, <1>7 DEF IInv, Queue
  <2>2. \A k, l \in 1 .. Len(tty') : tty'[k] = tty'[l] => k = l
    BY <1>3, <1>4, <1>7 DEF IInv, Queue
  <2> QED
    BY <2>1, <2>2 DEF Queue
<1>9. Job(j)'
  BY DEF IInv, Types, Job, Counted, Fed, Left, SentOnce, SendLine
<1> QED
  BY <1>6, <1>8, <1>9

LEMMA ReadKeeps ==
    ASSUME IInv, NEW j \in Jobs, ReadLine(j)
    PROVE  Types' /\ Queue' /\ Job(j)'
<1>1. /\ tty' \in Seq(Jobs) /\ Len(tty') = Len(tty) - 1 /\ Len(tty) \in Nat \ {0}
      /\ \A k \in 1 .. Len(tty') : tty'[k] = tty[k + 1] /\ k + 1 \in 1 .. Len(tty)
      /\ tty[1] = j /\ 1 \in 1 .. Len(tty)
  <2>1. tty \in Seq(Jobs) /\ tty # <<>> /\ tty' = Tail(tty) /\ Head(tty) = j
    BY DEF ReadLine, IInv, Types
  <2>2. Len(tty) \in Nat \ {0} /\ tty[1] = j
    BY <2>1, LenProperties, EmptySeq
  <2> QED
    BY <2>1, <2>2, HeadTailProperties
<1>2. cmd[j] = "none" /\ main[j] \notin {"idle", "start"}
  BY <1>1 DEF IInv, Queue
<1>3. \A k \in 1 .. Len(tty') : tty'[k] # j /\ tty'[k] \in Jobs
  <2> SUFFICES ASSUME NEW k \in 1 .. Len(tty') PROVE tty'[k] # j /\ tty'[k] \in Jobs
    OBVIOUS
  <2>1. tty'[k] \in Jobs
    BY <1>1, ElementOfSeq
  <2>2. tty'[k] = tty[k + 1] /\ k + 1 \in 1 .. Len(tty) /\ k + 1 # 1
    BY <1>1
  <2>3. tty[k + 1] # tty[1]
    BY <1>1, <2>2 DEF IInv, Queue
  <2> QED
    BY <1>1, <2>1, <2>2, <2>3
<1>4. Types'
  BY <1>1 DEF IInv, Types, ReadLine
<1>5. \A k \in Jobs \ {j} : cmd'[k] = cmd[k]
  BY DEF ReadLine, IInv, Types
<1>6. Queue'
  <2>1. \A k \in 1 .. Len(tty') :
            main'[tty'[k]] \notin {"idle", "start"} /\ cmd'[tty'[k]] = "none"
    BY <1>1, <1>3, <1>5 DEF IInv, Queue, ReadLine
  <2>2. \A k, l \in 1 .. Len(tty') : tty'[k] = tty'[l] => k = l
    BY <1>1 DEF IInv, Queue
  <2> QED
    BY <2>1, <2>2 DEF Queue
<1>7. Job(j)'
  BY <1>2 DEF IInv, Types, Job, Counted, Fed, Left, SentOnce, ReadLine
<1> QED
  BY <1>4, <1>6, <1>7

LEMMA HostKeeps ==
    ASSUME IInv, NEW j \in Jobs,
           \/ SeesExit(j) \/ TakeBlock(j) \/ TakeEof(j) \/ TakeNothing(j) \/ WriteFlag(j)
           \/ IdleIn(j) \/ ShovelOut(j) \/ IdleOut(j)
    PROVE  Types' /\ Queue' /\ Job(j)'
<1>1. CASE SeesExit(j)
  <2>1. Types'
    BY <1>1 DEF IInv, Types, SeesExit
  <2>2. Queue'
    BY <1>1, QueueStays DEF IInv, Types, SeesExit
  <2>3. Counted(j)'
    BY <1>1 DEF IInv, Types, Job, Counted, SeesExit
  <2>4. Fed(j)'
    BY <1>1 DEF IInv, Types, Job, Fed, SeesExit
  <2>5. Left(j)' /\ SentOnce(j)'
    BY <1>1 DEF IInv, Types, Job, Fed, Left, SentOnce, SeesExit
  <2> QED
    BY <2>1, <2>2, <2>3, <2>4, <2>5 DEF Job
<1>2. CASE TakeBlock(j)
  <2>6. /\ inFile \in [Jobs -> Nat] /\ inFile' = [inFile EXCEPT ![j] = inFile[j] + 1]
        /\ inFile[j] < Input[j] /\ Input[j] \in Nat /\ inAt[j] = "read"
        /\ fed[j] \in Nat
        /\ UNCHANGED <<main, inAt, fed, flag, limit, eof, cat, cmd, exit, tty>>
    BY <1>2, StreamsAssumption DEF IInv, Types, TakeBlock
  <2>7. /\ inFile[j] \in Nat /\ inFile'[j] = inFile[j] + 1
        /\ inFile' \in [Jobs -> Nat]
    BY <2>6
  <2>1. Types'
    BY <2>6, <2>7 DEF IInv, Types
  <2>2. Queue'
    BY <1>2, QueueStays DEF IInv, Types, TakeBlock, Live
  <2>3. Counted(j)'
    <3>1. /\ inFile[j] <= Input[j] /\ fed[j] <= inFile[j] /\ flag[j] = "none"
          /\ limit[j] => flag[j] = "count"
      BY <2>6 DEF IInv, Job, Counted
    <3> QED
      BY <3>1, <2>6, <2>7 DEF Counted
  <2>4. Fed(j)'
    BY <1>2, StreamsAssumption DEF IInv, Types, Job, Fed, TakeBlock, Live
  <2>5. Left(j)' /\ SentOnce(j)'
    BY <1>2, StreamsAssumption DEF IInv, Types, Job, Fed, Left, SentOnce, TakeBlock, Live
  <2> QED
    BY <2>1, <2>2, <2>3, <2>4, <2>5 DEF Job
<1>3. CASE TakeEof(j)
  <2>1. Types'
    BY <1>3, StreamsAssumption DEF IInv, Types, TakeEof, Live
  <2>2. Queue'
    BY <1>3, QueueStays DEF IInv, Types, TakeEof, Live
  <2>3. Counted(j)'
    BY <1>3, StreamsAssumption DEF IInv, Types, Job, Counted, TakeEof, Live
  <2>4. Fed(j)'
    BY <1>3, StreamsAssumption DEF IInv, Types, Job, Fed, TakeEof, Live
  <2>5. Left(j)' /\ SentOnce(j)'
    BY <1>3, StreamsAssumption DEF IInv, Types, Job, Fed, Left, SentOnce, TakeEof, Live
  <2> QED
    BY <2>1, <2>2, <2>3, <2>4, <2>5 DEF Job
<1>4. CASE TakeNothing(j)
  <2>1. Types'
    BY <1>4 DEF IInv, Types, TakeNothing, Live
  <2>2. Queue'
    BY <1>4, QueueStays DEF IInv, Types, TakeNothing, Live
  <2>3. Counted(j)'
    BY <1>4 DEF IInv, Types, Job, Counted, TakeNothing, Live
  <2>4. Fed(j)'
    BY <1>4 DEF IInv, Types, Job, Fed, TakeNothing, Live
  <2>5. Left(j)' /\ SentOnce(j)'
    BY <1>4 DEF IInv, Types, Job, Fed, Left, SentOnce, TakeNothing, Live
  <2> QED
    BY <2>1, <2>2, <2>3, <2>4, <2>5 DEF Job
<1>5. CASE WriteFlag(j)
  <2>1. Types'
    BY <1>5 DEF IInv, Types, WriteFlag, Live
  <2>2. Queue'
    BY <1>5, QueueStays DEF IInv, Types, WriteFlag, Live
  <2>3. Counted(j)'
    <3>1. /\ flag'[j] = "count" /\ inAt'[j] = "done"
          /\ UNCHANGED <<inFile, fed, limit>>
      BY <1>5 DEF IInv, Types, WriteFlag
    <3>2. flag[j] # "none"
      BY <1>5 DEF IInv, Job, Counted, WriteFlag
    <3> QED
      BY <3>1, <3>2 DEF IInv, Job, Counted
  <2>4. Fed(j)'
    BY <1>5 DEF IInv, Types, Job, Fed, WriteFlag, Live
  <2>5. Left(j)' /\ SentOnce(j)'
    BY <1>5 DEF IInv, Types, Job, Fed, Left, SentOnce, WriteFlag, Live
  <2> QED
    BY <2>1, <2>2, <2>3, <2>4, <2>5 DEF Job
<1>6. CASE IdleIn(j)
  <2>1. Types'
    BY <1>6 DEF IInv, Types, IdleIn, Live
  <2>2. Queue'
    BY <1>6, QueueStays DEF IInv, Types, IdleIn, Live
  <2>3. Counted(j)'
    BY <1>6 DEF IInv, Types, Job, Counted, IdleIn, Live
  <2>4. Fed(j)'
    BY <1>6 DEF IInv, Types, Job, Fed, IdleIn, Live
  <2>5. Left(j)' /\ SentOnce(j)'
    BY <1>6 DEF IInv, Types, Job, Fed, Left, SentOnce, IdleIn, Live
  <2> QED
    BY <2>1, <2>2, <2>3, <2>4, <2>5 DEF Job
<1>7. CASE ShovelOut(j)
  <2>1. Types'
    BY <1>7 DEF IInv, Types, ShovelOut, Live
  <2>2. Queue'
    BY <1>7, QueueStays DEF IInv, Types, ShovelOut, Live
  <2>3. Counted(j)'
    BY <1>7 DEF IInv, Types, Job, Counted, ShovelOut, Live
  <2>4. Fed(j)'
    BY <1>7 DEF IInv, Types, Job, Fed, ShovelOut, Live
  <2>5. Left(j)' /\ SentOnce(j)'
    BY <1>7 DEF IInv, Types, Job, Fed, Left, SentOnce, ShovelOut, Live
  <2> QED
    BY <2>1, <2>2, <2>3, <2>4, <2>5 DEF Job
<1>8. CASE IdleOut(j)
  <2>1. Types'
    BY <1>8 DEF IInv, Types, IdleOut, Live
  <2>2. Queue'
    BY <1>8, QueueStays DEF IInv, Types, IdleOut, Live
  <2>3. Counted(j)'
    BY <1>8 DEF IInv, Types, Job, Counted, IdleOut, Live
  <2>4. Fed(j)'
    BY <1>8 DEF IInv, Types, Job, Fed, IdleOut, Live
  <2>5. Left(j)' /\ SentOnce(j)'
    BY <1>8 DEF IInv, Types, Job, Fed, Left, SentOnce, IdleOut, Live
  <2> QED
    BY <2>1, <2>2, <2>3, <2>4, <2>5 DEF Job
<1> QED
  BY <1>1, <1>2, <1>3, <1>4, <1>5, <1>6, <1>7, <1>8

LEMMA GuestKeeps ==
    ASSUME IInv, NEW j \in Jobs,
           \/ CatReads(j) \/ CatLooks(j) \/ SeeEof(j) \/ Echo(j) \/ Move(j) \/ Write(j)
           \/ ExitCmd(j)
    PROVE  Types' /\ Queue' /\ Job(j)'
<1>1. CASE CatReads(j)
  <2>1. /\ UNCHANGED <<main, inAt, inFile, flag, tty, shell, limit, cmd, eof, exit>>
        /\ cat[j] = "read" /\ fed \in [Jobs -> Nat] /\ inFile[j] \in Nat
        /\ cat \in [Jobs -> {"none", "read", "look", "done"}]
    BY <1>1 DEF IInv, Types, CatReads
  <2>2. Job(j) /\ Types /\ ~eof[j] /\ exit[j] # "whole"
    BY <2>1 DEF IInv, Job, Fed, Left
  <2>3. Queue'
    BY <2>1, QueueStays
  <2>4. CASE exit[j] # "none" /\ cat' = [cat EXCEPT ![j] = "done"] /\ UNCHANGED fed
    <3>1. Types'
      BY <2>1, <2>2, <2>4 DEF Types
    <3>2. cat'[j] = "done" /\ cmd[j] = "exited" /\ main[j] \notin {"join", "ended"}
      BY <2>1, <2>2, <2>4 DEF Job, Fed, Left
    <3> QED
      BY <2>1, <2>2, <2>3, <2>4, <3>1, <3>2 DEF Job, Counted, Fed, Left, SentOnce
  <2>5. CASE cmd[j] = "runs" /\ fed' = [fed EXCEPT ![j] = inFile[j]] /\ UNCHANGED cat
    <3>1. Types'
      BY <2>1, <2>2, <2>5 DEF Types
    <3>2. fed'[j] = inFile[j]
      BY <2>1, <2>5
    <3>3. Counted(j)'
      BY <2>1, <2>2, <3>2 DEF Job, Counted
    <3> QED
      BY <2>1, <2>2, <2>3, <2>5, <3>1, <3>3 DEF Job, Fed, Left, SentOnce
  <2>6. CASE /\ exit[j] = "none" /\ cmd[j] # "runs"
             /\ cat' = [cat EXCEPT ![j] = "done"] /\ UNCHANGED fed
    <3>1. Types'
      BY <2>1, <2>2, <2>6 DEF Types
    <3>2. cat'[j] = "done" /\ cmd[j] = "exited"
      BY <2>1, <2>2, <2>6 DEF Job, SentOnce, Types
    <3> QED
      BY <2>1, <2>2, <2>3, <2>6, <3>1, <3>2 DEF Job, Counted, Fed, Left, SentOnce
  <2>7. CASE cat' = [cat EXCEPT ![j] = "look"] /\ UNCHANGED fed
    <3>1. Types'
      BY <2>1, <2>2, <2>7 DEF Types
    <3>2. cat'[j] = "look"
      BY <2>1, <2>7
    <3> QED
      BY <2>1, <2>2, <2>3, <2>7, <3>1, <3>2 DEF Job, Counted, Fed, Left, SentOnce
  <2> QED
    BY <1>1, <2>4, <2>5, <2>6, <2>7 DEF CatReads
<1>2. CASE CatLooks(j)
  <2>1. Types'
    BY <1>2, StreamsAssumption DEF IInv, Types, CatLooks
  <2>2. Queue'
    BY <1>2, QueueStays DEF IInv, Types, CatLooks
  <2>3. Counted(j)'
    BY <1>2, StreamsAssumption DEF IInv, Types, Job, Counted, CatLooks
  <2>4. Fed(j)'
    <3>1. /\ UNCHANGED <<fed, cmd, eof, exit>> /\ ~eof[j] /\ cat'[j] \in {"read", "done"}
          /\ cat'[j] = "done" => limit'[j] /\ fed[j] >= inFile[j]
      BY <1>2 DEF IInv, Types, Job, Fed, CatLooks
    <3>2. limit'[j] => flag[j] = "count"
      BY <1>2 DEF IInv, Types, Job, Counted, CatLooks
    <3>3. cat'[j] = "done" => Ends[j] /\ fed[j] = Input[j]
      <4>1. fed[j] \in Nat /\ inFile[j] \in Nat /\ fed[j] <= inFile[j]
        BY DEF IInv, Types, Job, Counted
      <4>2. flag[j] = "count" => Ends[j] /\ inFile[j] = Input[j]
        BY DEF IInv, Job, Counted
      <4>3. cat'[j] = "done" => flag[j] = "count" /\ fed[j] >= inFile[j]
        BY <3>1, <3>2
      <4>4. fed[j] >= inFile[j] => fed[j] = inFile[j]
        BY <4>1
      <4> QED
        BY <4>2, <4>3, <4>4
    <3> QED
      BY <3>1, <3>3 DEF IInv, Job, Fed
  <2>5. Left(j)' /\ SentOnce(j)'
    BY <1>2, StreamsAssumption DEF IInv, Types, Job, Fed, Left, SentOnce, CatLooks
  <2> QED
    BY <2>1, <2>2, <2>3, <2>4, <2>5 DEF Job
<1>3. CASE SeeEof(j)
  <2>1. Types'
    BY <1>3 DEF IInv, Types, SeeEof
  <2>2. Queue'
    BY <1>3, QueueStays DEF IInv, Types, SeeEof
  <2>3. Counted(j)'
    BY <1>3 DEF IInv, Types, Job, Counted, SeeEof
  <2>4. Fed(j)'
    BY <1>3 DEF IInv, Types, Job, Fed, SeeEof
  <2>5. Left(j)' /\ SentOnce(j)'
    BY <1>3 DEF IInv, Types, Job, Fed, Left, SentOnce, SeeEof
  <2> QED
    BY <2>1, <2>2, <2>3, <2>4, <2>5 DEF Job
<1>4. CASE Echo(j)
  <2>1. Types'
    BY <1>4 DEF IInv, Types, Echo
  <2>2. Queue'
    BY <1>4, QueueStays DEF IInv, Types, Echo
  <2>3. Counted(j)'
    BY <1>4 DEF IInv, Types, Job, Counted, Echo
  <2>4. Fed(j)'
    BY <1>4 DEF IInv, Types, Job, Fed, Echo
  <2>5. Left(j)' /\ SentOnce(j)'
    BY <1>4 DEF IInv, Types, Job, Fed, Left, SentOnce, Echo
  <2> QED
    BY <2>1, <2>2, <2>3, <2>4, <2>5 DEF Job
<1>5. CASE Move(j)
  <2>1. Types'
    BY <1>5, StreamsAssumption DEF IInv, Types, Move
  <2>2. Queue'
    BY <1>5, QueueStays DEF IInv, Types, Move
  <2>3. Counted(j)'
    BY <1>5, StreamsAssumption DEF IInv, Types, Job, Counted, Move
  <2>4. Fed(j)'
    BY <1>5, StreamsAssumption DEF IInv, Types, Job, Fed, Move
  <2>5. Left(j)' /\ SentOnce(j)'
    BY <1>5, StreamsAssumption DEF IInv, Types, Job, Fed, Left, SentOnce, Move
  <2> QED
    BY <2>1, <2>2, <2>3, <2>4, <2>5 DEF Job
<1>6. CASE Write(j)
  <2>1. Types'
    BY <1>6 DEF IInv, Types, Write
  <2>2. Queue'
    BY <1>6, QueueStays DEF IInv, Types, Write
  <2>3. Counted(j)'
    BY <1>6 DEF IInv, Types, Job, Counted, Write
  <2>4. Fed(j)'
    BY <1>6 DEF IInv, Types, Job, Fed, Write
  <2>5. Left(j)' /\ SentOnce(j)'
    BY <1>6 DEF IInv, Types, Job, Fed, Left, SentOnce, Write
  <2> QED
    BY <2>1, <2>2, <2>3, <2>4, <2>5 DEF Job
<1>7. CASE ExitCmd(j)
  <2>1. Types'
    BY <1>7 DEF IInv, Types, ExitCmd
  <2>2. Queue'
    BY <1>7, QueueStays DEF IInv, Types, ExitCmd
  <2>3. Counted(j)'
    BY <1>7 DEF IInv, Types, Job, Counted, ExitCmd
  <2>4. Fed(j)'
    BY <1>7 DEF IInv, Types, Job, Fed, ExitCmd
  <2>5. Left(j)' /\ SentOnce(j)'
    BY <1>7 DEF IInv, Types, Job, Fed, Left, SentOnce, ExitCmd
  <2> QED
    BY <2>1, <2>2, <2>3, <2>4, <2>5 DEF Job
<1> QED
  BY <1>1, <1>2, <1>3, <1>4, <1>5, <1>6, <1>7

\* A step of one job leaves what the others have.
LEMMA OthersKeep ==
    ASSUME IInv, NEW j \in Jobs, JobStep(j), NEW k \in Jobs \ {j}
    PROVE  Job(k)'
<1>1. /\ main'[k] = main[k] /\ inAt'[k] = inAt[k] /\ inFile'[k] = inFile[k]
      /\ flag'[k] = flag[k]
  <2>1. CASE Host(j)
    BY <2>1 DEF IInv, Types, Host, SendLine, SeesExit, Ended, TakeEof, WriteFlag, IdleIn,
       ShovelOut, IdleOut
  <2>2. CASE Guest(j)
    BY <2>2 DEF Guest, ReadLine, CatReads, CatLooks, SeeEof, Echo, Move
  <2>3. CASE Outside(j)
    BY <2>3 DEF IInv, Types, Outside, Start, Kill, TakeBlock, TakeNothing, Write, ExitCmd
  <2> QED
    BY <2>1, <2>2, <2>3 DEF JobStep
<1>2. /\ fed'[k] = fed[k] /\ limit'[k] = limit[k] /\ eof'[k] = eof[k] /\ cat'[k] = cat[k]
      /\ cmd'[k] = cmd[k] /\ exit'[k] = exit[k]
  <2>1. CASE Host(j)
    BY <2>1 DEF Host, SendLine, SeesExit, Ended, TakeEof, WriteFlag, IdleIn, ShovelOut, IdleOut
  <2>2. CASE Guest(j)
    <3>1. CASE ReadLine(j)
      BY <3>1 DEF IInv, Types, ReadLine
    <3>2. CASE CatReads(j)
      BY <3>2 DEF IInv, Types, CatReads
    <3>3. CASE CatLooks(j)
      BY <3>3 DEF IInv, Types, CatLooks
    <3>4. CASE SeeEof(j) \/ Echo(j) \/ Move(j)
      BY <3>4 DEF IInv, Types, SeeEof, Echo, Move
    <3> QED
      BY <2>2, <3>1, <3>2, <3>3, <3>4 DEF Guest
  <2>3. CASE Outside(j)
    BY <2>3 DEF IInv, Types, Outside, Start, Kill, TakeBlock, TakeNothing, Write, ExitCmd
  <2> QED
    BY <2>1, <2>2, <2>3 DEF JobStep
<1>3. shell' \in {shell, j, NoJob}
  BY DEF JobStep, Host, Guest, Outside, SendLine, SeesExit, Ended, TakeEof, WriteFlag, IdleIn,
     ShovelOut, IdleOut, ReadLine, CatReads, CatLooks, SeeEof, Echo, Move, Start, Kill,
     TakeBlock, TakeNothing, Write, ExitCmd
<1>4. Counted(k)' /\ Fed(k)' /\ SentOnce(k)'
  BY <1>1, <1>2 DEF IInv, Job, Counted, Fed, SentOnce
<1>5. Left(k)'
  BY <1>1, <1>2, <1>3, StreamsAssumption DEF IInv, Job, Left
<1> QED
  BY <1>4, <1>5 DEF Job

LEMMA Inductive == Spec => []IInv
<1>1. Init => IInv
  <2> SUFFICES ASSUME Init PROVE IInv
    OBVIOUS
  <2>1. Types /\ Queue
    BY DEF Init, Types, Queue
  <2>2. ASSUME NEW j \in Jobs PROVE Job(j)
    BY StreamsAssumption DEF Init, Job, Counted, Fed, Left, SentOnce
  <2> QED
    BY <2>1, <2>2 DEF IInv
<1>2. IInv /\ [Next]_vars => IInv'
  <2> SUFFICES ASSUME IInv, [Next]_vars PROVE IInv'
    OBVIOUS
  <2>1. CASE UNCHANGED vars
    BY <2>1 DEF vars, IInv, Types, Queue, Job, Counted, Fed, Left, SentOnce
  <2>2. ASSUME NEW j \in Jobs, JobStep(j) PROVE IInv'
    <3>1. Types' /\ Queue' /\ Job(j)'
      BY <2>2, StartKeeps, SendKeeps, ReadKeeps, HostKeeps, GuestKeeps
         DEF JobStep, Host, Guest, Outside
    <3>2. \A k \in Jobs \ {j} : Job(k)'
      BY <2>2, OthersKeep
    <3> QED
      BY <3>1, <3>2 DEF IInv
  <2> QED
    BY <2>1, <2>2 DEF Next, JobStep, Done
<1> QED
  BY <1>1, <1>2, PTL DEF Spec

\* A command that sees the end of its stdin has been given all of it, for any
\* number of jobs and any streams.
THEOREM NoTruncatedInput == Spec => []InputWhole
<1>1. IInv => InputWhole
  BY DEF IInv, Job, Fed, InputWhole
<1> QED
  BY <1>1, Inductive, PTL

\* An invocation that has ended by itself leaves the console free.
THEOREM ConsoleIsFree == Spec => []ConsoleFree
<1>1. IInv => ConsoleFree
  BY DEF IInv, Types, Job, Fed, Left, ConsoleFree
<1> QED
  BY <1>1, Inductive, PTL
-----------------------------------------------------------------------------
(* The other types.                                                        *)

\* What the arguments above do not need.
RestTypes ==
    /\ outAt \in [Jobs -> {"read", "idle", "done"}] /\ running \in [Jobs -> BOOLEAN]
    /\ shell \in Jobs \cup {NoJob}

\* What is copied has been written, and no more than that is.
Copied ==
    /\ out \in [Jobs -> Nat] /\ copied \in [Jobs -> Nat]
    /\ \A j \in Jobs : out[j] <= Output[j] /\ copied[j] <= out[j]

LEMMA RestTyped == ASSUME RestTypes, NEW j \in Jobs, JobStep(j) PROVE RestTypes'
<1>1. CASE Host(j)
  BY <1>1 DEF RestTypes, Host, SendLine, SeesExit, Ended, TakeEof, WriteFlag, IdleIn,
     ShovelOut, IdleOut
<1>2. CASE Guest(j)
  BY <1>2 DEF RestTypes, Guest, ReadLine, CatReads, CatLooks, SeeEof, Echo, Move
<1>3. CASE Outside(j)
  BY <1>3 DEF RestTypes, Outside, Start, Kill, TakeBlock, TakeNothing, Write, ExitCmd
<1> QED
  BY <1>1, <1>2, <1>3 DEF JobStep

LEMMA CopiedStays == ASSUME Copied, NEW j \in Jobs, JobStep(j) PROVE Copied'
<1>1. CASE Write(j)
  <2>1. out[j] < Output[j] /\ out' = [out EXCEPT ![j] = @ + 1] /\ UNCHANGED copied
    BY <1>1 DEF Write
  <2>2. out[j] \in Nat /\ copied[j] \in Nat /\ Output[j] \in Nat
    BY StreamsAssumption DEF Copied
  <2>3. out' \in [Jobs -> Nat] /\ out'[j] = out[j] + 1
        /\ \A k \in Jobs \ {j} : out'[k] = out[k]
    BY <2>1, <2>2 DEF Copied
  <2> QED
    BY <2>1, <2>2, <2>3 DEF Copied
<1>2. CASE ShovelOut(j)
  <2>1. UNCHANGED out /\ copied' \in {copied, [copied EXCEPT ![j] = out[j]]}
    BY <1>2 DEF ShovelOut
  <2> QED
    BY <2>1 DEF Copied
<1>3. CASE UNCHANGED <<out, copied>>
  BY <1>3 DEF Copied
<1>4. Write(j) \/ ShovelOut(j) \/ UNCHANGED <<out, copied>>
  BY DEF JobStep, Host, SendLine, SeesExit, Ended, TakeEof, WriteFlag, IdleIn, IdleOut, Guest,
     ReadLine, CatReads, CatLooks, SeeEof, Echo, Move, Outside, Start, Kill, TakeBlock,
     TakeNothing, ExitCmd
<1> QED
  BY <1>1, <1>2, <1>3, <1>4

LEMMA RestInductive == Spec => [](RestTypes /\ Copied)
<1>1. Init => RestTypes /\ Copied
  BY StreamsAssumption DEF Init, RestTypes, Copied
<1>2. RestTypes /\ Copied /\ [Next]_vars => (RestTypes /\ Copied)'
  <2>1. UNCHANGED vars /\ RestTypes /\ Copied => (RestTypes /\ Copied)'
    BY DEF vars, RestTypes, Copied
  <2> QED
    BY <2>1, RestTyped, CopiedStays DEF Next, Done, JobStep
<1> QED
  BY <1>1, <1>2, PTL DEF Spec

LEMMA Counts ==
    ASSUME IInv, Copied, NEW j \in Jobs
    PROVE  /\ inFile[j] \in 0 .. Input[j] /\ fed[j] \in 0 .. inFile[j]
           /\ out[j] \in 0 .. Output[j] /\ copied[j] \in 0 .. out[j]
<1>1. Counted(j) /\ inFile[j] \in Nat /\ fed[j] \in Nat /\ out[j] \in Nat /\ copied[j] \in Nat
  BY DEF IInv, Types, Job, Copied
<1>2. Input[j] \in Nat /\ Output[j] \in Nat
  BY StreamsAssumption
<1> QED
  BY <1>1, <1>2 DEF Counted, Copied

\* Every variable has its type, for any invocations and streams; no stream is
\* longer than what was written to it, at any stage of its way.
THEOREM TypeCorrect == Spec => []TypeOK
<1>1. IInv /\ RestTypes /\ Copied => TypeOK
  <2> SUFFICES ASSUME IInv, RestTypes, Copied PROVE TypeOK
    OBVIOUS
  <2>1. Types
    BY DEF IInv
  <2>2. \A j \in Jobs :
          /\ inFile[j] \in 0 .. Input[j] /\ fed[j] \in 0 .. inFile[j]
          /\ out[j] \in 0 .. Output[j] /\ copied[j] \in 0 .. out[j]
    BY Counts
  <2> QED
    BY <2>1, <2>2, Zenon DEF Types, RestTypes, TypeOK
<1> QED
  BY <1>1, Inductive, RestInductive, PTL
-----------------------------------------------------------------------------
(* The search for a port, which shares no state with the auxverb.          *)

\* t is at p, or has chosen it.
Holds(t, p) ==
    /\ at[t] \in {"made", "connect", "chosen", "up", "failed", "closed", "killed"}
    /\ port[t] = p

Used(p) == p \in Others \cup erred \/ \E t \in Servers : Holds(t, p)

\* What the search has left behind is used, and stays so.
Passed ==
    \A s \in Servers : Searching(s) => \A q \in Ports : q < port[s] => Used(q)

BoundByUp == \A p \in bound : \E t \in Servers : at[t] = "up" /\ port[t] = p

PortsInv == PortsOK /\ LocksGo /\ BoundByUp /\ Passed /\ NoneWasted

\* The steps of one server.
PortStep(s) == Search(s) \/ Launch(s) \/ Close(s) \/ KillServer(s)

\* A step of s changes no other server.
LEMMA OneMoves ==
    ASSUME PortsOK, NEW s \in Servers, PortStep(s)
    PROVE  /\ at' \in [Servers -> {at'[s]} \cup {at[t] : t \in Servers}]
           /\ \A t \in Servers \ {s} : at'[t] = at[t] /\ port'[t] = port[t]
  BY DEF PortsOK, PortStep, Search, MakeLock, Locked, Unlink, Taken, Free, AllTaken, Errs,
      Launch, Close, KillServer, Searching

LEMMA TypeHolds == ASSUME PortsOK, [PortsNext]_portVars PROVE PortsOK'
<1> USE PortsAssumption DEF Ports
<1>1. CASE UNCHANGED portVars
  BY <1>1 DEF portVars, PortsOK
<1>2. ASSUME NEW s \in Servers, MakeLock(s) PROVE PortsOK'
  BY <1>2 DEF PortsOK, MakeLock
<1>3. ASSUME NEW s \in Servers, Locked(s) PROVE PortsOK'
  BY <1>3 DEF PortsOK, Locked
<1>4. ASSUME NEW s \in Servers, Unlink(s) PROVE PortsOK'
  BY <1>4 DEF PortsOK, Unlink
<1>5. ASSUME NEW s \in Servers, Taken(s) PROVE PortsOK'
  BY <1>5 DEF PortsOK, Taken
<1>6. ASSUME NEW s \in Servers, Free(s) PROVE PortsOK'
  BY <1>6 DEF PortsOK, Free
<1>7. ASSUME NEW s \in Servers, AllTaken(s) PROVE PortsOK'
  BY <1>7 DEF PortsOK, AllTaken
<1>8. ASSUME NEW s \in Servers, Launch(s) PROVE PortsOK'
  BY <1>8 DEF PortsOK, Launch
<1>9. ASSUME NEW s \in Servers, Close(s) PROVE PortsOK'
  BY <1>9 DEF PortsOK, Close
<1>10. ASSUME NEW s \in Servers, KillServer(s) PROVE PortsOK'
  BY <1>10 DEF PortsOK, KillServer, Searching
<1>11. ASSUME NEW s \in Servers, Errs(s) PROVE PortsOK'
  <2>1. at' = [at EXCEPT ![s] = "try"] /\ port' = [port EXCEPT ![s] = @ + 1]
    BY <1>11 DEF Errs
  <2>2. /\ lock' \subseteq Ports /\ bound' \subseteq Ports /\ erred' \subseteq Ports
        /\ port[s] \in 1 .. LastPort
    BY <1>11 DEF PortsOK, Errs
  <2> QED
    BY <2>1, <2>2 DEF PortsOK
<1> QED
  BY <1>1, <1>2, <1>3, <1>4, <1>5, <1>6, <1>7, <1>8, <1>9, <1>10, <1>11
  DEF PortsNext, Search

LEMMA LocksHold == ASSUME PortsOK, LocksGo, [PortsNext]_portVars PROVE LocksGo'
<1>1. CASE UNCHANGED portVars
  BY <1>1 DEF portVars, LocksGo
<1>2. ASSUME NEW s \in Servers, MakeLock(s) PROVE LocksGo'
  <2>1. at'[s] = "made" /\ port'[s] = port[s]
    BY <1>2 DEF PortsOK, MakeLock
  <2> QED
    BY <1>2, <2>1 DEF PortsOK, LocksGo, MakeLock
<1>3. ASSUME NEW s \in Servers, Unlink(s) PROVE LocksGo'
  BY <1>3 DEF PortsOK, LocksGo, Unlink
<1>4. ASSUME NEW s \in Servers,
             Locked(s) \/ Taken(s) \/ Free(s) \/ AllTaken(s) \/ Launch(s) \/ Close(s)
      PROVE  LocksGo'
  <2>1. lock' = lock /\ at[s] \notin {"made", "killed"}
    BY <1>4 DEF Locked, Taken, Free, AllTaken, Launch, Close
  <2>2. \A t \in Servers \ {s} : at'[t] = at[t] /\ port'[t] = port[t]
    BY <1>4, OneMoves DEF PortStep, Search
  <2> QED
    BY <2>1, <2>2 DEF LocksGo
<1>5. ASSUME NEW s \in Servers, KillServer(s) PROVE LocksGo'
  BY <1>5 DEF PortsOK, LocksGo, KillServer
<1>6. ASSUME NEW s \in Servers, Errs(s) PROVE LocksGo'
  BY <1>6 DEF PortsOK, LocksGo, Errs, Searching
<1> QED
  BY <1>1, <1>2, <1>3, <1>4, <1>5, <1>6 DEF PortsNext, Search

LEMMA BoundHolds == ASSUME PortsOK, BoundByUp, [PortsNext]_portVars PROVE BoundByUp'
<1>1. CASE UNCHANGED portVars
  BY <1>1 DEF portVars, BoundByUp
<1>2. ASSUME NEW s \in Servers, Search(s) \/ KillServer(s) PROVE BoundByUp'
  <2>1. bound' = bound /\ at[s] # "up"
    BY <1>2
    DEF Search, MakeLock, Locked, Unlink, Taken, Free, AllTaken, Errs, KillServer,
        Searching
  <2>2. \A t \in Servers \ {s} : at'[t] = at[t] /\ port'[t] = port[t]
    BY <1>2, OneMoves DEF PortStep
  <2> QED
    BY <2>1, <2>2 DEF BoundByUp
<1>3. ASSUME NEW s \in Servers, Launch(s) PROVE BoundByUp'
  BY <1>3 DEF PortsOK, BoundByUp, Launch
<1>4. ASSUME NEW s \in Servers, Close(s) PROVE BoundByUp'
  BY <1>4 DEF PortsOK, BoundByUp, Close
<1> QED
  BY <1>1, <1>2, <1>3, <1>4 DEF PortsNext

\* A port that is used stays so: who leaves one behind in its search has found
\* it taken, or met an error.
LEMMA UsedStays ==
    ASSUME PortsOK, BoundByUp, NEW s \in Servers, PortStep(s), NEW p \in Ports, Used(p)
    PROVE  Used(p)'
<1>1. \A t \in Servers \ {s} : at'[t] = at[t] /\ port'[t] = port[t]
  BY OneMoves
<1>2. CASE p \in Others \cup erred
  <2>1. erred \subseteq erred'
    BY DEF PortStep, Search, MakeLock, Locked, Unlink, Taken, Free, AllTaken, Errs, Launch,
        Close, KillServer
  <2> QED
    BY <1>2, <2>1 DEF Used
<1>3. ASSUME NEW t \in Servers \ {s}, Holds(t, p) PROVE Used(p)'
  BY <1>1, <1>3 DEF Used, Holds
<1>4. CASE Holds(s, p) /\ Taken(s)
  <2>1. p \in bound \cup Others
    BY <1>4 DEF Holds, Taken
  <2>2. ASSUME p \in bound PROVE \E t \in Servers \ {s} : Holds(t, p)
    BY <1>4, <2>2 DEF BoundByUp, Holds, Taken
  <2> QED
    BY <1>2, <1>3, <2>1, <2>2
<1>5. CASE Holds(s, p) /\ Errs(s)
  BY <1>5 DEF Used, Holds, Errs
<1>6. CASE Holds(s, p) /\ ~Taken(s) /\ ~Errs(s)
  <2>1. at[s] # "try"
    BY <1>6 DEF Holds
  <2>2. port'[s] = port[s]
    BY <1>6, <2>1
    DEF PortStep, Search, MakeLock, Locked, Unlink, Free, AllTaken, Launch, Close,
        KillServer
  <2>3. at'[s] \in {"made", "connect", "chosen", "up", "failed", "closed", "killed"}
    BY <1>6, <2>1
    DEF PortsOK, PortStep, Search, MakeLock, Locked, Unlink, Free, AllTaken, Launch,
        Close, KillServer
  <2> QED
    BY <1>6, <2>2, <2>3 DEF Used, Holds
<1> QED
  BY <1>2, <1>3, <1>4, <1>5, <1>6 DEF Used

LEMMA PassedHolds ==
    ASSUME PortsOK, LocksGo, BoundByUp, Passed, [PortsNext]_portVars
    PROVE  Passed'
<1>1. CASE UNCHANGED portVars
  BY <1>1 DEF portVars, Passed, Searching, Used, Holds
<1>2. ASSUME NEW s \in Servers, PortStep(s) PROVE Passed'
  <2> SUFFICES ASSUME NEW t \in Servers, Searching(t)', NEW q \in Ports, q < port'[t]
               PROVE  Used(q)'
    BY DEF Passed
  <2>1. CASE t # s
    <3>1. Searching(t) /\ port'[t] = port[t]
      BY <1>2, <2>1, OneMoves DEF Searching
    <3>2. Used(q)
      BY <3>1 DEF Passed
    <3> QED
      BY <1>2, <3>2, UsedStays
  <2>2. CASE t = s /\ port'[s] = port[s]
    <3>1. Searching(s)
      BY <1>2, <2>2
      DEF PortsOK, Searching, PortStep, Search, MakeLock, Locked, Unlink, Taken, Free,
          AllTaken, Errs, Launch, Close, KillServer
    <3>2. Used(q)
      BY <2>2, <3>1 DEF Passed
    <3> QED
      BY <1>2, <3>2, UsedStays
  <2>3. CASE t = s /\ port'[s] # port[s]
    <3>1. Locked(s) \/ Taken(s) \/ Errs(s)
      BY <1>2, <2>3
      DEF PortsOK, Searching, PortStep, Search, MakeLock, Unlink, Free, AllTaken, Launch,
          Close, KillServer
    <3>2. port'[s] = port[s] + 1 /\ Searching(s) /\ port[s] \in Nat
      BY <3>1 DEF PortsOK, Locked, Taken, Errs, Searching, Ports
    <3>3. q = port[s] \/ q < port[s]
      BY <2>3, <3>2 DEF Ports
    <3>4. CASE q < port[s]
      <4>1. Used(q)
        BY <3>2, <3>4 DEF Passed
      <4> QED
        BY <1>2, <4>1, UsedStays
    <3>5. CASE q = port[s] /\ Locked(s)
      <4>1. Used(q)
        BY <3>5 DEF Locked, LocksGo, Used, Holds
      <4> QED
        BY <1>2, <4>1, UsedStays
    <3>6. CASE q = port[s] /\ Taken(s)
      <4>1. Used(q)
        BY <3>6 DEF Taken, BoundByUp, Used, Holds
      <4> QED
        BY <1>2, <4>1, UsedStays
    <3>7. CASE q = port[s] /\ Errs(s)
      BY <3>7 DEF Errs, Used
    <3> QED
      BY <3>1, <3>3, <3>4, <3>5, <3>6, <3>7
  <2> QED
    BY <2>1, <2>2, <2>3
<1> QED
  BY <1>1, <1>2 DEF PortsNext, PortStep

LEMMA WastedHolds ==
    ASSUME PortsOK, BoundByUp, Passed, NoneWasted, [PortsNext]_portVars
    PROVE  NoneWasted'
<1>1. CASE UNCHANGED portVars
  BY <1>1 DEF portVars, NoneWasted
<1>2. ASSUME NEW s \in Servers, PortStep(s) PROVE NoneWasted'
  <2> SUFFICES ASSUME NEW t \in Servers, at'[t] \in {"chosen", "up"}, port'[t] = 0,
                      NEW q \in Ports
               PROVE  Used(q)'
    BY DEF NoneWasted, Used, Holds
  <2>1. CASE at[t] \in {"chosen", "up"} /\ port[t] = 0
    <3>1. Used(q)
      BY <2>1 DEF NoneWasted, Used, Holds
    <3> QED
      BY <1>2, <3>1, UsedStays
  <2>2. CASE ~(at[t] \in {"chosen", "up"} /\ port[t] = 0)
    <3>1. t = s
      BY <1>2, <2>2, OneMoves
    <3>2. AllTaken(s)
      BY <1>2, <2>2, <3>1, PortsAssumption
      DEF PortsOK, Ports, PortStep, Search, MakeLock, Locked, Unlink, Taken, Free, Errs,
          Launch, Close, KillServer
    <3>3. q < port[s] /\ Searching(s)
      BY <3>2, PortsAssumption DEF AllTaken, Ports, Searching
    <3>4. Used(q)
      BY <3>3 DEF Passed
    <3> QED
      BY <1>2, <3>4, UsedStays
  <2> QED
    BY <2>1, <2>2
<1> QED
  BY <1>1, <1>2 DEF PortsNext, PortStep

LEMMA PortsInductive == PortsSpec => []PortsInv
<1>1. PortsInit => PortsInv
  <2> SUFFICES ASSUME PortsInit PROVE PortsInv
    OBVIOUS
  <2>1. PortsOK
    BY PortsAssumption DEF PortsInit, PortsOK, Ports
  <2>2. LocksGo /\ BoundByUp /\ NoneWasted
    BY DEF PortsInit, LocksGo, BoundByUp, NoneWasted
  <2>3. Passed
    BY DEF PortsInit, Passed, Ports
  <2> QED
    BY <2>1, <2>2, <2>3 DEF PortsInv
<1>2. PortsInv /\ [PortsNext]_portVars => PortsInv'
  BY TypeHolds, LocksHold, BoundHolds, PassedHolds, WastedHolds DEF PortsInv
<1> QED
  BY <1>1, <1>2, PTL DEF PortsSpec

\* SearchRight: no lock file stays but those of servers that were killed, and
\* find_free_port() gives up only when there is no port, for any number of
\* servers and any range.
THEOREM SearchIsRight == PortsSpec => []SearchRight
  BY PortsInductive, PTL DEF PortsInv, SearchRight
=============================================================================
