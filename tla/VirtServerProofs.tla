-------------------------- MODULE VirtServerProofs --------------------------
(***************************************************************************)
(* Theorems about VirtServer.                                              *)
(*                                                                         *)
(* For every table of hooks: its type invariant, the invariant that ties   *)
(* the globals of VirtSubproc to the command being served, and that the    *)
(* server implements VirtProtocol.                                         *)
(*                                                                         *)
(* For every table of hooks that keep the contracts of HookContracts: the  *)
(* server knows its testbed (Known: what is there, and what the hook that  *)
(* runs still owes), and cleans it up (Secured: what must not be given up  *)
(* yet; Finished: what a cleanup has removed so far; Rescued: what an      *)
(* except block has).                                                      *)
(***************************************************************************)
EXTENDS HookContracts, TLAPS

\* The part of TypeOK that the ways out of a hook touch.
RunOK ==
    /\ at \in {"read", "hook", "copy", "reply", "exited"}
    /\ hook \in HookName
    /\ pos \in Nat \ {0}
    /\ why \in {"close", "quit", "error", "signal"}
    /\ exit \in {"none", "quit", "error", "signal"}
    /\ downtmp \in Path \cup {NoPath}
    /\ cleaning \in BOOLEAN
    /\ handlers \in BOOLEAN
    /\ lost \in SUBSET Resource

LEMMA CurrentIsStep ==
    ASSUME TypeOK, InHook
    PROVE  Current \in Step
  <1>1. Hooks[backend] \in [HookName -> Seq(Step)]
    BY HooksAssumption DEF TypeOK
  <1>2. Program \in Seq(Step)
    BY <1>1 DEF TypeOK, Program
  <1>3. pos \in 1..Len(Program)
    BY <1>2 DEF TypeOK, InHook
  <1>4. QED BY <1>2, <1>3 DEF Current

LEMMA EnterCleanupType ==
    ASSUME RunOK,
           NEW w \in {"close", "quit", "error", "signal"},
           NEW l \in SUBSET Resource,
           EnterCleanup(w, l)
    PROVE  RunOK'
  <1>1. CASE cleaning
    BY <1>1 DEF RunOK, EnterCleanup, Cleaned, Ends
  <1>2. CASE ~cleaning /\ Opened
    <2>1. cleaning' \in BOOLEAN /\ handlers' \in BOOLEAN
      BY <1>2 DEF EnterCleanup
    <2>2. at' = "hook" /\ hook' = "cleanup" /\ pos' = 1 /\ why' = w
            /\ lost' = l /\ UNCHANGED <<downtmp, exit>>
      BY <1>2 DEF EnterCleanup, EnterHook
    <2>3. QED BY <2>1, <2>2 DEF RunOK, HookName
  <1>3. CASE ~cleaning /\ ~Opened
    <2>1. lost' \in SUBSET Resource
      BY <1>3 DEF EnterCleanup
    <2>2. QED BY <1>3, <2>1 DEF RunOK, EnterCleanup, Cleaned, Ends
  <1>4. QED BY <1>1, <1>2, <1>3

LEMMA RaiseType ==
    ASSUME RunOK, NEW f, Raise(f)
    PROVE  RunOK'
  <1>1. CASE hook = "cleanup" /\ RaiseInCleanup
    <2>1. lost' \in SUBSET Resource
      BY <1>1 DEF RaiseInCleanup, RunOK, Owed
    <2>2. downtmp' = downtmp /\ cleaning' \in BOOLEAN /\ handlers' \in BOOLEAN
      BY <1>1 DEF RaiseInCleanup, RunOK
    <2>3. CASE EnterHook("rescue") /\ why' = "error" /\ UNCHANGED exit
      BY <2>1, <2>2, <2>3 DEF RunOK, EnterHook, HookName
    <2>4. CASE \E w \in {"quit", "error"} : Ends(w, w)
      BY <2>1, <2>2, <2>4 DEF RunOK, Ends
    <2>5. RaiseInCleanup
      BY <1>1
    <2>6. QED BY <2>3, <2>4, <2>5 DEF RaiseInCleanup
  <1>2. CASE EnterHook("rescue") /\ UNCHANGED <<why, exit, globals>>
    BY <1>2 DEF RunOK, EnterHook, HookName, globals
  <1>3. CASE EnterCleanup("error", IF hook = "rescue" THEN lost \cup Owed ELSE lost)
    <2>1. (IF hook = "rescue" THEN lost \cup Owed ELSE lost)
             \in SUBSET Resource
      BY DEF RunOK, Owed
    <2>2. QED BY <1>3, <2>1, EnterCleanupType
  <1>4. QED BY <1>1, <1>2, <1>3 DEF Raise

LEMMA TypeInRun == TypeOK => RunOK
  BY DEF TypeOK, RunOK

LEMMA StepOkType == TypeOK /\ StepOk => TypeOK'
  <1> SUFFICES ASSUME TypeOK, StepOk PROVE TypeOK'
    OBVIOUS
  <1> DEFINE s == Current
  <1>1. s \in Step
    BY CurrentIsStep DEF StepOk
  <1>2. s.on \subseteq Resource
    BY <1>1 DEF Step
  <1>3. /\ res' \in SUBSET Resource /\ orphans' \in SUBSET Resource
        /\ downtmp' \in Path \cup {NoPath}
        /\ lost' \in SUBSET Resource
    <2> HIDE DEF s
    <2> USE <1>2
    <2>1. Effect(s)
      BY DEF StepOk, s
    <2>2. CASE s.does = "gain" /\ res' = res \cup s.on /\ UNCHANGED <<orphans, downtmp, lost>>
      BY <2>2 DEF TypeOK
    <2>3. CASE s.does = "lose" /\ res' = res \ s.on /\ UNCHANGED <<downtmp, lost>>
               /\ orphans' = IF "inst" \in s.on THEN orphans \ Inside ELSE orphans
      BY <2>3 DEF TypeOK
    <2>4. CASE UNCHANGED <<testbed, downtmp, lost>>
      BY <2>4 DEF TypeOK, testbed
    <2>5. CASE res' \in {res, res \ s.on} /\ UNCHANGED <<orphans, downtmp, lost>>
      BY <2>5 DEF TypeOK
    <2>6. CASE /\ downtmp' = NoPath /\ res' = res \ s.on
               /\ \/ UNCHANGED <<orphans, lost>>
                  \/ orphans' = orphans \cup (s.on \cap res) /\ lost' = lost \cup s.on
      BY <2>6 DEF TypeOK
    <2>7. QED BY <2>1, <2>2, <2>3, <2>4, <2>5, <2>6 DEF Effect
  <1>4. shared_dir' \in Path \cup {NoPath}
    BY DEF StepOk, TypeOK
  <1>5. QED BY <1>3, <1>4 DEF StepOk, TypeOK

LEMMA StepSkipType == TypeOK /\ StepSkip => TypeOK'
  <1> SUFFICES ASSUME TypeOK, StepSkip PROVE TypeOK'
    OBVIOUS
  <1>1. Current.on \subseteq Resource
    BY CurrentIsStep DEF StepSkip, Step
  <1>2. res' \in SUBSET Resource /\ orphans' \in SUBSET Resource /\ lost' \in SUBSET Resource
    BY <1>1 DEF StepSkip, TypeOK
  <1>3. QED BY <1>2 DEF StepSkip, TypeOK

LEMMA StepRaiseType == TypeOK /\ StepRaise => TypeOK'
  <1> SUFFICES ASSUME TypeOK, StepRaise PROVE TypeOK'
    OBVIOUS
  <1>1. Current.on \subseteq Resource
    BY CurrentIsStep DEF StepRaise, Step
  <1>2. res' \in SUBSET Resource /\ orphans' \in SUBSET Resource
    BY <1>1 DEF StepRaise, TypeOK, testbed
  <1>3. RunOK'
    <2>1. PICK f : Raise(f) BY DEF StepRaise
    <2>2. QED BY <2>1, RaiseType, TypeInRun
  <1>4. QED BY <1>2, <1>3 DEF StepRaise, TypeOK, RunOK

LEMMA InitType == Init => TypeOK
  <1> SUFFICES ASSUME Init PROVE TypeOK
    OBVIOUS
  <1>1. res \in SUBSET Resource
    BY InitialAssumption DEF Init
  <1>2. reply \in Reply
    BY DEF Init, Reply
  <1>3. alive \in BOOLEAN /\ caught \in BOOLEAN /\ cleaning \in BOOLEAN
          /\ handlers \in BOOLEAN
    BY DEF Init
  <1>4. QED BY <1>1, <1>2, <1>3 DEF Init, TypeOK, HookName

\* The actions that end in cleanup() and leave the rest alone.
LEMMA CleanupActionsType ==
    TypeOK /\ (ReadIllegal \/ ReadClose \/ ReadQuit \/ EndRescue) => TypeOK'
  <1> SUFFICES ASSUME TypeOK,
                      NEW w \in {"close", "quit", "error", "signal"},
                      EnterCleanup(w, lost), UNCHANGED testbed,
                      UNCHANGED <<backend, alive, cmd, reply, caught,
                                  downtmp_open, shared_dir>>
               PROVE  TypeOK'
    BY DEF ReadIllegal, ReadClose, ReadQuit, EndRescue
  <1>1. lost \in SUBSET Resource
    BY DEF TypeOK
  <1>2. RunOK'
    BY <1>1, EnterCleanupType, TypeInRun
  <1>3. QED BY <1>2 DEF TypeOK, RunOK, testbed

LEMMA CopyType == TypeOK /\ Copy => TypeOK'
  <1> SUFFICES ASSUME TypeOK, Copy PROVE TypeOK'
    OBVIOUS
  <1>1. RunOK'
    <2>1. CASE at' \in {"reply", "read"} /\ UNCHANGED <<hook, pos, why, exit, globals>>
      BY <2>1 DEF TypeOK, RunOK, globals
    <2>2. CASE EnterCleanup("error", lost)
      <3>1. lost \in SUBSET Resource
        BY DEF TypeOK
      <3>2. QED BY <2>2, <3>1, EnterCleanupType, TypeInRun
    <2>3. QED BY <2>1, <2>2 DEF Copy
  <1>2. cmd' \in Command \cup {"none"} /\ reply' \in Reply
    <2>1. CASE Answer(FALSE, NoPath)
      BY <2>1 DEF Answer, TypeOK, Reply
    <2>2. CASE UNCHANGED <<reply, cmd>>
      BY <2>2 DEF TypeOK
    <2>3. QED BY <2>1, <2>2 DEF Copy
  <1>3. QED BY <1>1, <1>2 DEF Copy, TypeOK, RunOK, testbed

LEMMA DeliverType == TypeOK /\ Deliver => TypeOK'
  <1> SUFFICES ASSUME TypeOK, Deliver PROVE TypeOK'
    OBVIOUS
  <1>1. RunOK'
    <2>1. CASE EnterCleanup("signal", lost)
      <3>1. lost \in SUBSET Resource
        BY DEF TypeOK
      <3>2. QED BY <2>1, <3>1, EnterCleanupType, TypeInRun
    <2>2. CASE Ends("signal", "signal") /\ lost' \in {lost, lost \cup Owed, Resource}
               /\ UNCHANGED <<caught, downtmp, cleaning, handlers>>
      <3>1. lost' \in SUBSET Resource
        BY <2>2 DEF TypeOK, Owed
      <3>2. QED BY <2>2, <3>1, TypeInRun DEF RunOK, Ends
    <2>3. QED BY <2>1, <2>2 DEF Deliver
  <1>2. caught' \in BOOLEAN
    BY DEF Deliver, TypeOK
  <1>3. QED BY <1>1, <1>2 DEF Deliver, TypeOK, RunOK, testbed

LEMMA EndTmpType == TypeOK /\ EndTmp => TypeOK'
  <1> SUFFICES ASSUME TypeOK, EndTmp PROVE TypeOK'
    OBVIOUS
  <1>1. HookDowntmp \subseteq Path \cup {NoPath}
    BY DEF HookDowntmp, TypeOK
  <1>2. downtmp' \in Path \cup {NoPath} /\ downtmp_open' \in Path \cup {NoPath}
    BY <1>1 DEF EndTmp, TypeOK
  <1>3. cleaning' \in BOOLEAN /\ handlers' \in BOOLEAN
    BY DEF EndTmp, TypeOK
  <1>4. RunOK'
    <2>1. CASE at' = "reply" /\ UNCHANGED <<hook, pos, why, exit, lost>>
      BY <1>2, <1>3, <2>1 DEF TypeOK, RunOK
    <2>2. CASE EnterHook("cleanup") /\ why' = "error" /\ UNCHANGED <<exit, lost>>
      BY <1>2, <1>3, <2>2 DEF TypeOK, RunOK, EnterHook, HookName
    <2>3. QED BY <2>1, <2>2 DEF EndTmp
  <1>5. QED BY <1>2, <1>4 DEF EndTmp, TypeOK, RunOK, testbed

LEMMA EndCleanupType == TypeOK /\ EndCleanup => TypeOK'
  <1> SUFFICES ASSUME TypeOK, EndCleanup PROVE TypeOK'
    OBVIOUS
  <1>1. RunOK'
    BY DEF EndCleanup, Cleaned, Ends, TypeOK, RunOK
  <1>2. res' \in SUBSET Resource /\ orphans' \in SUBSET Resource
    BY DEF EndCleanup, TypeOK
  <1>3. QED BY <1>1, <1>2 DEF EndCleanup, TypeOK, RunOK

LEMMA OtherType ==
    /\ TypeOK
    /\ \/ \E c \in Command : Send(c)
       \/ CallerExits \/ ReadHookCommand \/ ReadPlain \/ PrintReply
       \/ EndOpenOrRevert \/ EndReboot \/ UNCHANGED vars
    => TypeOK'
  <1> USE DEF TypeOK, globals, testbed, run, vars
  <1>1. ASSUME TypeOK, \E c \in Command : Send(c) PROVE TypeOK'
    BY <1>1 DEF Send
  <1>2. ASSUME TypeOK, CallerExits PROVE TypeOK'
    <2>1. alive' \in BOOLEAN
      BY <1>2 DEF CallerExits
    <2>2. QED BY <1>2, <2>1 DEF CallerExits
  <1>3. ASSUME TypeOK, ReadHookCommand PROVE TypeOK'
    BY <1>3 DEF ReadHookCommand, EnterHook, HookName
  <1>4. ASSUME TypeOK, ReadPlain PROVE TypeOK'
    BY <1>4 DEF ReadPlain
  <1>5. ASSUME TypeOK, PrintReply PROVE TypeOK'
    <2>1. reply' \in Reply /\ cmd' = "none"
      BY <1>5 DEF PrintReply, Answer, Reply
    <2>2. QED BY <1>5, <2>1 DEF PrintReply
  <1>6. ASSUME TypeOK, EndOpenOrRevert PROVE TypeOK'
    BY <1>6 DEF EndOpenOrRevert, EnterHook, HookName
  <1>7. ASSUME TypeOK, EndReboot PROVE TypeOK'
    BY <1>7 DEF EndReboot
  <1>8. ASSUME TypeOK, UNCHANGED vars PROVE TypeOK'
    BY <1>8
  <1>9. QED BY <1>1, <1>2, <1>3, <1>4, <1>5, <1>6, <1>7, <1>8

\* Every variable of the server keeps its type, whatever the hooks are.
THEOREM TypeCorrect == Spec => []TypeOK
  <1>1. TypeOK /\ [Next]_vars => TypeOK'
    BY StepOkType, StepSkipType, StepRaiseType, CleanupActionsType, CopyType,
       DeliverType, EndTmpType, EndCleanupType, OtherType
    DEF Next, HookStep, Serve, ReadEof, Signal, BrokenPipe, Done
  <1>2. QED BY InitType, <1>1, PTL DEF Spec
-----------------------------------------------------------------------------
(* Consistent is inductive relative to the types.                          *)

\* A server that commits itself to ending has nothing left to be wrong about.
LEMMA CommitConsistent ==
    ASSUME SharedOK, UNCHANGED <<backend, downtmp_open, shared_dir>>,
           Committed', handlers' => ~cleaning',
           at' = "hook" /\ hook' = "cleanup" => cleaning'
    PROVE  Consistent'
  <1>1. at' \notin {"read", "copy", "reply"}
          /\ (at' = "hook" => hook' \in {"cleanup", "rescue"})
          /\ (at' = "hook" /\ hook' = "cleanup" => why' # "close")
    BY DEF Committed
  <1>2. CleaningOK'
    BY <1>1 DEF CleaningOK
  <1>3. ServingOK'
    BY <1>1 DEF ServingOK
  <1>4. PathOK'
    BY <1>1 DEF PathOK
  <1>5. SharedOK'
    BY <1>1 DEF SharedOK
  <1>6. QED BY <1>2, <1>3, <1>4, <1>5 DEF Consistent

LEMMA EnterCleanupConsistent ==
    ASSUME Consistent, NEW w \in {"quit", "error", "signal"}, NEW l,
           EnterCleanup(w, l), UNCHANGED <<backend, downtmp_open, shared_dir>>
    PROVE  Consistent' /\ Committed'
  <1>1. handlers' = FALSE
    BY DEF EnterCleanup
  <1>2. Committed'
    BY DEF EnterCleanup, Cleaned, Ends, EnterHook, Committed
  <1>3. at' = "hook" /\ hook' = "cleanup" => cleaning'
    BY DEF EnterCleanup, Cleaned, Ends, EnterHook
  <1>4. SharedOK
    BY DEF Consistent
  <1>5. QED BY <1>1, <1>2, <1>3, <1>4, CommitConsistent

LEMMA RaiseConsistent ==
    ASSUME TypeOK, Consistent, at = "hook", NEW f, Raise(f),
           UNCHANGED <<backend, downtmp_open, shared_dir>>
    PROVE  Consistent' /\ Committed'
  <1>1. CASE hook = "cleanup" /\ RaiseInCleanup
    <2>1. handlers' = FALSE
      BY <1>1 DEF RaiseInCleanup
    <2>2. Committed' /\ ~(at' = "hook" /\ hook' = "cleanup")
      BY <1>1 DEF RaiseInCleanup, Ends, EnterHook, Committed
    <2>3. SharedOK
      BY DEF Consistent
    <2>4. QED BY <2>1, <2>2, <2>3, CommitConsistent
  <1>2. CASE /\ hook \in {"open", "revert"} /\ EnterHook("rescue")
             /\ UNCHANGED <<why, exit, globals>>
    <2>1. handlers' => ~cleaning'
      BY <1>2 DEF Consistent, CleaningOK, globals
    <2>2. Committed' /\ ~(at' = "hook" /\ hook' = "cleanup")
      BY <1>2 DEF EnterHook, Committed
    <2>3. SharedOK
      BY DEF Consistent
    <2>4. QED BY <2>1, <2>2, <2>3, CommitConsistent
  <1>3. CASE EnterCleanup("error", IF hook = "rescue" THEN lost \cup Owed ELSE lost)
    BY <1>3, EnterCleanupConsistent
  <1>4. QED BY <1>1, <1>2, <1>3 DEF Raise

\* A step that goes on leaves the command and the hook alone; only
\* downtmp_remove() touches downtmp, and no reboot runs that.
LEMMA StepGoesOn ==
    ASSUME TypeOK, Consistent, StepOk \/ StepSkip
    PROVE  Consistent'
  <1>1. at = "hook" /\ pos \in 1..Len(Program) /\ pos' = pos + 1
          /\ UNCHANGED <<backend, cmd, at, hook, why, exit, downtmp_open, cleaning, handlers>>
    BY HooksAssumption DEF StepOk, StepSkip, InHook, TypeOK
  <1>2. downtmp' = downtmp \/ (downtmp' = NoPath /\ Current.does = "forget")
    BY DEF StepOk, StepSkip, Effect, testbed
  <1>3. hook = "reboot" => downtmp' = downtmp
    BY <1>1, <1>2, ForgetAssumption DEF Current, Program, TypeOK
  <1>4. shared_dir' = shared_dir \/
          (NamesShare(Current) /\ shared_dir' \in Path)
    BY DEF StepOk, StepSkip
  <1>5. NamesShare(Current) => backend \in HostShared /\ shared_dir = NoPath
    BY DEF NamesShare
  <1>6. CleaningOK'
    BY <1>1 DEF Consistent, CleaningOK
  <1>7. ServingOK'
    <2>1. Opened' => Opened
      BY <1>2 DEF Opened
    <2>2. hook = "reboot" => Opened' = Opened
      BY <1>3 DEF Opened
    <2>3. QED BY <1>1, <2>1, <2>2 DEF Consistent, ServingOK, Committed
  <1>8. PathOK'
    BY <1>1, <1>2 DEF Consistent, PathOK, Committed, Opened
  <1>9. SharedOK'
    <2> SUFFICES ASSUME backend \in HostShared PROVE SharedOK'
      BY <1>1 DEF SharedOK
    <2>1. downtmp_open # NoPath => shared_dir' = downtmp_open
      BY <1>4, <1>5 DEF Consistent, SharedOK
    <2>2. shared_dir # NoPath => shared_dir' # NoPath
      BY <1>4, <1>5
    <2>3. ASSUME hook = "open", NEW k \in 1..pos,
                 Program[k].does = "gain", "share" \in Program[k].on
          PROVE  shared_dir' # NoPath
      <3>1. CASE k \in 1..(pos - 1)
        BY <1>1, <2>2, <2>3, <3>1 DEF Consistent, SharedOK
      <3>2. CASE k = pos
        <4>1. StepOk => shared_dir' # NoPath
          BY <2>2, <2>3, <3>2, PathAssumption DEF StepOk, NamesShare, Current
        <4>2. ~StepSkip
          BY <2>3, <3>2 DEF StepSkip, Current
        <4>3. QED BY <4>1, <4>2
      <3>3. QED BY <1>1, <3>1, <3>2
    <2>4. (pos - 1)' = pos
      BY <1>1
    <2>5. Program' = Program
      BY <1>1 DEF Program
    <2>6. QED BY <1>1, <2>1, <2>2, <2>3, <2>4, <2>5 DEF Consistent, SharedOK
  <1>10. QED BY <1>6, <1>7, <1>8, <1>9 DEF Consistent

LEMMA StepRaiseConsistent ==
    ASSUME TypeOK, Consistent, StepRaise
    PROVE  Consistent' /\ Committed'
  <1>1. PICK f : Raise(f)
    BY DEF StepRaise
  <1>2. QED BY <1>1, RaiseConsistent DEF StepRaise, InHook

\* The commands and the failures that end the server.
LEMMA EndingConsistent ==
    ASSUME Consistent, ReadIllegal \/ ReadQuit \/ EndRescue
    PROVE  Consistent' /\ Committed'
  <1>1. PICK w \in {"quit", "error"} :
           EnterCleanup(w, lost) /\ UNCHANGED <<backend, downtmp_open, shared_dir>>
    BY DEF ReadIllegal, ReadQuit, EndRescue
  <1>2. QED BY <1>1, EnterCleanupConsistent

LEMMA DeliverConsistent ==
    ASSUME Consistent, Deliver
    PROVE  Consistent' /\ Committed'
  <1>1. UNCHANGED <<backend, downtmp_open, shared_dir>>
    BY DEF Deliver
  <1>2. CASE EnterCleanup("signal", lost)
    BY <1>1, <1>2, EnterCleanupConsistent
  <1>3. CASE ~handlers /\ Ends("signal", "signal") /\ UNCHANGED <<cleaning, handlers>>
    <2>1. handlers' = FALSE
      <3>1. handlers' = handlers BY <1>3
      <3>2. QED BY <1>3, <3>1
    <2>2. Committed' /\ ~(at' = "hook" /\ hook' = "cleanup")
      BY <1>3 DEF Ends, Committed
    <2>3. SharedOK BY DEF Consistent
    <2>4. QED BY <1>1, <2>1, <2>2, <2>3, CommitConsistent
  <1>4. QED BY <1>2, <1>3 DEF Deliver

\* cmd_close() runs hook_cleanup() for an open testbed, or raises.
LEMMA ReadCloseConsistent ==
    ASSUME Consistent, ReadClose
    PROVE  Consistent'
  <1>1. cmd = "close" /\ at = "read" /\ Opened
          /\ UNCHANGED <<backend, cmd, downtmp_open, shared_dir>>
    BY DEF ReadClose, Reading, Illegal, NeedsOpen
  <1>2. ~cleaning
    BY <1>1 DEF Consistent, CleaningOK
  <1>3. at' = "hook" /\ hook' = "cleanup" /\ why' = "close" /\ UNCHANGED downtmp
    BY <1>1, <1>2 DEF ReadClose, EnterCleanup, EnterHook
  <1>4. handlers' = FALSE
    BY DEF ReadClose, EnterCleanup
  <1>5. cleaning'
    BY <1>1, <1>2 DEF ReadClose, EnterCleanup
  <1>6. CleaningOK'
    BY <1>3, <1>4, <1>5 DEF CleaningOK
  <1>7. ServingOK'
    BY <1>1, <1>3 DEF ServingOK
  <1>8. PathOK'
    BY <1>1, <1>3 DEF Consistent, PathOK, Committed, Opened
  <1>9. SharedOK'
    BY <1>1, <1>3 DEF Consistent, SharedOK
  <1>10. QED BY <1>6, <1>7, <1>8, <1>9 DEF Consistent

\* hook_downtmp() has somewhere to put the scratch directory, and it is the
\* one first opened.
LEMMA DowntmpKept ==
    ASSUME Consistent, HookEnd, hook = "tmp", NEW p \in HookDowntmp
    PROVE  /\ p # NoPath
           /\ backend \in HostShared => p = shared_dir
           /\ downtmp_open # NoPath => p = downtmp_open
  <1>1. backend \in HostShared =>
           /\ p = shared_dir /\ shared_dir # NoPath
           /\ downtmp_open # NoPath => shared_dir = downtmp_open
    BY DEF Consistent, SharedOK, HookEnd, HookDowntmp
  <1>2. backend \notin HostShared =>
           p # NoPath /\ (downtmp_open # NoPath => p = downtmp_open)
    BY PathAssumption DEF HookDowntmp
  <1>3. QED BY <1>1, <1>2

LEMMA EndTmpConsistent ==
    ASSUME Consistent, EndTmp
    PROVE  Consistent'
  <1>1. PICK p \in HookDowntmp :
          \/ /\ downtmp' = p /\ at' = "reply" /\ downtmp_open' = p
             /\ UNCHANGED <<hook, pos, why, exit, cleaning, handlers, lost>>
          \/ downtmp_open \notin {NoPath, p}
    BY DEF EndTmp
  <1>2. HookEnd /\ hook = "tmp" /\ UNCHANGED <<backend, cmd, shared_dir>>
    BY DEF EndTmp
  <1>3. /\ p # NoPath
        /\ backend \in HostShared => p = shared_dir
        /\ downtmp_open # NoPath => p = downtmp_open
    BY <1>2, DowntmpKept
  <1>4. /\ downtmp' = p /\ at' = "reply" /\ downtmp_open' = p
        /\ UNCHANGED <<hook, pos, why, cleaning, handlers>>
    BY <1>1, <1>3
  <1>5. CleaningOK'
    BY <1>2, <1>4 DEF Consistent, CleaningOK, HookEnd
  <1>6. ServingOK'
    <2>1. cmd \in {"open", "revert"} /\ (cmd = "revert" => cmd \in Caps[backend])
      BY <1>2 DEF Consistent, ServingOK, HookEnd, Committed
    <2>2. Opened'
      BY <1>3, <1>4 DEF Opened
    <2>3. QED BY <1>2, <1>4, <2>1, <2>2 DEF ServingOK, Command
  <1>7. PathOK'
    BY <1>4 DEF PathOK
  <1>8. SharedOK'
    BY <1>2, <1>3, <1>4 DEF SharedOK
  <1>9. QED BY <1>5, <1>6, <1>7, <1>8 DEF Consistent

\* hook_open() has named the shared directory by the time it returns.
LEMMA EndOpenOrRevertConsistent ==
    ASSUME TypeOK, Consistent, EndOpenOrRevert
    PROVE  Consistent'
  <1>1. HookEnd /\ hook \in {"open", "revert"} /\ at' = "hook" /\ hook' = "tmp"
          /\ UNCHANGED <<backend, cmd, why, downtmp_open, shared_dir,
                         downtmp, cleaning, handlers>>
    BY DEF EndOpenOrRevert, EnterHook, globals
  <1>2. CleaningOK'
    BY <1>1 DEF Consistent, CleaningOK, HookEnd
  <1>3. ServingOK'
    BY <1>1 DEF Consistent, ServingOK, HookEnd, Committed
  <1>4. PathOK'
    BY <1>1 DEF Consistent, PathOK, ServingOK, HookEnd, Committed, Opened
  <1>5. SharedOK'
    <2> SUFFICES ASSUME backend \in HostShared PROVE shared_dir # NoPath
      BY <1>1 DEF Consistent, SharedOK
    <2>1. CASE hook = "open"
      <3>1. PICK k \in 1..Len(Program) :
              Program[k].does = "gain" /\ "share" \in Program[k].on
        BY <2>1, SharedAssumption DEF Program, TypeOK
      <3>2. Hooks[backend] \in [HookName -> Seq(Step)]
        BY HooksAssumption DEF TypeOK
      <3>3. Len(Program) \in Nat
        BY <3>2 DEF Program, TypeOK
      <3>4. k \in 1..(pos - 1)
        BY <1>1, <3>3 DEF HookEnd, TypeOK
      <3>5. QED BY <1>1, <2>1, <3>1, <3>4 DEF Consistent, SharedOK, HookEnd
    <2>2. CASE hook = "revert"
      BY <1>1, <2>2 DEF Consistent, SharedOK, PathOK, ServingOK, HookEnd
    <2>3. QED BY <1>1, <2>1, <2>2
  <1>6. QED BY <1>2, <1>3, <1>4, <1>5 DEF Consistent

LEMMA EndCleanupConsistent ==
    ASSUME Consistent, EndCleanup
    PROVE  Consistent'
  <1>1. /\ HookEnd /\ hook = "cleanup" /\ downtmp' = NoPath
        /\ UNCHANGED <<backend, cmd, downtmp_open, shared_dir, handlers>>
    BY DEF EndCleanup
  <1>2. cleaning' = FALSE
    BY DEF EndCleanup
  <1>3. \/ at' = "reply" /\ cmd = "close"
        \/ at' = "exited"
    BY <1>1 DEF EndCleanup, Cleaned, Ends, Consistent, ServingOK, HookEnd
  <1>4. CleaningOK'
    BY <1>2, <1>3 DEF CleaningOK
  <1>5. ServingOK'
    BY <1>1, <1>3 DEF ServingOK, Command, Opened, Committed
  <1>6. PathOK'
    BY <1>1, <1>3 DEF PathOK, Opened
  <1>7. SharedOK'
    BY <1>1, <1>3 DEF Consistent, SharedOK
  <1>8. QED BY <1>4, <1>5, <1>6, <1>7 DEF Consistent

LEMMA ReadHookCommandConsistent ==
    ASSUME Consistent, ReadHookCommand
    PROVE  Consistent'
  <1>1. /\ at = "read" /\ ~Illegal(cmd) /\ cmd \in {"open", "revert", "reboot"}
        /\ at' = "hook" /\ hook' = cmd /\ pos' = 1
        /\ UNCHANGED <<backend, cmd, why, downtmp_open, shared_dir, downtmp,
                       cleaning, handlers>>
    BY DEF ReadHookCommand, Reading, EnterHook, globals
  <1>2. CleaningOK'
    BY <1>1 DEF Consistent, CleaningOK
  <1>3. ServingOK'
    BY <1>1 DEF ServingOK, Illegal, NeedsOpen, Opened
  <1>4. Opened => downtmp_open = downtmp
    BY <1>1 DEF Consistent, PathOK, Committed
  <1>5. PathOK'
    BY <1>1, <1>4 DEF PathOK, Illegal, NeedsOpen, Opened
  <1>6. SharedOK'
    BY <1>1 DEF Consistent, SharedOK
  <1>7. QED BY <1>2, <1>3, <1>5, <1>6 DEF Consistent

LEMMA ReadPlainConsistent ==
    ASSUME Consistent, ReadPlain
    PROVE  Consistent'
  <1>1. /\ at = "read" /\ ~Illegal(cmd)
        /\ \/ at' = "reply" /\ cmd \in {"capabilities", "print-execute-command"}
           \/ at' = "copy" /\ cmd \in {"copyup", "copydown"}
        /\ UNCHANGED <<backend, cmd, hook, why, downtmp_open, shared_dir, downtmp,
                       cleaning, handlers>>
    BY DEF ReadPlain, Reading, globals
  <1>2. CleaningOK'
    BY <1>1 DEF Consistent, CleaningOK
  <1>3. ServingOK'
    BY <1>1 DEF ServingOK, Illegal, NeedsOpen, Opened, Command
  <1>4. PathOK'
    BY <1>1 DEF Consistent, PathOK, Committed, Opened
  <1>5. SharedOK'
    BY <1>1 DEF Consistent, SharedOK
  <1>6. QED BY <1>2, <1>3, <1>4, <1>5 DEF Consistent

LEMMA PrintReplyConsistent ==
    ASSUME Consistent, PrintReply
    PROVE  Consistent'
  <1>1. /\ at = "reply" /\ at' = "read"
        /\ UNCHANGED <<backend, downtmp_open, shared_dir, downtmp, cleaning, handlers>>
    BY DEF PrintReply, globals
  <1>2. CleaningOK'
    BY <1>1 DEF Consistent, CleaningOK
  <1>3. ServingOK'
    BY <1>1 DEF ServingOK
  <1>4. PathOK'
    BY <1>1 DEF Consistent, PathOK, Committed, Opened
  <1>5. SharedOK'
    BY <1>1 DEF Consistent, SharedOK
  <1>6. QED BY <1>2, <1>3, <1>4, <1>5 DEF Consistent

LEMMA CopyConsistent ==
    ASSUME Consistent, Copy
    PROVE  Consistent'
  <1>1. at = "copy" /\ UNCHANGED <<backend, downtmp_open, shared_dir>>
    BY DEF Copy
  <1>2. CASE EnterCleanup("error", lost)
    BY <1>1, <1>2, EnterCleanupConsistent
  <1>3. CASE /\ (at' = "reply" /\ UNCHANGED cmd) \/ at' = "read"
             /\ UNCHANGED <<downtmp, cleaning, handlers>>
    <2>1. CleaningOK'
      BY <1>1, <1>3 DEF Consistent, CleaningOK
    <2>2. ServingOK'
      BY <1>1, <1>3 DEF Consistent, ServingOK, Command, NeedsOpen, Opened
    <2>3. PathOK'
      BY <1>1, <1>3 DEF Consistent, PathOK, Committed, Opened
    <2>4. SharedOK'
      BY <1>1, <1>3 DEF Consistent, SharedOK
    <2>5. QED BY <2>1, <2>2, <2>3, <2>4 DEF Consistent
  <1>4. QED BY <1>2, <1>3 DEF Copy, globals

LEMMA EndRebootConsistent ==
    ASSUME Consistent, EndReboot
    PROVE  Consistent'
  <1>1. /\ HookEnd /\ hook = "reboot" /\ at' = "reply"
        /\ UNCHANGED <<backend, cmd, downtmp_open, shared_dir, downtmp, cleaning, handlers>>
    BY DEF EndReboot, globals
  <1>2. CleaningOK'
    BY <1>1 DEF Consistent, CleaningOK, HookEnd
  <1>3. ServingOK'
    BY <1>1 DEF Consistent, ServingOK, HookEnd, Opened, Committed, Command, NeedsOpen
  <1>4. PathOK'
    BY <1>1 DEF Consistent, PathOK, HookEnd, Committed, Opened
  <1>5. SharedOK'
    BY <1>1 DEF Consistent, SharedOK
  <1>6. QED BY <1>2, <1>3, <1>4, <1>5 DEF Consistent

\* What the caller does, and a stutter, leave the server as it is.
LEMMA CallerConsistent ==
    ASSUME Consistent, (\E c \in Command : Send(c)) \/ CallerExits \/ UNCHANGED vars
    PROVE  Consistent'
  <1>1. /\ UNCHANGED <<backend, at, hook, pos, why, downtmp_open, shared_dir,
                       downtmp, cleaning, handlers>>
        /\ at = "read" \/ UNCHANGED cmd
    BY DEF Send, CallerExits, vars, run, globals
  <1>2. CleaningOK'
    BY <1>1 DEF Consistent, CleaningOK
  <1>3. ServingOK'
    BY <1>1 DEF Consistent, ServingOK, Opened, Committed
  <1>4. PathOK'
    BY <1>1 DEF Consistent, PathOK, Committed, Opened
  <1>5. SharedOK'
    BY <1>1 DEF Consistent, SharedOK, Program
  <1>6. QED BY <1>2, <1>3, <1>4, <1>5 DEF Consistent

LEMMA InitConsistent == Init => Consistent
  BY DEF Init, Consistent, CleaningOK, ServingOK, PathOK, SharedOK, Opened, Committed

LEMMA NextConsistent ==
    ASSUME TypeOK, Consistent, [Next]_vars
    PROVE  Consistent'
  BY StepGoesOn, StepRaiseConsistent, EndingConsistent, DeliverConsistent,
     ReadCloseConsistent, EndTmpConsistent, EndOpenOrRevertConsistent,
     EndCleanupConsistent, ReadHookCommandConsistent, ReadPlainConsistent,
     PrintReplyConsistent, CopyConsistent, EndRebootConsistent, CallerConsistent
  DEF Next, HookStep, Serve, ReadEof, Signal, BrokenPipe, Done

\* The globals of VirtSubproc agree with the command being served, whatever
\* the hooks do and however they fail.
THEOREM GlobalsConsistent == Spec => []Consistent
  BY InitConsistent, NextConsistent, TypeCorrect, PTL DEF Spec

\* Re-opening and reverting never move the scratch directory, so the bomb of
\* cmd_revert() about the restored path is dead code.
THEOREM PathStays == Spec => []PathNeverMoves
  <1>1. TypeOK /\ Consistent => PathNeverMoves
    <2> SUFFICES ASSUME TypeOK, Consistent, HookEnd, hook = "tmp"
                 PROVE  /\ HookDowntmp \cap Path # {}
                        /\ downtmp_open # NoPath => HookDowntmp = {downtmp_open}
      BY DEF PathNeverMoves
    <2>1. HookDowntmp # {}
      BY PathAssumption DEF HookDowntmp
    <2>2. \A p \in HookDowntmp : p # NoPath /\ (downtmp_open # NoPath => p = downtmp_open)
      BY DowntmpKept
    <2>3. HookDowntmp \subseteq Path \cup {NoPath}
      BY DEF HookDowntmp, TypeOK
    <2>4. QED BY <2>1, <2>2, <2>3
  <1>2. QED BY <1>1, TypeCorrect, GlobalsConsistent, PTL
-----------------------------------------------------------------------------
(* The server implements VirtProtocol.                                     *)

\* GlobalsAgree: the types, the command being served and the path, together.
THEOREM GlobalsHold == Spec => []GlobalsAgree
  BY TypeCorrect, GlobalsConsistent, PathStays, PTL DEF GlobalsAgree

Mapped == [Protocol!Next]_Protocol!vars
Unseen == UNCHANGED <<backend, cmd, reply, downtmp_open>>

\* The abstract state while the server reads and while it serves a command.
LEMMA StateOf ==
    /\ Committed => ProtocolState = "gone"
    /\ at = "read" => ProtocolState = IF Opened THEN "open" ELSE "closed"
    /\ ~Committed /\ at # "read" /\ cmd = "open" => ProtocolState = "closed"
    /\ ~Committed /\ at # "read" /\ cmd \in NeedsOpen => ProtocolState = "open"
    /\ ~Committed /\ at # "read" /\ cmd \notin NeedsOpen \cup {"open"} =>
          ProtocolState = IF Opened THEN "open" ELSE "closed"
    /\ ~Committed => ProtocolState # "gone"
  BY DEF ProtocolState, Committed, NeedsOpen

\* The same of the next state.
LEMMA StateOfNext ==
    /\ Committed' => ProtocolState' = "gone"
    /\ at' = "read" => ProtocolState' = IF Opened' THEN "open" ELSE "closed"
    /\ ~Committed' /\ at' # "read" /\ cmd' = "open" => ProtocolState' = "closed"
    /\ ~Committed' /\ at' # "read" /\ cmd' \in NeedsOpen => ProtocolState' = "open"
    /\ ~Committed' /\ at' # "read" /\ cmd' \notin NeedsOpen \cup {"open"} =>
          ProtocolState' = IF Opened' THEN "open" ELSE "closed"
  BY DEF ProtocolState, Committed, NeedsOpen

\* A step that commits the server to ending is Stop, or was already Stop's.
LEMMA StopMapped ==
    ASSUME Unseen, Committed'
    PROVE  Mapped
  <1>1. ProtocolState' = "gone"
    BY StateOfNext
  <1>2. Caps[backend]' = Caps[backend] /\ UNCHANGED <<cmd, reply, downtmp_open>>
    BY DEF Unseen
  <1>3. QED BY <1>1, <1>2 DEF Mapped, Protocol!Next, Protocol!Stop, Protocol!vars

\* A step the protocol does not see.
LEMMA StutterMapped ==
    ASSUME Unseen, ProtocolState' = ProtocolState
    PROVE  Mapped
  BY DEF Unseen, Mapped, Protocol!vars

\* A server that is busy with a command stays in the state of that command.
LEMMA BusyMapped ==
    ASSUME Unseen, at # "read", at' # "read", ~Committed, ~Committed',
           cmd \in NeedsOpen \cup {"open"}
    PROVE  Mapped
  BY StateOf, StateOfNext, StutterMapped DEF Unseen, NeedsOpen

LEMMA HookServes ==
    ASSUME TypeOK, Consistent, at = "hook", ~Committed
    PROVE  cmd \in NeedsOpen \cup {"open"}
  BY DEF TypeOK, HookName, Consistent, ServingOK, Committed, NeedsOpen

LEMMA StepMapped ==
    ASSUME TypeOK, Consistent, StepOk \/ StepSkip
    PROVE  Mapped
  <1>1. at = "hook" /\ at' = "hook" /\ UNCHANGED <<hook, why>> /\ Unseen
    BY DEF StepOk, StepSkip, InHook, Unseen
  <1>2. Committed' <=> Committed
    BY <1>1 DEF Committed
  <1>3. QED BY <1>1, <1>2, StopMapped, BusyMapped, HookServes

LEMMA EndingMapped ==
    ASSUME TypeOK, Consistent,
           StepRaise \/ ReadIllegal \/ ReadQuit \/ EndRescue \/ Deliver
    PROVE  Mapped
  <1>1. Committed'
    BY StepRaiseConsistent, EndingConsistent, DeliverConsistent
  <1>2. Unseen
    BY DEF StepRaise, ReadIllegal, ReadQuit, EndRescue, Deliver, Unseen
  <1>3. QED BY <1>1, <1>2, StopMapped

LEMMA ReadMapped ==
    ASSUME Consistent, ReadHookCommand \/ ReadClose \/ ReadPlain
    PROVE  Mapped
  <1>1. at = "read" /\ ~Illegal(cmd) /\ Unseen
    BY DEF ReadHookCommand, ReadClose, ReadPlain, Reading, Unseen
  <1>2. ~cleaning
    BY <1>1 DEF Consistent, CleaningOK
  <1>3. /\ UNCHANGED downtmp
        /\ \/ at' = "hook" /\ hook' \in {"open", "revert", "reboot"}
           \/ at' = "hook" /\ hook' = "cleanup" /\ why' = "close"
           \/ at' \in {"reply", "copy"}
    BY <1>1, <1>2 DEF ReadHookCommand, ReadClose, ReadPlain, Reading, EnterHook,
                      EnterCleanup, Illegal, NeedsOpen, globals
  <1>4. at' # "read" /\ ~Committed'
    BY <1>3 DEF Committed
  <1>5. ProtocolState' = ProtocolState
    BY <1>1, <1>3, <1>4, StateOf, StateOfNext DEF Illegal, NeedsOpen, Opened, Unseen
  <1>6. QED BY <1>1, <1>5, StutterMapped

LEMMA PrintReplyMapped ==
    ASSUME Consistent, PrintReply
    PROVE  Mapped
  <1>1. /\ at = "reply" /\ at' = "read" /\ ~Committed
        /\ UNCHANGED <<backend, downtmp, downtmp_open>>
        /\ cmd' = "none"
        /\ reply' = [cmd |-> cmd, ok |-> TRUE,
                     path |-> IF cmd \in {"open", "revert"} THEN downtmp ELSE NoPath]
    BY DEF PrintReply, Answer, globals, Committed
  <1>2. /\ cmd \in Command \ {"quit", "bogus"}
        /\ cmd = "close" => ~Opened
        /\ cmd \in (NeedsOpen \ {"close"}) \cup {"open"} => Opened
        /\ cmd \in {"revert", "reboot"} => cmd \in Caps[backend]
    BY <1>1 DEF Consistent, ServingOK
  <1>3. Opened => downtmp = downtmp_open /\ downtmp_open # NoPath
    BY <1>1 DEF Consistent, PathOK, Opened
  <1>4. ProtocolState' = IF Opened THEN "open" ELSE "closed"
    BY <1>1, StateOfNext DEF Opened
  <1>5. Caps[backend]' = Caps[backend]
    BY <1>1
  <1> USE DEF Protocol!Respond, NeedsOpen
  <1>6. CASE cmd = "open"
    <2>1. ProtocolState = "closed" /\ ProtocolState' = "open"
      BY <1>1, <1>2, <1>4, <1>6, StateOf
    <2>2. QED BY <1>1, <1>2, <1>3, <1>5, <1>6, <2>1 DEF Mapped, Protocol!Next, Protocol!Open
  <1>7. CASE cmd = "revert"
    <2>1. ProtocolState = "open" /\ ProtocolState' = "open"
      BY <1>1, <1>2, <1>4, <1>7, StateOf
    <2>2. QED BY <1>1, <1>2, <1>3, <1>5, <1>7, <2>1 DEF Mapped, Protocol!Next, Protocol!Revert
  <1>8. CASE cmd = "reboot"
    <2>1. ProtocolState = "open" /\ ProtocolState' = "open"
      BY <1>1, <1>2, <1>4, <1>8, StateOf
    <2>2. QED BY <1>1, <1>2, <1>5, <1>8, <2>1 DEF Mapped, Protocol!Next, Protocol!Reboot
  <1>9. CASE cmd = "close"
    <2>1. ProtocolState = "open" /\ ProtocolState' = "closed"
      BY <1>1, <1>2, <1>4, <1>9, StateOf
    <2>2. QED BY <1>1, <1>5, <1>9, <2>1 DEF Mapped, Protocol!Next, Protocol!Close
  <1>10. CASE cmd \in {"copyup", "copydown"}
    <2>1. ProtocolState = "open" /\ ProtocolState' = "open"
      BY <1>1, <1>2, <1>4, <1>10, StateOf
    <2>2. QED BY <1>1, <1>5, <1>10, <2>1 DEF Mapped, Protocol!Next, Protocol!CopyUpOrDown
  <1>11. CASE cmd \in {"capabilities", "print-execute-command"}
    <2>1. /\ ProtocolState' = ProtocolState /\ ProtocolState # "gone"
          /\ cmd = "print-execute-command" => ProtocolState = "open"
      BY <1>1, <1>2, <1>4, <1>11, StateOf
    <2>2. QED BY <1>1, <1>5, <1>11, <2>1 DEF Mapped, Protocol!Next, Protocol!Tell
  <1>12. QED BY <1>2, <1>6, <1>7, <1>8, <1>9, <1>10, <1>11 DEF Command

LEMMA CopyMapped ==
    ASSUME TypeOK, Consistent, Copy
    PROVE  Mapped
  <1>1. at = "copy" /\ cmd \in {"copyup", "copydown"} /\ Opened /\ ~Committed
          /\ UNCHANGED <<backend, downtmp_open>>
    BY DEF Copy, Consistent, ServingOK, Committed
  <1>2. CASE at' = "reply" /\ UNCHANGED <<reply, cmd>>
    BY <1>1, <1>2, BusyMapped DEF Committed, Unseen, NeedsOpen
  <1>3. CASE Answer(FALSE, NoPath) /\ at' = "read" /\ UNCHANGED downtmp
    <2>1. ProtocolState = "open" /\ ProtocolState' = "open"
      BY <1>1, <1>3, StateOf, StateOfNext DEF NeedsOpen, Opened
    <2>2. Caps[backend]' = Caps[backend]
      BY <1>1
    <2>3. QED BY <1>1, <1>3, <2>1, <2>2
           DEF Answer, Mapped, Protocol!Next, Protocol!CopyUpOrDown, Protocol!Respond
  <1>4. CASE EnterCleanup("error", lost) /\ UNCHANGED <<reply, cmd>>
    BY <1>1, <1>4, EnterCleanupConsistent, StopMapped DEF Unseen, Copy
  <1>5. QED BY <1>2, <1>3, <1>4 DEF Copy, globals

LEMMA EndTmpMapped ==
    ASSUME TypeOK, Consistent, EndTmp
    PROVE  Mapped
  <1>1. HookEnd /\ hook = "tmp" /\ UNCHANGED <<backend, cmd, reply>>
    BY DEF EndTmp
  <1>2. PICK p \in HookDowntmp :
          \/ at' = "reply" /\ downtmp_open' = p
          \/ downtmp_open \notin {NoPath, p}
    BY DEF EndTmp
  <1>3. p \in Path /\ (downtmp_open # NoPath => p = downtmp_open)
    BY <1>1, DowntmpKept DEF HookDowntmp, TypeOK
  <1>4. at' = "reply" /\ downtmp_open' = p /\ ~Committed' /\ ~Committed /\ at = "hook"
    BY <1>1, <1>2, <1>3 DEF Committed, HookEnd
  <1>5. cmd \in {"open", "revert"} /\ (cmd = "revert" => downtmp_open # NoPath)
    BY <1>1 DEF Consistent, ServingOK, PathOK, HookEnd
  <1>6. CASE downtmp_open # NoPath
    BY <1>1, <1>3, <1>4, <1>5, <1>6, BusyMapped DEF Unseen, NeedsOpen
  <1>7. CASE downtmp_open = NoPath
    <2>1. ProtocolState = "closed" /\ ProtocolState' = "closed"
      BY <1>1, <1>4, <1>5, <1>7, StateOf, StateOfNext
    <2>2. Caps[backend]' = Caps[backend]
      BY <1>1
    <2>3. QED BY <1>1, <1>3, <1>4, <1>5, <1>7, <2>1, <2>2
           DEF Mapped, Protocol!Next, Protocol!ChooseScratch
  <1>8. QED BY <1>6, <1>7

LEMMA HookEndMapped ==
    ASSUME TypeOK, Consistent, EndOpenOrRevert \/ EndReboot \/ EndCleanup
    PROVE  Mapped
  <1>1. at = "hook" /\ at' # "read" /\ Unseen
    BY DEF EndOpenOrRevert, EndReboot, EndCleanup, HookEnd, EnterHook, Cleaned, Ends, Unseen
  <1>2. Committed => Committed'
    BY DEF EndOpenOrRevert, EndReboot, EndCleanup, HookEnd, Cleaned, Ends, Committed
  <1>3. QED BY <1>1, <1>2, StopMapped, BusyMapped, HookServes

LEMMA CallerMapped ==
    ASSUME Consistent, (\E c \in Command : Send(c)) \/ CallerExits \/ UNCHANGED vars
    PROVE  Mapped
  <1>1. UNCHANGED <<backend, reply, at, hook, why, downtmp, downtmp_open>>
    BY DEF Send, CallerExits, vars, run, globals
  <1>2. Committed' = Committed /\ Opened' = Opened
    BY <1>1 DEF Committed, Opened
  <1>3. CASE UNCHANGED cmd
    <2>1. ProtocolState' = ProtocolState
      BY <1>1, <1>2, <1>3 DEF ProtocolState
    <2>2. QED BY <1>1, <1>3, <2>1, StutterMapped DEF Unseen
  <1>4. CASE at = "read" /\ cmd = "none" /\ cmd' \in Command
    <2>1. ProtocolState' = ProtocolState /\ ProtocolState # "gone"
      BY <1>1, <1>2, <1>4, StateOf, StateOfNext DEF Committed
    <2>2. Caps[backend]' = Caps[backend]
      BY <1>1
    <2>3. QED BY <1>1, <1>4, <2>1, <2>2 DEF Mapped, Protocol!Next, Protocol!Request
  <1>5. QED BY <1>3, <1>4 DEF Send, CallerExits, vars

LEMMA InitMapped == Init => Protocol!Init
  <1> SUFFICES ASSUME Init PROVE Protocol!Init
    OBVIOUS
  <1>1. ProtocolState = "closed"
    BY StateOf DEF Init, Opened
  <1>2. Caps[backend] \in SUBSET {"revert", "reboot"}
    BY CapsAssumption DEF Init
  <1>3. QED BY <1>1, <1>2 DEF Init, Protocol!Init

\* Whatever the hooks are, replies come only to commands that are legal in the
\* state the replies before have put the server in, and carry one directory.
THEOREM ServerKeepsProtocol == Spec => KeepsProtocol
  <1>1. TypeOK /\ Consistent /\ [Next]_vars => Mapped
    BY StepMapped, EndingMapped, ReadMapped, PrintReplyMapped, CopyMapped,
       EndTmpMapped, HookEndMapped, CallerMapped
    DEF Next, HookStep, Serve, ReadEof, Signal, BrokenPipe, Done
  <1>2. QED
    BY InitMapped, <1>1, TypeCorrect, GlobalsConsistent, PTL
    DEF Spec, KeepsProtocol, Protocol!Spec, Mapped
-----------------------------------------------------------------------------
(* What exists while the server serves.                                    *)

LEMMA Tables ==
    ASSUME NEW b \in Backend, NEW h \in HookName
    PROVE  /\ Hooks[b][h] \in Seq(Step) /\ Len(Hooks[b][h]) \in Nat
           /\ \A k \in StepsOf(b, h) : Hooks[b][h][k] \in Step
  <1>1. Hooks[b][h] \in Seq(Step)
    BY HooksAssumption
  <1>2. QED BY <1>1 DEF StepsOf

\* What a step that goes on does to what exists.
LEMMA StepChanges ==
    ASSUME TypeOK, StepOk \/ StepSkip
    PROVE  /\ at = "hook" /\ pos \in StepsOf(backend, hook) /\ pos' = pos + 1
           /\ UNCHANGED <<backend, cmd, at, hook, why, cleaning>>
           /\ Current = Hooks[backend][hook][pos]
           /\ \A x \in res' : x \in res \/ (StepOk /\ Makes(backend, hook, pos, x))
           /\ \A x \in res : x \in res' \/ GivesUp(backend, hook, pos, x)
           /\ \A x : Makes(backend, hook, pos, x) => x \in res'
           /\ \A x \in res' : ~Loses(backend, hook, pos, x)
           /\ Current.does = "gain" => Current.needs \subseteq res
  <1>1. /\ at = "hook" /\ pos' = pos + 1 /\ pos <= Len(Program)
        /\ UNCHANGED <<backend, cmd, at, hook, why, cleaning>>
    BY DEF StepOk, StepSkip, InHook
  <1>2. Len(Program) \in Nat
    BY Tables DEF Program, TypeOK
  <1>3. pos \in StepsOf(backend, hook)
    BY <1>1, <1>2 DEF TypeOK, StepsOf, Program
  <1>4. Current = Hooks[backend][hook][pos]
    BY DEF Current, Program
  <1> DEFINE s == Current
  <1> HIDE DEF s
  <1>5. CASE StepOk
    <2>1. s.needs \subseteq res
      BY <1>5 DEF StepOk, CanSucceed, s
    <2>2. Effect(s)
      BY <1>5 DEF StepOk, s
    <2>3. /\ s.does = "gain" => res' = res \cup s.on
          /\ s.does = "lose" => res' = res \ s.on
          /\ s.does = "check" => res' = res
          /\ s.does \in {"boot", "forget"} => res' \in {res, res \ s.on}
          /\ s.does \in {"gain", "lose", "check", "boot", "forget"}
      BY <2>2 DEF Effect, testbed
    <2>4. /\ \A x \in res' : x \in res \/ (s.does = "gain" /\ x \in s.on)
          /\ \A x \in res : x \in res' \/ (s.does \in {"lose", "boot", "forget"} /\ x \in s.on)
          /\ \A x : s.does = "gain" /\ x \in s.on => x \in res'
          /\ \A x \in res' : ~(s.does = "lose" /\ x \in s.on)
      BY <2>3
    <2>5. QED BY <1>1, <1>3, <1>4, <1>5, <2>1, <2>4 DEF s, Makes, Loses, GivesUp
  <1>6. CASE StepSkip
    <2>1. \/ s.does = "forget" /\ res' \in {res, res \ s.on}
          \/ s.does = "lose" /\ res' = res \ s.on
      BY <1>6 DEF StepSkip, s
    <2>2. /\ \A x \in res' : x \in res
          /\ \A x \in res : x \in res' \/ (s.does \in {"lose", "boot", "forget"} /\ x \in s.on)
          /\ s.does # "gain"
          /\ \A x \in res' : ~(s.does = "lose" /\ x \in s.on)
      BY <2>1
    <2>3. QED BY <1>1, <1>3, <1>4, <2>2 DEF s, Makes, Loses, GivesUp
  <1>7. QED BY <1>5, <1>6

\* A failing step takes effect as a whole or not at all, and refuses in time.
LEMMA RaiseChanges ==
    ASSUME TypeOK, StepRaise
    PROVE  /\ at = "hook" /\ pos \in StepsOf(backend, hook)
           /\ UNCHANGED <<backend, orphans>>
           /\ \E f \in Hooks[backend][hook][pos].fails \ {"skip"} :
                 /\ Raise(f)
                 /\ \A x \in res' : x \in res \/ (f # "refuse" /\ Makes(backend, hook, pos, x))
                 /\ \A x \in res : x \in res' \/ GivesUp(backend, hook, pos, x)
  <1>1. at = "hook" /\ pos <= Len(Program) /\ UNCHANGED <<backend, orphans>>
    BY DEF StepRaise, InHook, testbed
  <1>2. Len(Program) \in Nat
    BY Tables DEF Program, TypeOK
  <1>3. pos \in StepsOf(backend, hook)
    BY <1>1, <1>2 DEF TypeOK, StepsOf, Program
  <1> DEFINE s == Current
  <1> HIDE DEF s
  <1>4. PICK f \in s.fails \ {"skip"} :
          /\ \/ res' = res
             \/ /\ f # "refuse"
                /\ \/ s.does = "gain" /\ res' = res \cup s.on
                   \/ s.does \in {"lose", "forget", "boot"} /\ res' = res \ s.on
          /\ Raise(f)
    BY DEF StepRaise, testbed, s
  <1>5. /\ \A x \in res' : x \in res \/ (f # "refuse" /\ s.does = "gain" /\ x \in s.on)
        /\ \A x \in res : x \in res' \/ (s.does \in {"lose", "forget", "boot"} /\ x \in s.on)
    BY <1>4
  <1>6. s = Hooks[backend][hook][pos]
    BY DEF s, Current, Program
  <1>7. QED BY <1>1, <1>3, <1>4, <1>5, <1>6 DEF Makes, GivesUp

\* A hook that has ended owes nothing any more.
LEMMA NothingDue ==
    ASSUME TypeOK, HookEnd
    PROVE  /\ at = "hook"
           /\ \A j \in StepsOf(backend, hook) : j < pos /\ ~(j >= pos)
           /\ \A x : ~Due(backend, hook, x, pos)
  <1>1. Len(Program) \in Nat /\ pos > Len(Program) /\ at = "hook" /\ pos \in Nat
    BY Tables DEF HookEnd, Program, TypeOK
  <1>2. \A j \in StepsOf(backend, hook) : j < pos /\ ~(j >= pos)
    BY <1>1 DEF StepsOf, Program
  <1>3. QED BY <1>1, <1>2 DEF Due

LEMMA WholeIsAll ==
    ASSUME TypeOK
    PROVE  /\ Whole = All(backend) /\ Gained("open") = MadeBy(backend, "open")
           /\ Lasting = Stays(backend)
  <1>1. ASSUME NEW h \in HookName PROVE Gained(h) = MadeBy(backend, h)
    <2>1. \A k \in StepsOf(backend, h) : Hooks[backend][h][k].on \subseteq Resource
      BY Tables DEF TypeOK, Step
    <2>2. QED BY <2>1 DEF Gained, MadeBy, Makes, StepsOf
  <1>2. QED BY <1>1 DEF Whole, All, Frame, HookName, Lasting, Stays

\* What there may be of a testbed that is not open: what was there before the
\* main loop until it is opened, and then what no hook removes.
Unopened == Stays(backend) \cup (IF downtmp_open = NoPath THEN Initial[backend] ELSE {})

\* IdleOK: what the hooks know of, between two commands and also while a reply
\* is printed or a copy is made.
IdleOK ==
    at \in {"read", "copy", "reply"} =>
        IF Opened THEN res = All(backend) ELSE res \subseteq Unopened

\* ForwardOK: a hook that is to return has made, or has yet to make, what must
\* be there then; what there is besides it will remove.
ForwardOK ==
    at = "hook" /\ hook \in Forward =>
        /\ \A x \in Kept(backend, hook) : x \in res \/ Due(backend, hook, x, pos)
        /\ \A x \in res \ All(backend) :
              /\ hook = "reboot"
              /\ \E j \in StepsOf(backend, "reboot") : j >= pos /\ Loses(backend, "reboot", j, x)

\* GoneOK: what hook_cleanup() has removed stays away.
GoneOK ==
    at = "hook" /\ hook = "cleanup" =>
        /\ \A j \in StepsOf(backend, "cleanup") : j < pos =>
              \A x \in res : ~Loses(backend, "cleanup", j, x)
        /\ why = "close" => res \subseteq All(backend)

Known == IdleOK /\ ForwardOK /\ GoneOK

LEMMA FramesInAll ==
    ASSUME NEW b \in Backend
    PROVE  /\ Initial[b] \subseteq Resource /\ Frame(b) \subseteq All(b) /\ All(b) \subseteq Resource
           /\ Initial[b] \cup Stays(b) \subseteq All(b)
           /\ \A x \in Frame(b) : Due(b, "open", x, 1)
           /\ \A x \in All(b) : x \in Frame(b) \/ Due(b, "tmp", x, 1)
  <1>1. Initial[b] \subseteq Resource
    BY InitialAssumption
  <1>2. ASSUME NEW h \in HookName, NEW x \in MadeBy(b, h) PROVE Due(b, h, x, 1)
    <2>1. PICK k \in StepsOf(b, h) : Makes(b, h, k, x)
      BY <1>2 DEF MadeBy
    <2>2. k >= 1
      BY DEF StepsOf
    <2>3. QED BY <2>1, <2>2 DEF Makes, Due
  <1>3. QED BY <1>1, <1>2, OpenContract DEF Frame, All, Stays, MadeBy, HookName

LEMMA KnownStep ==
    ASSUME TypeOK, Known, StepOk \/ StepSkip
    PROVE  Known'
  <1> USE DEF Known
  <1>1. /\ at = "hook" /\ pos \in StepsOf(backend, hook) /\ pos' = pos + 1
        /\ UNCHANGED <<backend, cmd, at, hook, why, cleaning>>
        /\ Current = Hooks[backend][hook][pos]
        /\ \A x \in res' : x \in res \/ (StepOk /\ Makes(backend, hook, pos, x))
        /\ \A x \in res : x \in res' \/ GivesUp(backend, hook, pos, x)
        /\ \A x : Makes(backend, hook, pos, x) => x \in res'
        /\ \A x \in res' : ~Loses(backend, hook, pos, x)
        /\ Current.does = "gain" => Current.needs \subseteq res
    BY StepChanges
  <1>2. backend \in Backend /\ hook \in HookName /\ res' \subseteq Resource
    BY <1>1, StepOkType, StepSkipType DEF TypeOK
  <1>3. IdleOK'
    BY <1>1 DEF IdleOK
  <1>4. \A j \in StepsOf(backend, hook) : j >= pos <=> j = pos \/ j >= pos + 1
    BY <1>1 DEF StepsOf
  <1>5. \A j \in StepsOf(backend, hook) : j < pos + 1 <=> j = pos \/ j < pos
    BY <1>1 DEF StepsOf
  <1>6. ForwardOK'
    <2> SUFFICES ASSUME hook \in Forward
                 PROVE  /\ \A x \in Kept(backend, hook) : x \in res' \/ Due(backend, hook, x, pos + 1)
                        /\ \A x \in res' \ All(backend) :
                              /\ hook = "reboot"
                              /\ \E j \in StepsOf(backend, "reboot") :
                                    j >= pos + 1 /\ Loses(backend, "reboot", j, x)
      BY <1>1 DEF ForwardOK
    <2>1. ASSUME NEW x \in Kept(backend, hook)
          PROVE  x \in res' \/ Due(backend, hook, x, pos + 1)
      <3>1. CASE x \in res
        <4>1. CASE GivesUp(backend, hook, pos, x)
          BY <1>1, <1>2, <4>1, RestoreContract
        <4>2. QED BY <1>1, <3>1, <4>1
      <3>2. CASE Due(backend, hook, x, pos) /\ x \notin res
        <4>1. PICK j \in StepsOf(backend, hook) :
                /\ j >= pos /\ Hooks[backend][hook][j].does = "gain"
                /\ x \in Hooks[backend][hook][j].on \cup Hooks[backend][hook][j].needs
          BY <3>2 DEF Due
        <4>2. CASE j = pos
          BY <1>1, <3>2, <4>1, <4>2 DEF Makes
        <4>3. CASE j >= pos + 1
          BY <4>1, <4>3 DEF Due
        <4>4. QED BY <1>4, <4>1, <4>2, <4>3
      <3>3. QED BY <1>1, <3>1, <3>2 DEF ForwardOK
    <2>2. ASSUME NEW x \in res' \ All(backend)
          PROVE  /\ hook = "reboot"
                 /\ \E j \in StepsOf(backend, "reboot") :
                       j >= pos + 1 /\ Loses(backend, "reboot", j, x)
      <3>1. CASE x \in res
        <4>1. PICK j \in StepsOf(backend, "reboot") :
                hook = "reboot" /\ j >= pos /\ Loses(backend, "reboot", j, x)
          BY <1>1, <3>1 DEF ForwardOK
        <4>2. QED BY <1>1, <1>4, <4>1
      <3>2. CASE Makes(backend, hook, pos, x)
        <4>1. x \in Resource /\ x \in MadeBy(backend, hook)
          BY <1>1, <1>2, <3>2 DEF MadeBy
        <4>2. hook = "reboot"
          BY <1>2, <4>1, MakeContract
        <4>3. PICK j \in StepsOf(backend, "reboot") : j > pos /\ Loses(backend, "reboot", j, x)
          BY <1>1, <1>2, <3>2, <4>1, <4>2, MakeContract
        <4>4. j >= pos + 1
          BY <1>1, <4>2, <4>3 DEF StepsOf
        <4>5. QED BY <4>2, <4>3, <4>4
      <3>3. QED BY <1>1, <3>1, <3>2
    <2>3. QED BY <2>1, <2>2
  <1>7. GoneOK'
    <2> SUFFICES ASSUME hook = "cleanup"
                 PROVE  /\ \A j \in StepsOf(backend, "cleanup") : j < pos + 1 =>
                              \A x \in res' : ~Loses(backend, "cleanup", j, x)
                        /\ why = "close" => res' \subseteq All(backend)
      BY <1>1 DEF GoneOK
    <2>1. res' \subseteq res
      BY <1>1, <1>2, CleanupContract DEF Makes
    <2>2. QED BY <1>1, <1>5, <2>1 DEF GoneOK
  <1>8. QED BY <1>3, <1>6, <1>7

\* A server that begins to end has nothing to make good any more.
LEMMA KnownEnding ==
    ASSUME Committed', at' = "hook" /\ hook' = "cleanup" => pos' = 1
    PROVE  Known'
  <1>1. at' \notin {"read", "copy", "reply"} /\ (at' = "hook" => hook' \notin Forward)
          /\ (at' = "hook" /\ hook' = "cleanup" => why' # "close")
    BY DEF Committed, Forward
  <1>2. at' = "hook" /\ hook' = "cleanup" => \A j \in StepsOf(backend', "cleanup") : ~(j < pos')
    BY DEF StepsOf
  <1>3. QED BY <1>1, <1>2 DEF Known, IdleOK, ForwardOK, GoneOK

LEMMA CleanupStarts ==
    ASSUME NEW w, NEW l, EnterCleanup(w, l)
    PROVE  /\ at' = "hook" => hook' = "cleanup" /\ pos' = 1
           /\ cleaning' => at' = "hook" \/ cleaning
  BY DEF EnterCleanup, Cleaned, Ends, EnterHook

LEMMA KnownEnds ==
    ASSUME TypeOK, Consistent,
           \/ StepRaise \/ ReadIllegal \/ ReadQuit \/ EndRescue \/ Deliver
           \/ Copy /\ EnterCleanup("error", lost)
    PROVE  Known'
  <1>1. Committed'
    BY StepRaiseConsistent, EndingConsistent, DeliverConsistent, EnterCleanupConsistent
    DEF Copy
  <1>2. at' = "hook" /\ hook' = "cleanup" => pos' = 1
    <2>1. CASE ReadIllegal \/ ReadQuit \/ EndRescue \/ (Copy /\ EnterCleanup("error", lost))
      BY <2>1, CleanupStarts DEF ReadIllegal, ReadQuit, EndRescue
    <2>2. CASE Deliver
      BY <2>2, CleanupStarts DEF Deliver, Ends
    <2>3. CASE StepRaise
      BY <2>3, CleanupStarts DEF StepRaise, Raise, RaiseInCleanup, EnterHook, Ends
    <2>4. QED BY <2>1, <2>2, <2>3
  <1>3. QED BY <1>1, <1>2, KnownEnding

\* Reading and answering leave the testbed alone.
LEMMA KnownIdle ==
    ASSUME Known, at \in {"read", "copy", "reply"}, at' \in {"read", "copy", "reply"},
           UNCHANGED <<backend, downtmp, downtmp_open, res>>
    PROVE  Known'
  BY DEF Known, IdleOK, ForwardOK, GoneOK, Opened, Unopened

LEMMA KnownCaller ==
    ASSUME Known, (\E c \in Command : Send(c)) \/ CallerExits \/ UNCHANGED vars
    PROVE  Known'
  <1>1. UNCHANGED <<backend, at, hook, pos, why, downtmp, downtmp_open, res>>
    BY DEF Send, CallerExits, vars, run, globals, testbed
  <1>2. QED BY <1>1 DEF Known, IdleOK, ForwardOK, GoneOK, Opened, Unopened

LEMMA KnownReadHook ==
    ASSUME TypeOK, Known, ReadHookCommand
    PROVE  Known'
  <1>1. /\ at = "read" /\ ~Illegal(cmd) /\ cmd \in {"open", "revert", "reboot"}
        /\ at' = "hook" /\ hook' = cmd /\ pos' = 1 /\ UNCHANGED <<backend, res>>
    BY DEF ReadHookCommand, Reading, EnterHook, testbed
  <1>2. IF cmd = "open" THEN res \subseteq Initial[backend] \cup Stays(backend)
        ELSE res = All(backend)
    BY <1>1 DEF Illegal, NeedsOpen, Known, IdleOK, Unopened
  <1>3. Initial[backend] \cup Stays(backend) \subseteq All(backend)
    BY FramesInAll DEF TypeOK
  <1>4. /\ \A x \in Kept(backend, cmd) : x \in res \/ Due(backend, cmd, x, 1)
        /\ res \subseteq All(backend)
    BY <1>1, <1>2, <1>3, FramesInAll DEF Kept, TypeOK
  <1>5. QED BY <1>1, <1>4 DEF Known, IdleOK, ForwardOK, GoneOK

LEMMA KnownReadClose ==
    ASSUME Consistent, Known, ReadClose
    PROVE  Known'
  <1>1. at = "read" /\ Opened /\ UNCHANGED <<backend, res>>
    BY DEF ReadClose, Reading, Illegal, NeedsOpen, testbed
  <1>2. ~cleaning
    BY <1>1 DEF Consistent, CleaningOK
  <1>3. at' = "hook" /\ hook' = "cleanup" /\ pos' = 1
    BY <1>1, <1>2 DEF ReadClose, EnterCleanup, EnterHook
  <1>4. \A j \in StepsOf(backend, "cleanup") : ~(j < 1)
    BY DEF StepsOf
  <1>5. res = All(backend)
    BY <1>1 DEF Known, IdleOK
  <1>6. QED BY <1>1, <1>3, <1>4, <1>5 DEF Known, IdleOK, ForwardOK, GoneOK, Forward

LEMMA KnownOpenEnds ==
    ASSUME TypeOK, Known, EndOpenOrRevert
    PROVE  Known'
  <1>1. /\ HookEnd /\ hook \in {"open", "revert"}
        /\ at' = "hook" /\ hook' = "tmp" /\ pos' = 1 /\ UNCHANGED <<backend, res>>
    BY DEF EndOpenOrRevert, EnterHook, testbed
  <1>2. /\ \A x \in Frame(backend) : x \in res
        /\ \A x \in res : x \in All(backend)
    BY <1>1, NothingDue DEF Known, ForwardOK, Forward, Kept
  <1>3. \A x \in All(backend) : x \in res \/ Due(backend, "tmp", x, 1)
    BY <1>2, FramesInAll DEF TypeOK
  <1>4. QED BY <1>1, <1>2, <1>3 DEF Known, IdleOK, ForwardOK, GoneOK, Kept

\* hook_downtmp() and cmd_reboot() end with all that there should be.
LEMMA AllThere ==
    ASSUME TypeOK, Known, HookEnd, hook \in {"tmp", "reboot"}
    PROVE  res = All(backend)
  <1>1. /\ \A x \in All(backend) : x \in res
        /\ \A x \in res \ All(backend) : FALSE
    BY NothingDue DEF Known, ForwardOK, Forward, Kept
  <1>2. QED BY <1>1

LEMMA TmpEnds ==
    ASSUME Consistent, EndTmp
    PROVE  /\ HookEnd /\ hook = "tmp" /\ at' = "reply" /\ Opened'
           /\ UNCHANGED <<backend, hook, res, orphans, lost, cleaning>>
  <1>1. PICK p \in HookDowntmp :
          \/ /\ downtmp' = p /\ at' = "reply" /\ UNCHANGED <<hook, cleaning, lost>>
          \/ downtmp_open \notin {NoPath, p}
    BY DEF EndTmp
  <1>2. HookEnd /\ hook = "tmp" /\ UNCHANGED <<backend, res, orphans>>
    BY DEF EndTmp, testbed
  <1>3. p # NoPath /\ (downtmp_open # NoPath => p = downtmp_open)
    BY <1>2, DowntmpKept
  <1>4. QED BY <1>1, <1>2, <1>3 DEF Opened

LEMMA KnownTmpEnds ==
    ASSUME TypeOK, Consistent, Known, EndTmp
    PROVE  Known'
  <1>1. HookEnd /\ hook = "tmp" /\ at' = "reply" /\ Opened' /\ UNCHANGED <<backend, res>>
    BY TmpEnds
  <1>2. res = All(backend)
    BY <1>1, AllThere
  <1>3. QED BY <1>1, <1>2 DEF Known, IdleOK, ForwardOK, GoneOK

LEMMA KnownRebootEnds ==
    ASSUME TypeOK, Consistent, Known, EndReboot
    PROVE  Known'
  <1>1. HookEnd /\ hook = "reboot" /\ at' = "reply" /\ UNCHANGED <<backend, res, downtmp>>
    BY DEF EndReboot, globals, testbed
  <1>2. res = All(backend)
    BY <1>1, AllThere
  <1>3. Opened'
    BY <1>1 DEF Consistent, ServingOK, HookEnd, Opened
  <1>4. QED BY <1>1, <1>2, <1>3 DEF Known, IdleOK, ForwardOK, GoneOK

\* cmd_close(): the hooks know of nothing more of the testbed but of the wrapper.
LEMMA KnownCleanupEnds ==
    ASSUME TypeOK, Known, EndCleanup
    PROVE  Known'
  <1>1. /\ HookEnd /\ hook = "cleanup" /\ downtmp' = NoPath /\ UNCHANGED backend
        /\ res' = res \ {"tmp"} /\ Cleaned(why)
    BY DEF EndCleanup
  <1>2. CASE why = "close"
    <2>1. at' = "reply"
      BY <1>1, <1>2 DEF Cleaned
    <2>2. \A x \in res : \A j \in StepsOf(backend, "cleanup") : ~Loses(backend, "cleanup", j, x)
      BY <1>1, NothingDue DEF Known, GoneOK
    <2>3. res \subseteq All(backend)
      BY <1>1, <1>2, NothingDue DEF Known, GoneOK
    <2>4. res' \subseteq Stays(backend)
      BY <1>1, <2>2, <2>3, CleanupContract DEF TypeOK
    <2>5. QED BY <1>1, <2>1, <2>4 DEF Known, IdleOK, ForwardOK, GoneOK, Opened, Unopened
  <1>3. CASE why # "close"
    BY <1>1, <1>3 DEF Cleaned, Ends, Known, IdleOK, ForwardOK, GoneOK
  <1>4. QED BY <1>2, <1>3

LEMMA KnownCopy ==
    ASSUME TypeOK, Consistent, Known, Copy
    PROVE  Known'
  <1>1. CASE EnterCleanup("error", lost)
    BY <1>1, KnownEnds
  <1>2. CASE at' \in {"reply", "read"} /\ UNCHANGED globals
    BY <1>2, KnownIdle DEF Copy, globals, testbed
  <1>3. QED BY <1>1, <1>2 DEF Copy

LEMMA KnownPlain ==
    ASSUME Known, ReadPlain \/ PrintReply
    PROVE  Known'
  BY KnownIdle DEF ReadPlain, Reading, PrintReply, globals, testbed

LEMMA InitKnown == Init => Known
  BY DEF Init, Known, IdleOK, ForwardOK, GoneOK, Opened, Unopened

LEMMA NextKnown ==
    ASSUME TypeOK, Consistent, Known, [Next]_vars
    PROVE  Known'
  BY KnownStep, KnownEnds, KnownCaller, KnownReadHook, KnownReadClose, KnownOpenEnds,
     KnownTmpEnds, KnownRebootEnds, KnownCleanupEnds, KnownCopy, KnownPlain
  DEF Next, HookStep, Serve, ReadEof, Signal, BrokenPipe, Done

\* The invariant behind it: each hook owes what it has not yet made.
LEMMA AlwaysKnown == Spec => []Known
  BY InitKnown, NextKnown, TypeCorrect, GlobalsConsistent, PTL DEF Spec

-----------------------------------------------------------------------------
(* hook_cleanup() runs once, for a testbed that is whole.                  *)

\* ForgottenOK: once downtmp_remove() has not been cut short, downtmp is None.
ForgottenOK ==
    at = "hook" /\ ForgottenBefore(backend, hook, pos) => ~Opened

\* WholeOK: with downtmp set and no cleanup on its way, all is there that
\* hook_open() has made; an except block runs with downtmp None.
WholeOK ==
    backend \notin Repeatable /\ ~cleaning =>
        /\ Opened => MadeBy(backend, "open") \ Inside \subseteq res
        /\ at = "hook" /\ hook = "rescue" => ~Opened

\* FirstOK: NoSecondCleanup.
FirstOK ==
    at = "hook" /\ hook = "cleanup" /\ pos = 1 /\ backend \notin Repeatable
        => MadeBy(backend, "open") \ Inside \subseteq res

Secured == ForgottenOK /\ WholeOK /\ FirstOK

\* Only downtmp_remove() touches downtmp, and does unless it is cut short.
LEMMA StepForgets ==
    ASSUME StepOk \/ StepSkip
    PROVE  /\ downtmp' = downtmp \/ (downtmp' = NoPath /\ Current.does = "forget")
           /\ Current.does = "forget" /\ "skip" \notin Current.fails => ~Opened'
           /\ Current.does = "forget" /\ StepOk => ~Opened'
  BY DEF StepOk, StepSkip, Effect, testbed, Opened

LEMMA SecuredStep ==
    ASSUME TypeOK, Consistent, Secured, StepOk \/ StepSkip
    PROVE  Secured'
  <1> USE DEF Secured
  <1>1. /\ at = "hook" /\ pos \in StepsOf(backend, hook) /\ pos' = pos + 1
        /\ UNCHANGED <<backend, at, hook, cleaning>>
        /\ Current = Hooks[backend][hook][pos]
        /\ \A x \in res : x \in res' \/ GivesUp(backend, hook, pos, x)
    BY StepChanges
  <1>2. /\ downtmp' = downtmp \/ downtmp' = NoPath
        /\ Forgets(backend, hook, pos) /\ "skip" \notin Current.fails => ~Opened'
    BY <1>1, StepForgets DEF Forgets
  <1>3. \A j \in StepsOf(backend, hook) : j < pos + 1 <=> j = pos \/ j < pos
    BY <1>1 DEF StepsOf
  <1>4. ForgottenOK'
    <2> SUFFICES ASSUME ForgottenBefore(backend, hook, pos + 1) PROVE ~Opened'
      BY <1>1 DEF ForgottenOK
    <2>1. ForgottenBefore(backend, hook, pos)
             \/ (Forgets(backend, hook, pos) /\ "skip" \notin Current.fails)
      BY <1>1, <1>3 DEF ForgottenBefore
    <2>2. QED BY <1>1, <1>2, <2>1 DEF ForgottenOK, Opened
  <1>5. WholeOK'
    <2> SUFFICES ASSUME backend \notin Repeatable, ~cleaning, Opened'
                 PROVE  MadeBy(backend, "open") \ Inside \subseteq res' /\ hook # "rescue"
      BY <1>1 DEF WholeOK
    <2>1. Opened /\ hook # "cleanup" /\ hook # "rescue"
      BY <1>1, <1>2 DEF Opened, Consistent, CleaningOK, WholeOK
    <2>2. ASSUME NEW x \in MadeBy(backend, "open") \ Inside, GivesUp(backend, hook, pos, x) PROVE FALSE
      <3>1. hook \in HookName \ {"cleanup", "rescue"} /\ backend \in Backend \ Repeatable
        BY <2>1 DEF TypeOK
      <3>2. ForgottenBefore(backend, hook, pos)
        BY <1>1, <2>2, <3>1, ForgetContract
      <3>3. QED BY <1>1, <2>1, <3>2 DEF ForgottenOK
    <2>3. QED BY <1>1, <2>1, <2>2 DEF WholeOK
  <1>6. FirstOK'
    <2>1. pos' # 1
      BY <1>1 DEF StepsOf
    <2>2. QED BY <2>1 DEF FirstOK
  <1>7. QED BY <1>4, <1>5, <1>6

\* A hook that begins has not forgotten anything yet.
LEMMA NothingForgotten == \A b, h : ~ForgottenBefore(b, h, 1)
  BY DEF ForgottenBefore, StepsOf

\* cleanup() is called for a testbed that is whole, or that is not open.
LEMMA SecuredCleanup ==
    ASSUME NEW w, NEW l, EnterCleanup(w, l), UNCHANGED backend,
           backend \notin Repeatable /\ ~cleaning /\ Opened
              => MadeBy(backend, "open") \ Inside \subseteq res'
    PROVE  Secured'
  <1>1. CASE cleaning
    BY <1>1 DEF EnterCleanup, Cleaned, Ends, Secured, ForgottenOK, WholeOK, FirstOK
  <1>2. CASE ~cleaning /\ Opened
    <2>1. cleaning'
      BY <1>2 DEF EnterCleanup
    <2>2. at' = "hook" /\ hook' = "cleanup" /\ pos' = 1
      BY <1>2 DEF EnterCleanup, EnterHook
    <2>3. QED BY <1>2, <2>1, <2>2, NothingForgotten DEF Secured, ForgottenOK, WholeOK, FirstOK
  <1>3. CASE ~cleaning /\ ~Opened
    <2>1. at' # "hook" /\ ~Opened'
      BY <1>3 DEF EnterCleanup, Cleaned, Ends, Opened
    <2>2. QED BY <2>1 DEF Secured, ForgottenOK, WholeOK, FirstOK
  <1>4. QED BY <1>1, <1>2, <1>3

LEMMA SecuredRaise ==
    ASSUME TypeOK, Consistent, Secured, StepRaise
    PROVE  Secured'
  <1> USE DEF Secured
  <1>1. /\ at = "hook" /\ pos \in StepsOf(backend, hook) /\ UNCHANGED backend
        /\ backend \in Backend /\ hook \in HookName
    BY RaiseChanges DEF TypeOK
  <1>2. PICK f \in Hooks[backend][hook][pos].fails :
          /\ Raise(f)
          /\ \A x \in res : x \in res' \/ GivesUp(backend, hook, pos, x)
    BY RaiseChanges
  <1>3. CASE hook = "cleanup"
    <2>1. RaiseInCleanup
      BY <1>2, <1>3 DEF Raise
    <2>2. cleaning'
      BY <1>1, <1>3, <2>1 DEF RaiseInCleanup, Consistent, CleaningOK
    <2>3. at' = "hook" => hook' = "rescue" /\ pos' = 1
      BY <2>1 DEF RaiseInCleanup, EnterHook, Ends
    <2>4. QED BY <2>2, <2>3, NothingForgotten DEF ForgottenOK, WholeOK, FirstOK
  <1>4. CASE hook \in {"open", "revert"} /\ f = "rescue"
    <2>1. EnterHook("rescue") /\ UNCHANGED globals
      BY <1>2, <1>4 DEF Raise
    <2>2. backend \notin Repeatable => ~Opened
      <3>1. hook = "open" => ~Opened
        BY <1>1 DEF Consistent, ServingOK
      <3>2. hook = "revert" /\ backend \notin Repeatable => ForgottenBefore(backend, hook, pos)
        BY <1>1, <1>2, <1>4, ForgetContract
      <3>3. QED BY <1>1, <1>4, <3>1, <3>2 DEF ForgottenOK
    <2>3. QED BY <1>1, <2>1, <2>2, NothingForgotten
           DEF EnterHook, globals, Opened, ForgottenOK, WholeOK, FirstOK
  <1>5. CASE hook # "cleanup" /\ ~(hook \in {"open", "revert"} /\ f = "rescue")
    <2>1. PICK l : EnterCleanup("error", l)
      BY <1>2, <1>5 DEF Raise
    <2>2. ASSUME backend \notin Repeatable, ~cleaning, Opened
          PROVE  MadeBy(backend, "open") \ Inside \subseteq res'
      <3>1. hook \in HookName \ {"cleanup", "rescue"} /\ backend \in Backend \ Repeatable
        BY <1>1, <1>5, <2>2 DEF WholeOK
      <3>2. ASSUME NEW x \in MadeBy(backend, "open") \ Inside, GivesUp(backend, hook, pos, x) PROVE FALSE
        <4>1. ForgottenBefore(backend, hook, pos)
          BY <1>1, <3>1, <3>2, ForgetContract
        <4>2. QED BY <1>1, <2>2, <4>1 DEF ForgottenOK
      <3>3. QED BY <1>2, <2>2, <3>2 DEF WholeOK
    <2>3. QED BY <1>1, <2>1, <2>2, SecuredCleanup
  <1>6. QED BY <1>3, <1>4, <1>5

LEMMA SecuredRest ==
    ASSUME TypeOK, Consistent, Known, Secured,
           \/ \E c \in Command : Send(c)
           \/ CallerExits \/ UNCHANGED vars \/ Copy \/ Deliver
           \/ ReadIllegal \/ ReadHookCommand \/ ReadClose \/ ReadQuit \/ ReadPlain
           \/ PrintReply \/ EndOpenOrRevert \/ EndTmp \/ EndReboot \/ EndRescue \/ EndCleanup
    PROVE  Secured'
  <1> USE DEF Secured
  <1>1. CASE (\E c \in Command : Send(c)) \/ CallerExits \/ UNCHANGED vars
    <2>1. UNCHANGED <<backend, at, hook, pos, downtmp, cleaning, res>>
      BY <1>1 DEF Send, CallerExits, vars, run, globals, testbed
    <2>2. QED BY <2>1 DEF ForgottenOK, WholeOK, FirstOK, Opened
  <1>2. ASSUME NEW w, NEW l, EnterCleanup(w, l), UNCHANGED <<backend, res>>
        PROVE  Secured'
    BY <1>2, SecuredCleanup DEF WholeOK
  <1>3. ASSUME at' # "hook", UNCHANGED <<backend, downtmp, cleaning, res>>
        PROVE  Secured'
    BY <1>3 DEF ForgottenOK, WholeOK, FirstOK, Opened
  <1>4. CASE Copy
    BY <1>2, <1>3, <1>4 DEF Copy, globals, testbed
  <1>5. CASE Deliver
    BY <1>2, <1>3, <1>5 DEF Deliver, Ends, testbed
  <1>6. CASE ReadIllegal \/ ReadClose \/ ReadQuit \/ EndRescue
    BY <1>2, <1>6 DEF ReadIllegal, ReadClose, ReadQuit, EndRescue, testbed
  <1>7. CASE ReadPlain \/ PrintReply \/ EndReboot
    BY <1>3, <1>7 DEF ReadPlain, PrintReply, EndReboot, globals, testbed
  <1>8. CASE ReadHookCommand \/ EndOpenOrRevert
    <2>1. /\ at' = "hook" /\ pos' = 1 /\ hook' \notin {"rescue", "cleanup"}
          /\ UNCHANGED <<backend, downtmp, cleaning, res>>
      BY <1>8 DEF ReadHookCommand, EndOpenOrRevert, EnterHook, globals, testbed
    <2>2. QED BY <2>1, NothingForgotten DEF ForgottenOK, WholeOK, FirstOK, Opened
  <1>9. CASE EndTmp
    <2>1. HookEnd /\ hook = "tmp" /\ at' = "reply" /\ UNCHANGED <<backend, res>>
      BY <1>9, TmpEnds
    <2>2. res = All(backend)
      BY <2>1, AllThere
    <2>3. QED BY <2>1, <2>2 DEF ForgottenOK, WholeOK, FirstOK, All, Frame
  <1>10. CASE EndCleanup
    <2>1. ~Opened' /\ at' # "hook"
      BY <1>10 DEF EndCleanup, Cleaned, Ends, Opened
    <2>2. QED BY <2>1 DEF ForgottenOK, WholeOK, FirstOK
  <1>11. QED BY <1>1, <1>4, <1>5, <1>6, <1>7, <1>8, <1>9, <1>10

LEMMA InitSecured == Init => Secured
  BY DEF Init, Secured, ForgottenOK, WholeOK, FirstOK, Opened

LEMMA NextSecured ==
    ASSUME TypeOK, Consistent, Known, Secured, [Next]_vars
    PROVE  Secured'
  BY SecuredStep, SecuredRaise, SecuredRest
  DEF Next, HookStep, Serve, ReadEof, Signal, BrokenPipe, Done
-----------------------------------------------------------------------------
(* What a server leaves behind is what it has failed to remove.            *)

\* What a machine that was there before keeps.
Allowed == IF "inst" \in All(backend) THEN {} ELSE {"tar", "wrap"}

\* TrackedOK: nothing exists but what a hook knows of and what a step has failed
\* to remove; also not after an exception out of hook_cleanup().
TrackedOK ==
    /\ res \subseteq All(backend) \cup Tar(backend)
    /\ orphans \subseteq lost \cap Shrugged
    /\ cleaning /\ ~(at = "hook" /\ hook = "cleanup") => res \subseteq lost \cup Allowed

\* RemovedOK: a hook_cleanup() does remove downtmp, unless that has failed.
RemovedOK ==
    at = "hook" /\ hook = "cleanup" /\ "tmp" \notin lost =>
        /\ ~Opened => "tmp" \notin res
        /\ \A j \in StepsOf(backend, "cleanup") :
              j < pos /\ Forgets(backend, "cleanup", j) => ~Opened

\* LeftOK: CompleteCleanup.
LeftOK == at = "exited" => res \cup orphans \subseteq lost \cup Allowed \cup Unopened

Finished == TrackedOK /\ RemovedOK /\ LeftOK

\* Only a server that may reboot makes the tar file.
LEMMA MadeTracked ==
    ASSUME TypeOK, Consistent, at = "hook", pos \in StepsOf(backend, hook),
           NEW x, Makes(backend, hook, pos, x)
    PROVE  x \in All(backend) \cup Tar(backend)
  <1>1. backend \in Backend /\ hook \in HookName
    BY DEF TypeOK
  <1>2. x \in MadeBy(backend, hook)
    BY <1>1, Tables DEF MadeBy, Makes, Step
  <1>3. CASE hook # "reboot"
    BY <1>1, <1>2, <1>3, MakeContract
  <1>4. CASE hook = "reboot"
    <2>1. "reboot" \in Caps[backend]
      BY <1>4 DEF Consistent, ServingOK, Committed
    <2>2. QED BY <1>1, <1>2, <1>4, <2>1, MakeContract DEF Tar
  <1>5. QED BY <1>3, <1>4

\* hook_cleanup() has removed each thing, or failed to, or is still to do it.
LEMMA OwedCovers ==
    ASSUME TypeOK, Known, Finished, at = "hook", hook = "cleanup"
    PROVE  res \subseteq lost \cup Owed \cup Allowed
  <1> DEFINE S == StepsOf(backend, "cleanup")
  <1>1. backend \in Backend /\ pos \in Nat /\ S \subseteq Nat
    BY DEF TypeOK, StepsOf
  <1> SUFFICES ASSUME NEW x \in res, x \notin Allowed, x \notin lost PROVE x \in Owed
    OBVIOUS
  <1>2. x \in Resource /\ x \in All(backend) \cup Tar(backend)
    BY DEF TypeOK, Finished, TrackedOK
  <1>3. x \notin Stays(backend)
    BY DEF Allowed, Stays
  <1>4. x \notin All(backend) => x = "tar" /\ "reboot" \in Caps[backend] /\ "inst" \in All(backend)
    BY <1>2 DEF Tar, Allowed
  <1>5. PICK k \in S : Loses(backend, "cleanup", k, x) \/ (Forgets(backend, "cleanup", k) /\ x = "tmp")
    BY <1>1, <1>2, <1>3, <1>4, CleanupContract
  <1>6. x \in Hooks[backend]["cleanup"][k].on /\ Hooks[backend]["cleanup"][k].does \in {"lose", "forget"}
    BY <1>1, <1>5, CleanupContract DEF Loses, Forgets, HookName
  <1>7. ~(k < pos)
    <2>1. k < pos => ~Loses(backend, "cleanup", k, x)
      BY DEF Known, GoneOK
    <2>2. k < pos /\ Forgets(backend, "cleanup", k) => x # "tmp"
      BY DEF Finished, RemovedOK
    <2>3. QED BY <1>5, <2>1, <2>2
  <1>8. k >= pos
    BY <1>1, <1>7
  <1>9. QED BY <1>2, <1>6, <1>8 DEF Owed, Program, StepsOf

\* A hook_cleanup() that has ended owes nothing.
LEMMA NothingOwed ==
    ASSUME TypeOK, HookEnd
    PROVE  Owed = {}
  <1>1. Len(Program) \in Nat /\ pos > Len(Program) /\ pos \in Nat
    BY Tables DEF HookEnd, Program, TypeOK
  <1>2. \A k \in 1..Len(Program) : ~(k >= pos)
    BY <1>1
  <1>3. QED BY <1>2 DEF Owed

\* What a step that goes on does to what is left and to downtmp.
LEMMA StepLeaves ==
    ASSUME TypeOK, StepOk \/ StepSkip
    PROVE  /\ lost \subseteq lost'
           /\ orphans \subseteq lost \cap Shrugged => orphans' \subseteq lost' \cap Shrugged
           /\ Opened' => Opened
           /\ Opened /\ ~Opened' => "tmp" \notin res' \/ "tmp" \in lost'
           /\ Forgets(backend, hook, pos) => ~Opened' \/ "tmp" \in lost'
  <1>1. /\ pos \in StepsOf(backend, hook) /\ Current = Hooks[backend][hook][pos]
        /\ backend \in Backend /\ hook \in HookName
    BY StepChanges DEF TypeOK
  <1> DEFINE s == Current
  <1>2. s.does = "forget" => s.on = {"tmp"}
    BY <1>1, CleanupContract DEF Forgets
  <1>3. s.on \subseteq Resource
    BY <1>1, Tables DEF Step
  <1>4. "tmp" \in Shrugged
    BY DEF Shrugged
  <1>5. ASSUME s.does = "lose", "skip" \in s.fails PROVE s.on \subseteq Shrugged
    BY <1>1, <1>3, <1>5 DEF Shrugged, StepsOf
  <1>6. Forgets(backend, hook, pos) <=> s.does = "forget"
    BY <1>1 DEF Forgets
  <1> HIDE DEF s
  <1>7. CASE StepOk
    <2>1. Effect(s)
      BY <1>7 DEF StepOk, s
    <2>2. CASE s.does # "forget"
      <3>1. lost' = lost /\ downtmp' = downtmp /\ orphans' \subseteq orphans
        BY <2>1, <2>2 DEF Effect, testbed
      <3>2. QED BY <1>6, <2>2, <3>1 DEF Opened
    <2>3. CASE s.does = "forget" /\ ~Opened
      <3>1. lost' = lost /\ downtmp' = downtmp /\ orphans' = orphans
        BY <2>1, <2>3 DEF Effect, testbed
      <3>2. QED BY <2>3, <3>1 DEF Opened
    <2>4. CASE s.does = "forget" /\ Opened
      <3>1. /\ downtmp' = NoPath /\ res' = res \ {"tmp"}
            /\ \/ orphans' = orphans /\ lost' = lost
               \/ orphans' = orphans \cup ({"tmp"} \cap res) /\ lost' = lost \cup {"tmp"}
        BY <1>2, <2>1, <2>4 DEF Effect, testbed
      <3>2. QED BY <1>4, <3>1 DEF Opened
    <2>5. QED BY <2>2, <2>3, <2>4
  <1>8. CASE StepSkip
    <2>1. /\ lost' = lost \cup s.on /\ downtmp' = downtmp /\ "skip" \in s.fails
          /\ \/ s.does = "forget" /\ orphans' = orphans
             \/ s.does = "lose" /\ orphans' = orphans \cup (s.on \cap res)
      BY <1>8 DEF StepSkip, s
    <2>2. QED BY <1>2, <1>5, <1>6, <2>1 DEF Opened
  <1>9. QED BY <1>7, <1>8

LEMMA SameBackend ==
    ASSUME UNCHANGED backend
    PROVE  Allowed' = Allowed /\ Shrugged' = Shrugged
           /\ All(backend)' = All(backend) /\ Tar(backend)' = Tar(backend)
  BY DEF Allowed, Shrugged, All, Frame, MadeBy, StepsOf, Makes, Tar

LEMMA FinishedStep ==
    ASSUME TypeOK, Consistent, Finished, StepOk \/ StepSkip
    PROVE  Finished'
  <1> USE DEF Finished
  <1>1. /\ at = "hook" /\ pos \in StepsOf(backend, hook) /\ pos' = pos + 1
        /\ UNCHANGED <<backend, at, hook, cleaning>>
        /\ \A x \in res' : x \in res \/ (StepOk /\ Makes(backend, hook, pos, x))
    BY StepChanges
  <1>2. backend \in Backend /\ hook \in HookName
    BY DEF TypeOK
  <1>3. res' \subseteq All(backend) \cup Tar(backend)
    BY <1>1, MadeTracked DEF TrackedOK
  <1>4. /\ lost \subseteq lost'
        /\ orphans' \subseteq lost' \cap Shrugged
        /\ Opened' => Opened
        /\ Opened /\ ~Opened' => "tmp" \notin res' \/ "tmp" \in lost'
        /\ Forgets(backend, hook, pos) => ~Opened' \/ "tmp" \in lost'
    BY StepLeaves DEF TrackedOK
  <1>5. hook \in {"cleanup", "rescue"} => res' \subseteq res
    BY <1>1, <1>2, CleanupContract DEF Makes
  <1>6. cleaning => hook \in {"cleanup", "rescue"}
    BY <1>1, <1>2 DEF Consistent, CleaningOK, HookName
  <1>7. TrackedOK'
    BY <1>1, <1>3, <1>4, <1>5, <1>6, SameBackend DEF TrackedOK
  <1>8. RemovedOK'
    <2> SUFFICES ASSUME hook = "cleanup", "tmp" \notin lost'
                 PROVE  /\ ~Opened' => "tmp" \notin res'
                        /\ \A j \in StepsOf(backend, "cleanup") :
                              j < pos + 1 /\ Forgets(backend, "cleanup", j) => ~Opened'
      BY <1>1 DEF RemovedOK
    <2>1. /\ ~Opened => "tmp" \notin res
          /\ \A j \in StepsOf(backend, "cleanup") :
                j < pos /\ Forgets(backend, "cleanup", j) => ~Opened
      BY <1>1, <1>4 DEF RemovedOK
    <2>2. ~Opened' => "tmp" \notin res'
      BY <1>4, <1>5, <2>1
    <2>3. ASSUME NEW j \in StepsOf(backend, "cleanup"), j < pos + 1, Forgets(backend, "cleanup", j)
          PROVE  ~Opened'
      <3>1. j < pos \/ j = pos
        BY <1>1, <2>3 DEF StepsOf
      <3>2. QED BY <1>4, <2>1, <2>3, <3>1
    <2>4. QED BY <2>2, <2>3
  <1>9. QED BY <1>1, <1>7, <1>8 DEF LeftOK

\* A server that ends with no more than it may leave, whatever it was doing.
LEMMA FinishedEnds ==
    ASSUME TrackedOK, lost \subseteq lost', UNCHANGED <<backend, orphans>>,
           ~(at' = "hook" /\ hook' = "cleanup"), at' = "hook" => ~cleaning' \/ res' \subseteq lost' \cup Allowed,
           at' \notin {"hook", "exited"} => ~cleaning',
           at' = "exited" => res' \subseteq lost' \cup Allowed
                             \/ (~cleaning' /\ res' \subseteq lost' \cup Allowed \cup Unopened'),
           res' \subseteq All(backend) \cup Tar(backend)
    PROVE  Finished'
  <1>1. orphans' \subseteq lost' \cap Shrugged
    BY DEF TrackedOK
  <1>2. Allowed' = Allowed /\ Shrugged' = Shrugged
           /\ All(backend)' = All(backend) /\ Tar(backend)' = Tar(backend)
    BY SameBackend
  <1>3. at' \notin {"hook", "exited"} \/ at' = "hook" \/ at' = "exited"
    OBVIOUS
  <1>4. TrackedOK'
    BY <1>1, <1>2, <1>3 DEF TrackedOK
  <1>5. RemovedOK'
    BY DEF RemovedOK
  <1>6. LeftOK'
    BY <1>1, <1>2 DEF LeftOK
  <1>7. QED BY <1>4, <1>5, <1>6 DEF Finished

\* cleanup() called outside of hook_cleanup() starts it, or there is nothing to
\* remove, or what a hook has begun to make is lost.
LEMMA FinishedCleanup ==
    ASSUME TypeOK, Consistent, Known, TrackedOK,
           at # "exited", ~(at = "hook" /\ hook = "cleanup"),
           NEW w, NEW l, EnterCleanup(w, l), lost \subseteq l, l \subseteq Resource,
           UNCHANGED <<backend, orphans, downtmp_open>>,
           cleaning \/ at # "hook" => res' \subseteq res,
           res' \subseteq All(backend) \cup Tar(backend)
    PROVE  Finished'
  <1>1. Allowed' = Allowed /\ Shrugged' = Shrugged
           /\ All(backend)' = All(backend) /\ Tar(backend)' = Tar(backend)
    BY SameBackend
  <1>2. CASE ~cleaning /\ Opened
    <2>1. at' = "hook" /\ hook' = "cleanup" /\ pos' = 1 /\ Opened' /\ lost' = l
      BY <1>2 DEF EnterCleanup, EnterHook, Opened
    <2>2. \A j \in StepsOf(backend, "cleanup") : ~(j < 1)
      BY DEF StepsOf
    <2>3. QED BY <1>1, <2>1, <2>2 DEF Finished, TrackedOK, RemovedOK, LeftOK
  <1>3. CASE cleaning
    <2>1. lost' = l /\ at' \in {"reply", "exited"}
      BY <1>3 DEF EnterCleanup, Cleaned, Ends
    <2>2. res' \subseteq lost' \cup Allowed /\ orphans' \subseteq lost' \cap Shrugged
      BY <1>3, <2>1 DEF TrackedOK
    <2>3. QED BY <1>1, <2>1, <2>2 DEF Finished, TrackedOK, RemovedOK, LeftOK
  <1>4. CASE ~cleaning /\ ~Opened
    <2>1. at' \in {"reply", "exited"} /\ ~cleaning' /\ lost' = IF at = "hook" THEN Resource ELSE l
      BY <1>4 DEF EnterCleanup, Cleaned, Ends
    <2>2. lost \subseteq lost'
      BY <2>1 DEF TypeOK
    <2>3. res' \subseteq lost' \cup Unopened'
      <3>1. CASE at = "hook"
        BY <2>1, <3>1, FramesInAll DEF TypeOK, Tar, Resource
      <3>2. CASE at # "hook"
        <4>1. res' \subseteq Unopened
          BY <1>4, <3>2 DEF Known, IdleOK, TypeOK
        <4>2. Unopened' = Unopened
          BY DEF Unopened, Stays, All, Frame, MadeBy, StepsOf, Makes
        <4>3. QED BY <4>1, <4>2
      <3>3. QED BY <3>1, <3>2
    <2>4. QED BY <2>1, <2>2, <2>3, FinishedEnds
  <1>5. QED BY <1>2, <1>3, <1>4

LEMMA FinishedRaise ==
    ASSUME TypeOK, Consistent, Known, Finished, StepRaise
    PROVE  Finished'
  <1>1. /\ at = "hook" /\ pos \in StepsOf(backend, hook) /\ UNCHANGED <<backend, orphans>>
        /\ backend \in Backend /\ hook \in HookName /\ UNCHANGED downtmp_open
    BY RaiseChanges DEF TypeOK, StepRaise
  <1>2. PICK f \in Hooks[backend][hook][pos].fails :
          /\ Raise(f)
          /\ \A x \in res' : x \in res \/ Makes(backend, hook, pos, x)
    BY RaiseChanges
  <1>3. res' \subseteq All(backend) \cup Tar(backend)
    BY <1>1, <1>2, MadeTracked DEF Finished, TrackedOK
  <1>4. hook \in {"cleanup", "rescue"} => res' \subseteq res
    BY <1>1, <1>2, CleanupContract DEF Makes
  <1>5. cleaning => hook \in {"cleanup", "rescue"}
    BY <1>1 DEF Consistent, CleaningOK, HookName
  <1>6. TrackedOK
    BY DEF Finished
  <1>7. CASE hook = "cleanup"
    <2>1. /\ lost' = lost \cup Owed
          /\ at' = "exited" \/ (at' = "hook" /\ hook' = "rescue")
      BY <1>2, <1>7 DEF Raise, RaiseInCleanup, EnterHook, Ends
    <2>2. res' \subseteq lost' \cup Allowed
      BY <1>1, <1>4, <1>7, <2>1, OwedCovers
    <2>3. QED BY <1>1, <1>3, <1>6, <2>1, <2>2, FinishedEnds
  <1>8. CASE hook # "cleanup" /\ EnterHook("rescue") /\ UNCHANGED globals
    <2>1. at' = "hook" /\ hook' = "rescue" /\ lost' = lost /\ cleaning' = cleaning
      BY <1>8 DEF EnterHook, globals
    <2>2. ~cleaning' \/ res' \subseteq lost' \cup Allowed
      BY <1>4, <1>5, <1>6, <1>8, <2>1 DEF TrackedOK
    <2>3. QED BY <1>1, <1>3, <1>6, <2>1, <2>2, FinishedEnds
  <1>9. CASE hook # "cleanup"
             /\ EnterCleanup("error", IF hook = "rescue" THEN lost \cup Owed ELSE lost)
    <2> DEFINE l == IF hook = "rescue" THEN lost \cup Owed ELSE lost
    <2>1. lost \subseteq l /\ l \subseteq Resource
      BY DEF TypeOK, Owed
    <2>2. EnterCleanup("error", l)
      BY <1>9
    <2> HIDE DEF l
    <2>3. QED BY <1>1, <1>3, <1>4, <1>5, <1>6, <1>9, <2>1, <2>2, FinishedCleanup
  <1>10. QED BY <1>2, <1>7, <1>8, <1>9 DEF Raise

\* The end of hook_cleanup().
LEMMA FinishedCleanupEnds ==
    ASSUME TypeOK, Known, Finished, EndCleanup
    PROVE  Finished'
  <1>1. /\ HookEnd /\ hook = "cleanup" /\ cleaning' = FALSE
        /\ UNCHANGED <<backend, lost>>
        /\ res' = res \ {"tmp"} /\ orphans' = orphans \cup (res \cap {"tmp"})
        /\ at' # "hook"
    BY DEF EndCleanup, Cleaned, Ends
  <1>2. res \subseteq lost \cup Allowed
    BY <1>1, NothingOwed, OwedCovers DEF HookEnd
  <1>3. "tmp" \notin Allowed /\ "tmp" \in Shrugged
    BY DEF Allowed, Shrugged
  <1>4. orphans' \subseteq lost \cap Shrugged
    BY <1>1, <1>2, <1>3 DEF Finished, TrackedOK
  <1>5. QED BY <1>1, <1>2, <1>4, SameBackend DEF Finished, TrackedOK, RemovedOK, LeftOK

LEMMA FinishedKilled ==
    ASSUME TypeOK, Consistent, Known, Finished, at # "exited", Deliver, ~handlers
    PROVE  Finished'
  <1>1. /\ UNCHANGED <<backend, res, orphans, downtmp_open, cleaning>> /\ at' = "exited"
        /\ lost' = IF at = "hook" /\ hook = "cleanup" THEN lost \cup Owed
                   ELSE IF at = "hook" \/ Opened THEN Resource ELSE lost
    BY DEF Deliver, EnterCleanup, Ends, testbed
  <1>2. TrackedOK /\ res \subseteq Resource /\ lost \subseteq Resource
    BY DEF Finished, TypeOK
  <1>3. res' \subseteq All(backend) \cup Tar(backend)
    BY <1>1, <1>2 DEF TrackedOK
  <1>4. CASE at = "hook" /\ hook = "cleanup"
    <2>1. res' \subseteq lost' \cup Allowed
      BY <1>1, <1>4, OwedCovers
    <2>2. QED BY <1>1, <1>2, <1>3, <1>4, <2>1, FinishedEnds
  <1>5. CASE ~(at = "hook" /\ hook = "cleanup") /\ (at = "hook" \/ Opened)
    <2>1. lost' = Resource
      BY <1>1, <1>5
    <2>2. QED BY <1>1, <1>2, <1>3, <2>1, FinishedEnds
  <1>6. CASE at # "hook" /\ ~Opened
    <2>1. at \in {"read", "copy", "reply"} /\ ~cleaning
      BY <1>6 DEF TypeOK, Consistent, CleaningOK
    <2>2. res \subseteq Unopened
      BY <1>6, <2>1 DEF Known, IdleOK
    <2>3. Unopened' = Unopened
      BY <1>1 DEF Unopened, Stays, All, Frame, MadeBy, StepsOf, Makes
    <2>4. QED BY <1>1, <1>2, <1>3, <1>6, <2>1, <2>2, <2>3, FinishedEnds
  <1>7. QED BY <1>4, <1>5, <1>6

LEMMA FinishedRest ==
    ASSUME TypeOK, Consistent, Known, Finished,
           \/ \E c \in Command : Send(c)
           \/ CallerExits \/ UNCHANGED vars \/ Copy \/ Signal \/ BrokenPipe
           \/ ReadIllegal \/ ReadHookCommand \/ ReadClose \/ ReadQuit \/ ReadPlain
           \/ PrintReply \/ EndOpenOrRevert \/ EndTmp \/ EndReboot \/ EndRescue
    PROVE  Finished'
  <1>1. CASE (\E c \in Command : Send(c)) \/ CallerExits \/ UNCHANGED vars
    <2>1. UNCHANGED <<backend, at, hook, pos, downtmp, downtmp_open, cleaning, res, orphans, lost>>
      BY <1>1 DEF Send, CallerExits, vars, run, globals, testbed
    <2>2. Unopened' = Unopened
      BY <2>1 DEF Unopened, Stays, All, Frame, MadeBy, StepsOf, Makes
    <2>3. QED BY <2>1, <2>2, SameBackend DEF Finished, TrackedOK, RemovedOK, LeftOK, Opened
  <1>2. ASSUME NEW w, EnterCleanup(w, lost), UNCHANGED <<backend, downtmp_open, res, orphans>>,
               at # "exited", ~(at = "hook" /\ hook = "cleanup")
        PROVE  Finished'
    <2>1. TrackedOK /\ lost \subseteq Resource
      BY DEF Finished, TypeOK
    <2>2. res' \subseteq All(backend) \cup Tar(backend)
      BY <1>2, <2>1 DEF TrackedOK
    <2>3. QED BY <1>2, <2>1, <2>2, FinishedCleanup
  <1>3. ASSUME UNCHANGED <<backend, cleaning, res, orphans, lost>>, ~cleaning,
               at' # "exited", ~(at' = "hook" /\ hook' = "cleanup")
        PROVE  Finished'
    <2>1. TrackedOK
      BY DEF Finished
    <2>2. res' \subseteq All(backend) \cup Tar(backend)
      BY <1>3, <2>1 DEF TrackedOK
    <2>3. QED BY <1>3, <2>1, <2>2, FinishedEnds
  <1>4. CASE Copy
    <2>1. at = "copy" /\ ~cleaning /\ UNCHANGED <<backend, downtmp_open, res, orphans>>
      BY <1>4 DEF Copy, Consistent, CleaningOK, testbed
    <2>2. QED BY <1>2, <1>3, <1>4, <2>1 DEF Copy, globals
  <1>5. CASE Signal \/ BrokenPipe
    <2>1. Deliver /\ at # "exited"
      BY <1>5 DEF Signal, BrokenPipe
    <2>2. UNCHANGED <<backend, downtmp_open, res, orphans>>
      BY <2>1 DEF Deliver, testbed
    <2>3. CASE handlers
      <3>1. ~(at = "hook" /\ hook = "cleanup")
        BY <2>3 DEF Consistent, CleaningOK
      <3>2. EnterCleanup("signal", lost)
        BY <2>1, <2>3 DEF Deliver
      <3>3. QED BY <1>2, <2>1, <2>2, <3>1, <3>2
    <2>4. QED BY <2>1, <2>3, FinishedKilled
  <1>6. CASE ReadIllegal \/ ReadClose \/ ReadQuit \/ EndRescue
    BY <1>2, <1>6 DEF ReadIllegal, ReadClose, ReadQuit, EndRescue, Reading, HookEnd, testbed
  <1>7. CASE ReadPlain \/ PrintReply \/ EndReboot \/ ReadHookCommand \/ EndOpenOrRevert
    <2>1. ~cleaning /\ UNCHANGED <<backend, cleaning, res, orphans, lost>>
      BY <1>7 DEF ReadPlain, Reading, PrintReply, EndReboot, ReadHookCommand, EndOpenOrRevert,
                  HookEnd, globals, testbed, Consistent, CleaningOK
    <2>2. at' # "exited" /\ ~(at' = "hook" /\ hook' = "cleanup")
      BY <1>7 DEF ReadPlain, PrintReply, EndReboot, ReadHookCommand, EndOpenOrRevert, EnterHook
    <2>3. QED BY <1>3, <2>1, <2>2
  <1>8. CASE EndTmp
    <2>1. /\ HookEnd /\ hook = "tmp" /\ at' = "reply"
          /\ UNCHANGED <<backend, res, orphans, lost, cleaning>>
      BY <1>8, TmpEnds
    <2>2. ~cleaning
      BY <2>1 DEF HookEnd, Consistent, CleaningOK
    <2>3. QED BY <1>3, <2>1, <2>2
  <1>9. QED BY <1>1, <1>4, <1>5, <1>6, <1>7, <1>8

LEMMA InitFinished == Init => Finished
  BY DEF Init, Finished, TrackedOK, RemovedOK, LeftOK, All, Frame

LEMMA NextFinished ==
    ASSUME TypeOK, Consistent, Known, Finished, [Next]_vars
    PROVE  Finished'
  BY FinishedStep, FinishedRaise, FinishedCleanupEnds, FinishedRest
  DEF Next, HookStep, Serve, ReadEof, Done

LEMMA AlwaysFinished == Spec => []Finished
  BY InitFinished, NextFinished, TypeCorrect, GlobalsConsistent, AlwaysKnown, PTL DEF Spec

\* Between two commands the server knows what there is, after any number of
\* reverts, reboots and closes, but for what a step whose failure the backend
\* passes over has failed to remove, if each hook keeps its contracts.
THEOREM TestbedKnown == Spec => []KnownWhenIdle
  <1>1. TypeOK /\ Known /\ Finished => KnownWhenIdle
    BY WholeIsAll DEF Known, IdleOK, Unopened, Finished, TrackedOK, KnownWhenIdle
  <1>2. QED BY <1>1, TypeCorrect, AlwaysKnown, AlwaysFinished, PTL
-----------------------------------------------------------------------------
(* A failed hook_open() or hook_revert() of qemu or ssh leaves no testbed. *)

\* AbsentOK: what qemu and ssh know of the testbed wherever an exception may come.
AbsentOK ==
    backend \in Guarded =>
        /\ at \in {"read", "copy", "reply"} => hook \notin {"open", "revert", "rescue"}
        /\ at = "hook" /\ hook \in {"open", "revert"} /\ Absent(backend, hook, pos)
              => "inst" \notin res
        /\ at = "hook" /\ hook = "revert"
              /\ (\A j \in StepsOf(backend, hook) : j < pos => ~Forgets(backend, hook, j))
              => Opened
        /\ at = "hook" /\ hook = "rescue" /\ "inst" \notin lost =>
              \A j \in StepsOf(backend, hook) :
                 j < pos /\ Loses(backend, hook, j, "inst") => "inst" \notin res

Rescued == AbsentOK /\ GuardedOpenRescued

LEMMA RescuedStep ==
    ASSUME TypeOK, Rescued, StepOk \/ StepSkip
    PROVE  Rescued'
  <1>1. /\ at = "hook" /\ pos \in StepsOf(backend, hook) /\ pos' = pos + 1
        /\ UNCHANGED <<backend, at, hook>>
        /\ Current = Hooks[backend][hook][pos]
        /\ \A x \in res' : x \in res \/ (StepOk /\ Makes(backend, hook, pos, x))
        /\ \A x \in res' : ~Loses(backend, hook, pos, x)
    BY StepChanges
  <1>2. GuardedOpenRescued'
    BY <1>1 DEF GuardedOpenRescued
  <1> SUFFICES ASSUME backend \in Guarded, hook \in {"open", "revert", "rescue"}
               PROVE  AbsentOK'
    BY <1>1, <1>2 DEF Rescued, AbsentOK
  <1>3. backend \in Backend \cap Guarded
    BY DEF TypeOK
  <1>4. \A j \in StepsOf(backend, hook) : j < pos + 1 <=> j < pos \/ j = pos
    BY <1>1 DEF StepsOf
  <1>5. ASSUME hook \in {"open", "revert"}, Absent(backend, hook, pos + 1), "inst" \in res'
        PROVE  FALSE
    <2>1. ~Makes(backend, hook, pos, "inst")
      <3>1. \A i \in StepsOf(backend, hook) : ~(pos < i /\ i < pos + 1)
        BY <1>1 DEF StepsOf
      <3>2. pos < pos + 1
        BY <1>1, <1>4
      <3>3. QED BY <1>1, <1>5, <3>1, <3>2 DEF Absent
    <2>2. "inst" \in res /\ ~Loses(backend, hook, pos, "inst")
      BY <1>1, <1>5, <2>1
    <2>3. Absent(backend, hook, pos)
      BY <1>4, <1>5, <2>2 DEF Absent
    <2>4. QED BY <1>1, <1>5, <2>2, <2>3 DEF Rescued, AbsentOK
  <1>6. ASSUME hook = "revert",
               \A j \in StepsOf(backend, hook) : j < pos + 1 => ~Forgets(backend, hook, j)
        PROVE  Opened'
    <2>1. Opened
      BY <1>1, <1>4, <1>6 DEF Rescued, AbsentOK
    <2>2. ~Forgets(backend, hook, pos)
      BY <1>1, <1>4, <1>6
    <2>3. downtmp' = downtmp
      BY <1>1, <2>2, StepForgets DEF Forgets
    <2>4. QED BY <2>1, <2>3 DEF Opened
  <1>7. ASSUME hook = "rescue", "inst" \notin lost',
               NEW j \in StepsOf(backend, hook), j < pos + 1, Loses(backend, hook, j, "inst")
        PROVE  "inst" \notin res'
    <2>1. "inst" \notin lost
      BY <1>7, StepLeaves
    <2>2. ~Makes(backend, hook, pos, "inst")
      BY <1>1, <1>3, <1>7, CleanupContract DEF Makes
    <2>3. CASE j < pos
      BY <1>1, <1>7, <2>1, <2>2, <2>3 DEF Rescued, AbsentOK
    <2>4. CASE j = pos
      BY <1>1, <1>7, <2>4
    <2>5. QED BY <1>4, <1>7, <2>3, <2>4
  <1>8. QED BY <1>1, <1>2, <1>5, <1>6, <1>7 DEF Rescued, AbsentOK

\* A hook that begins has not removed anything yet.
LEMMA NothingBefore == \A b, h : \A j \in StepsOf(b, h) : ~(j < 1)
  BY DEF StepsOf

\* cleanup() goes to hook_cleanup(), back to cmd_close() or out.
LEMMA RescuedCleanup ==
    ASSUME NEW w \in {"close", "quit", "error", "signal"}, NEW l, EnterCleanup(w, l),
           UNCHANGED backend, at' # "hook" => hook \notin {"open", "revert", "rescue"}
    PROVE  Rescued'
  <1>1. CASE at' = "hook" /\ hook' = "cleanup"
    BY <1>1 DEF Rescued, AbsentOK, GuardedOpenRescued
  <1>2. CASE at' # "hook" /\ hook' = hook
    BY <1>2 DEF Rescued, AbsentOK, GuardedOpenRescued
  <1>3. QED BY <1>1, <1>2 DEF EnterCleanup, Cleaned, Ends, EnterHook

LEMMA RescuedRaise ==
    ASSUME TypeOK, Consistent, Rescued, StepRaise
    PROVE  Rescued'
  <1>1. at = "hook" /\ pos \in StepsOf(backend, hook) /\ UNCHANGED backend
    BY RaiseChanges
  <1>2. PICK f \in Hooks[backend][hook][pos].fails \ {"skip"} :
          /\ Raise(f)
          /\ \A x \in res' : x \in res \/ (f # "refuse" /\ Makes(backend, hook, pos, x))
    BY RaiseChanges
  <1>3. CASE hook = "cleanup"
    <2>1. RaiseInCleanup
      BY <1>2, <1>3 DEF Raise
    <2>2. \/ at' = "hook" /\ hook' = "rescue" /\ pos' = 1
          \/ at' = "exited" /\ hook' = "cleanup"
      BY <1>3, <2>1 DEF RaiseInCleanup, EnterHook, Ends
    <2>3. QED BY <2>2, NothingBefore DEF Rescued, AbsentOK, GuardedOpenRescued
  <1>4. CASE EnterHook("rescue")
    BY <1>4, NothingBefore DEF EnterHook, Rescued, AbsentOK, GuardedOpenRescued
  <1>5. CASE /\ hook # "cleanup" /\ ~(hook \in {"open", "revert"} /\ f = "rescue")
             /\ EnterCleanup("error", IF hook = "rescue" THEN lost \cup Owed ELSE lost)
    <2>1. CASE at' = "hook"
      BY <1>1, <1>5, <2>1, RescuedCleanup
    <2>2. CASE hook \notin {"open", "revert", "rescue"}
      BY <1>1, <1>5, <2>2, RescuedCleanup
    <2>3. CASE at' # "hook" /\ hook \in {"open", "revert", "rescue"}
      <3>1. at' = "exited" /\ hook' = hook
        BY <1>5, <2>3 DEF EnterCleanup, Cleaned, Ends, EnterHook
      <3>2. ASSUME hook = "rescue", backend \in Guarded, "inst" \in res' PROVE "inst" \in lost'
        <4>1. backend \in Backend \cap Guarded
          BY <3>2 DEF TypeOK
        <4>2. lost \cup Owed \subseteq lost'
          BY <1>5, <3>2 DEF EnterCleanup, TypeOK, Owed
        <4>3. "inst" \in res
          BY <1>1, <1>2, <3>2, <4>1, CleanupContract DEF Makes
        <4>4. PICK k \in StepsOf(backend, "rescue") : Loses(backend, "rescue", k, "inst")
          BY <4>1, RescueContract
        <4>5. k < pos \/ k >= pos
          BY <1>1, <3>2 DEF StepsOf
        <4>6. CASE k < pos
          BY <1>1, <3>2, <4>2, <4>3, <4>4, <4>6 DEF Rescued, AbsentOK
        <4>7. CASE k >= pos
          BY <3>2, <4>2, <4>4, <4>7 DEF Owed, Loses, Program, StepsOf, Resource
        <4>8. QED BY <4>5, <4>6, <4>7
      <3>3. ASSUME hook \in {"open", "revert"}, backend \in Guarded PROVE "inst" \notin res'
        <4>1. backend \in Backend \cap Guarded
          BY <3>3 DEF TypeOK
        <4>2. f \in Uncaught(backend, hook, pos)
          BY <1>2, <1>5, <3>3 DEF Uncaught
        <4>3. ~cleaning
          BY <1>1, <3>3 DEF Consistent, CleaningOK
        <4>4. ~Opened
          BY <1>5, <2>3, <4>3 DEF EnterCleanup, EnterHook
        <4>5. /\ Absent(backend, hook, pos)
              /\ Makes(backend, hook, pos, "inst") => Uncaught(backend, hook, pos) \subseteq {"refuse"}
          BY <1>1, <3>3, <4>1, <4>2, <4>4, RescueContract DEF Rescued, AbsentOK
        <4>6. "inst" \notin res
          BY <1>1, <3>3, <4>5 DEF Rescued, AbsentOK
        <4>7. QED BY <1>2, <4>2, <4>5, <4>6
      <3>4. QED BY <1>1, <2>3, <3>1, <3>2, <3>3 DEF Rescued, AbsentOK, GuardedOpenRescued
    <2>4. QED BY <2>1, <2>2, <2>3
  <1>6. QED BY <1>2, <1>3, <1>4, <1>5 DEF Raise

\* The except block has removed the testbed by the time it raises again.
LEMMA RescuedRescueEnds ==
    ASSUME TypeOK, Rescued, EndRescue
    PROVE  Rescued'
  <1>1. HookEnd /\ hook = "rescue" /\ EnterCleanup("error", lost) /\ UNCHANGED <<backend, res>>
    BY DEF EndRescue, testbed
  <1>2. CASE at' = "hook"
    BY <1>1, <1>2, RescuedCleanup
  <1>3. CASE at' # "hook"
    <2>1. at' = "exited" /\ hook' = hook
      BY <1>1, <1>3 DEF EnterCleanup, Cleaned, Ends, EnterHook
    <2>2. "inst" \notin lost' => "inst" \notin lost
      BY <1>1 DEF EnterCleanup, Resource
    <2>3. backend \in Guarded /\ "inst" \notin lost => "inst" \notin res
      BY <1>1, NothingDue, RescueContract DEF TypeOK, Rescued, AbsentOK
    <2>4. QED BY <1>1, <2>1, <2>2, <2>3 DEF Rescued, AbsentOK, GuardedOpenRescued
  <1>4. QED BY <1>2, <1>3

LEMMA RescuedReadHook ==
    ASSUME TypeOK, Known, Rescued, ReadHookCommand
    PROVE  Rescued'
  <1>1. /\ at = "read" /\ ~Illegal(cmd) /\ cmd \in {"open", "revert", "reboot"}
        /\ at' = "hook" /\ hook' = cmd /\ pos' = 1 /\ UNCHANGED <<backend, res, downtmp>>
    BY DEF ReadHookCommand, Reading, EnterHook, testbed, globals
  <1>2. GuardedOpenRescued'
    BY <1>1 DEF GuardedOpenRescued
  <1>3. cmd = "open" /\ backend \in Guarded => "inst" \notin res
    BY <1>1, RescueContract DEF Illegal, Known, IdleOK, Unopened, Stays, TypeOK
  <1>4. cmd = "revert" => Opened /\ ~Absent(backend, "revert", 1)
    BY <1>1, NothingBefore DEF Illegal, NeedsOpen, Absent
  <1>5. QED BY <1>1, <1>2, <1>3, <1>4 DEF Rescued, AbsentOK, Opened

LEMMA RescuedRest ==
    ASSUME TypeOK, Consistent, Rescued,
           \/ \E c \in Command : Send(c)
           \/ CallerExits \/ UNCHANGED vars \/ Copy \/ Deliver
           \/ ReadIllegal \/ ReadClose \/ ReadQuit \/ ReadPlain
           \/ PrintReply \/ EndOpenOrRevert \/ EndTmp \/ EndReboot \/ EndCleanup
    PROVE  Rescued'
  <1>1. CASE (\E c \in Command : Send(c)) \/ CallerExits \/ UNCHANGED vars
    <2>1. UNCHANGED <<backend, at, hook, pos, downtmp, res, lost, exit>>
      BY <1>1 DEF Send, CallerExits, vars, run, globals, testbed
    <2>2. QED BY <2>1 DEF Rescued, AbsentOK, GuardedOpenRescued, Opened
  <1>2. ASSUME at \in {"read", "copy", "reply"}, at' \in {"read", "copy", "reply"},
               UNCHANGED <<backend, hook>>
        PROVE  Rescued'
    BY <1>2 DEF Rescued, AbsentOK, GuardedOpenRescued
  <1>3. ASSUME NEW w \in {"close", "quit", "error", "signal"}, EnterCleanup(w, lost),
               UNCHANGED backend, at \in {"read", "copy", "reply"}
        PROVE  Rescued'
    <2>1. CASE backend \in Guarded
      BY <1>3, <2>1, RescuedCleanup DEF Rescued, AbsentOK
    <2>2. CASE backend \notin Guarded
      BY <1>3, <2>2 DEF Rescued, AbsentOK, GuardedOpenRescued
    <2>3. QED BY <2>1, <2>2
  <1>4. CASE Copy
    BY <1>2, <1>3, <1>4 DEF Copy
  <1>5. CASE ReadIllegal \/ ReadClose \/ ReadQuit
    BY <1>3, <1>5 DEF ReadIllegal, ReadClose, ReadQuit, Reading
  <1>6. CASE ReadPlain \/ PrintReply
    BY <1>2, <1>6 DEF ReadPlain, Reading, PrintReply
  <1>7. CASE Deliver
    <2>1. UNCHANGED backend
      BY <1>7 DEF Deliver
    <2>2. CASE at' = "exited" /\ exit' = "signal"
      BY <2>2 DEF Rescued, AbsentOK, GuardedOpenRescued
    <2>3. CASE at' = "hook" /\ hook' = "cleanup"
      BY <2>3 DEF Rescued, AbsentOK, GuardedOpenRescued
    <2>4. QED BY <1>7, <2>2, <2>3 DEF Deliver, EnterCleanup, Cleaned, Ends, EnterHook
  <1>8. CASE EndOpenOrRevert
    BY <1>8 DEF EndOpenOrRevert, EnterHook, Rescued, AbsentOK, GuardedOpenRescued
  <1>9. CASE EndTmp
    BY <1>9, TmpEnds DEF Rescued, AbsentOK, GuardedOpenRescued
  <1>10. CASE EndReboot
    BY <1>10 DEF EndReboot, Rescued, AbsentOK, GuardedOpenRescued
  <1>11. CASE EndCleanup
    BY <1>11 DEF EndCleanup, Cleaned, Ends, Rescued, AbsentOK, GuardedOpenRescued
  <1>12. QED BY <1>1, <1>4, <1>5, <1>6, <1>7, <1>8, <1>9, <1>10, <1>11

LEMMA InitRescued == Init => Rescued
  BY DEF Init, Rescued, AbsentOK, GuardedOpenRescued

LEMMA NextRescued ==
    ASSUME TypeOK, Consistent, Known, Rescued, [Next]_vars
    PROVE  Rescued'
  BY RescuedStep, RescuedRaise, RescuedRescueEnds, RescuedReadHook, RescuedRest
  DEF Next, HookStep, Serve, ReadEof, Signal, BrokenPipe, Done

\* However commands, failures and signals fall between the steps of the hooks:
\* hook_cleanup() does not run for a testbed that is gone already, a server leaves
\* nothing that it has not, part by part, failed to remove or been kept from
\* removing, and what hook_open() of qemu or ssh has begun is undone, if each hook
\* keeps its contracts.
THEOREM ServerCleansUp == Spec => []CleanedUp
  <1>1. TypeOK /\ Secured => NoSecondCleanup
    BY WholeIsAll DEF Secured, FirstOK, NoSecondCleanup
  <1>2. TypeOK /\ Finished => CompleteCleanup
    BY WholeIsAll DEF Finished, LeftOK, Allowed, Unopened, Stays, CompleteCleanup
  <1>3. Rescued => GuardedOpenRescued
    BY DEF Rescued
  <1>4. Spec => [](Secured /\ Rescued)
    <2>1. Init => Secured /\ Rescued
      BY InitSecured, InitRescued
    <2>2. /\ TypeOK /\ Consistent /\ Known /\ Secured /\ Rescued
          /\ [Next]_vars
          => (Secured /\ Rescued)'
      BY NextSecured, NextRescued
    <2>3. QED BY <2>1, <2>2, TypeCorrect, GlobalsConsistent, AlwaysKnown, PTL DEF Spec
  <1>5. QED BY <1>1, <1>2, <1>3, <1>4, AlwaysFinished, TypeCorrect, PTL DEF CleanedUp
=============================================================================
