--------------------------- MODULE InTestbedProofs --------------------------
(***************************************************************************)
(* Proofs about the scripts of lib/in-testbed.                             *)
(*                                                                         *)
(* The reboot handshake, for any marks, any number of tests, any of the    *)
(* backends and anything out of order that the properties allow.  The      *)
(* invariant has two halves.  Held is about files and commands, and holds  *)
(* unless a container may be resumed before it has stopped.  Marked is     *)
(* about the marks, and holds in an orderly run.  TLC finds a              *)
(* counterexample to either without its condition.  That a server sees a   *)
(* reboot that has come about needs a third, Waiting, which holds whatever *)
(* is out of order and says how far the testbed has got ahead.             *)
(*                                                                         *)
(* wrapper.sh, for any number of tests, any users and any process numbers: *)
(* what one test leaves behind does no harm to the next, and a wrapper     *)
(* hunts only its own.                                                     *)
(***************************************************************************)
EXTENDS RebootHandshake, Wrapper, TLAPS


Types ==
    /\ runner \in {"between", "start", "exec", "killed", "reboot", "judged",
                   "over", "failed"}
    /\ pid \in {"none", "runs", "marked", "prepares", "waits", "goes on"}
    /\ server \in {"idle", "save", "unmark", "prepare", "order", "wait",
                   "restore", "ok", "failed"}
    /\ asked \in File

\* Who may be at what, while the runner is where it is.
Places ==
    /\ runner \in {"between", "start", "exec", "killed", "judged", "over"}
          => server = "idle"
    /\ runner = "failed" => server \in {"idle", "ok", "failed"}
    /\ runner = "reboot" => server # "idle"
    /\ runner \in {"between", "start", "judged", "over", "failed"} => pid = "none"
    /\ runner = "exec" => pid \in {"runs", "marked", "prepares"}
    /\ runner = "killed" => pid \in {"none", "waits"}
    /\ runner = "reboot" => pid \in {"none", "waits", "goes on"}

\* What the test leaves before the runner turns to it.
Leaving ==
    /\ runner \in {"exec", "killed"} =>
          ~rebooted /\ (asked # NoMark => downtmp = asked)
    /\ runner \notin {"reboot", "failed"} => up
    /\ pid = "prepares" \/ (pid = "waits" /\ server \in {"idle", "save", "unmark"})
          => prepare_mark # NoMark

\* How far a reboot has got.
Rebooting ==
    runner = "reboot" =>
        /\ ~up \/ rebooted => pid = "none"
        /\ server \in {"save", "unmark"} => up /\ ~rebooted /\ pid # "goes on"
        /\ server = "save" /\ asked # NoMark => downtmp = asked
        /\ server \in {"unmark", "prepare", "order", "wait", "restore"}
              /\ asked # NoMark => tar = asked
        /\ server \in {"order", "wait"} /\ seen => ~up \/ rebooted
        /\ server \in {"restore", "ok"} => up /\ rebooted
        /\ server = "ok" /\ asked # NoMark => downtmp = asked

Starting ==
    /\ runner \in {"between", "over"} => asked = NoMark
    /\ runner = "start" /\ asked # NoMark => downtmp = asked
    /\ runner \notin {"reboot", "failed"} => scripts

Held == Types /\ Places /\ Leaving /\ Rebooting /\ Starting

Settled == "slow stop" \notin perils

USE DEF chosen, loop, process, command, testbed

LEMMA RunnerHolds == ASSUME Settled, Held, Runner PROVE Held'
<1>1. CASE NextTest
  BY <1>1 DEF Held, Types, Places, Leaving, Rebooting, Starting, NextTest
<1>2. CASE Execute
  BY <1>2 DEF Held, Types, Places, Leaving, Rebooting, Starting, Execute, File
<1>3. CASE TimesOut
  BY <1>3 DEF Held, Types, Places, Leaving, Rebooting, Starting, TimesOut
<1>4. CASE LookReboot
  BY <1>4 DEF Held, Types, Places, Leaving, Rebooting, Starting, LookReboot
<1>5. CASE LookPrepare
  BY <1>5 DEF Held, Types, Places, Leaving, Rebooting, Starting, LookPrepare
<1>6. CASE LookFails
  BY <1>6 DEF Held, Types, Places, Leaving, Rebooting, Starting, LookFails
<1>7. CASE PostBootSetup
  BY <1>7 DEF Held, Types, Places, Leaving, Rebooting, Starting, PostBootSetup
<1>8. CASE Fails
  BY <1>8 DEF Held, Types, Places, Leaving, Rebooting, Starting, Fails
<1>9. CASE Report
  BY <1>9 DEF Held, Types, Places, Leaving, Rebooting, Starting, Report, File
<1> QED
  BY <1>1, <1>2, <1>3, <1>4, <1>5, <1>6, <1>7, <1>8, <1>9 DEF Runner

LEMMA TestHolds == ASSUME Settled, Held, Test PROVE Held'
<1>1. ASSUME NEW m \in Asked, AskReboot(m) PROVE Held'
  BY <1>1 DEF Held, Types, Places, Leaving, Rebooting, Starting, AskReboot, File
<1>2. ASSUME NEW m \in Asked, AskPrepare(m) PROVE Held'
  <2>1. m # NoMark
    BY MarksAssumption DEF Asked
  <2> QED
    BY <1>2, <2>1
    DEF Held, Types, Places, Leaving, Rebooting, Starting, AskPrepare, File
<1>3. CASE Killed
  BY <1>3 DEF Held, Types, Places, Leaving, Rebooting, Starting, Killed
<1>4. CASE KillWrapper
  BY <1>4 DEF Held, Types, Places, Leaving, Rebooting, Starting, KillWrapper
<1>5. CASE Prepared
  BY <1>5 DEF Held, Types, Places, Leaving, Rebooting, Starting, Prepared
<1>6. CASE ScriptFails
  BY <1>6 DEF Held, Types, Places, Leaving, Rebooting, Starting, ScriptFails
<1>7. CASE Exits
  BY <1>7 DEF Held, Types, Places, Leaving, Rebooting, Starting, Exits
<1> QED
  BY <1>1, <1>2, <1>3, <1>4, <1>5, <1>6, <1>7 DEF Test

LEMMA TestbedHolds == ASSUME Settled, Held, Down \/ Up PROVE Held'
<1>1. CASE Down
  BY <1>1 DEF Held, Types, Places, Leaving, Rebooting, Starting, Down
<1>2. CASE Up
  BY <1>2 DEF Held, Types, Places, Leaving, Rebooting, Starting, Up
<1> QED
  BY <1>1, <1>2

LEMMA ServerHolds == ASSUME Settled, Held, Server PROVE Held'
<1>1. CASE Save
  BY <1>1 DEF Held, Types, Places, Leaving, Rebooting, Starting, Save
<1>2. CASE PrepareReboot
  BY <1>2 DEF Held, Types, Places, Leaving, Rebooting, Starting, PrepareReboot
<1>3. CASE Order
  BY <1>3 DEF Held, Types, Places, Leaving, Rebooting, Starting, Order
<1>4. CASE StopWaitTimesOut
  BY <1>4 DEF Settled, Held, Types, Places, Leaving, Rebooting, Starting, StopWaitTimesOut
<1>5. CASE WaitReboot
  BY <1>5 DEF Held, Types, Places, Leaving, Rebooting, Starting, WaitReboot, BackAgain
<1>6. CASE GiveUp
  BY <1>6 DEF Held, Types, Places, Leaving, Rebooting, Starting, GiveUp
<1>7. CASE Restore
  BY <1>7 DEF Held, Types, Places, Leaving, Rebooting, Starting, Restore
<1>8. CASE ServerFails
  BY <1>8 DEF Held, Types, Places, Leaving, Rebooting, Starting, ServerFails
<1> QED
  BY <1>1, <1>2, <1>3, <1>4, <1>5, <1>6, <1>7, <1>8 DEF Server

\* perils is chosen once.
LEMMA PerilsStay == [Next]_vars => UNCHANGED perils
<1>1. Runner => UNCHANGED perils
  BY DEF Runner, NextTest, Execute, TimesOut, LookReboot, LookPrepare, LookFails,
         PostBootSetup, Fails, Report
<1>2. Test => UNCHANGED perils
  BY DEF Test, AskReboot, Killed, AskPrepare, KillWrapper, Prepared, ScriptFails,
         Exits
<1>3. Server => UNCHANGED perils
  BY DEF Server, Save, PrepareReboot, Order, StopWaitTimesOut, WaitReboot, GiveUp,
         Restore, ServerFails
<1> QED
  BY <1>1, <1>2, <1>3 DEF Next, Down, Up, Ended, vars

LEMMA HeldInductive == Spec => [](Settled => Held)
<1>1. Init => Held
  <2> SUFFICES ASSUME Init PROVE Held
    OBVIOUS
  <2>1. Types /\ Places
    BY DEF Init, Types, Places, File
  <2>2. Leaving /\ Rebooting /\ Starting
    BY DEF Init, Leaving, Rebooting, Starting
  <2> QED
    BY <2>1, <2>2 DEF Held
<1>2. ASSUME Settled => Held, [Next]_vars PROVE (Settled => Held)'
  <2> SUFFICES ASSUME Settled, Held PROVE Held'
    BY <1>2, PerilsStay DEF Settled
  <2>1. CASE UNCHANGED vars
    BY <2>1 DEF vars, Held, Types, Places, Leaving, Rebooting, Starting
  <2> QED
    BY <1>2, <2>1, RunnerHolds, TestHolds, TestbedHolds, ServerHolds DEF Next, Ended
<1> QED
  BY <1>1, <1>2, PTL DEF Spec

-----------------------------------------------------------------------------
(* The marks of an orderly run.                                            *)

Marked ==
    /\ asked \in Marks \cup {NoMark}
    /\ runner = "start" \/ (runner = "reboot" /\ (~up \/ rebooted)) =>
          mark = NoMark /\ prepare_mark = NoMark
    /\ pid = "runs" => asked = NoMark /\ mark = NoMark /\ prepare_mark = NoMark
    /\ pid = "marked" => asked # NoMark /\ mark = asked /\ prepare_mark = NoMark
    /\ pid \in {"prepares", "waits"} => asked # NoMark /\ mark = NoMark
    /\ runner \in {"exec", "killed"} /\ mark # NoMark => mark = asked
    /\ runner \in {"exec", "killed"} /\ prepare_mark # NoMark => prepare_mark = asked
    /\ runner = "reboot" => asked # NoMark /\ last_reboot_marker = asked
    /\ runner = "start" /\ asked = NoMark => last_reboot_marker = NoMark
    /\ runner = "start" /\ asked # NoMark =>
          rebooted /\ last_reboot_marker = asked

LEMMA RunnerMarks ==
    ASSUME Orderly, Held, Marked, Runner
    PROVE  Marked'
<1>0. "shared testbed" \notin perils
  BY DEF Orderly
<1>1. CASE NextTest
  BY <1>0, <1>1 DEF Held, Places, Starting, Marked, NextTest
<1>2. CASE Execute
  BY <1>2 DEF Held, Marked, Execute
<1>3. CASE TimesOut
  BY <1>3 DEF Held, Marked, TimesOut
<1>4. CASE LookReboot
  <2>1. mark = asked /\ mark # Blank
    BY <1>4, MarksAssumption DEF Marked, LookReboot
  <2> QED
    BY <1>4, <2>1 DEF Held, Places, Leaving, Marked, LookReboot, Strip
<1>5. CASE LookPrepare
  <2>1. prepare_mark = asked /\ prepare_mark # Blank
    BY <1>5, MarksAssumption DEF Marked, LookPrepare
  <2> QED
    BY <1>5, <2>1 DEF Held, Places, Leaving, Marked, LookPrepare, Strip
<1>6. CASE LookFails
  BY <1>6 DEF Held, Marked, LookFails
<1>7. CASE PostBootSetup
  BY <1>7 DEF Held, Places, Rebooting, Marked, PostBootSetup
<1>8. CASE Fails
  BY <1>8 DEF Held, Marked, Fails
<1>9. CASE Report
  BY <1>9 DEF Held, Places, Marked, Report
<1> QED
  BY <1>1, <1>2, <1>3, <1>4, <1>5, <1>6, <1>7, <1>8, <1>9 DEF Runner

LEMMA TestMarks ==
    ASSUME Orderly, Held, Marked, Test
    PROVE  Marked'
<1>1. ASSUME NEW m \in Asked, MayAsk(m) PROVE m \in Marks /\ m # NoMark
  BY <1>1, MarksAssumption DEF Orderly, MayAsk, Asked
<1>2. ASSUME NEW m \in Asked, AskReboot(m) PROVE Marked'
  BY <1>1, <1>2 DEF Held, Types, Places, Marked, AskReboot
<1>3. ASSUME NEW m \in Asked, AskPrepare(m) PROVE Marked'
  BY <1>1, <1>3 DEF Held, Types, Places, Marked, AskPrepare
<1>4. CASE Killed
  BY <1>4 DEF Held, Types, Places, Marked, Killed
<1>5. CASE KillWrapper
  BY <1>5 DEF Held, Types, Places, Marked, KillWrapper
<1>6. CASE Prepared
  BY <1>6 DEF Held, Types, Places, Marked, Prepared
<1>7. CASE ScriptFails
  BY <1>7 DEF Orderly, ScriptFails
<1>8. CASE Exits
  BY <1>8 DEF Held, Types, Places, Marked, Exits
<1> QED
  BY <1>2, <1>3, <1>4, <1>5, <1>6, <1>7, <1>8 DEF Test

LEMMA OthersMark ==
    ASSUME Held, Marked, Down \/ Up \/ Server
    PROVE  Marked'
<1>1. CASE Down
  BY <1>1 DEF Held, Types, Places, Marked, Down
<1>2. CASE Up
  BY <1>2 DEF Held, Types, Places, Leaving, Marked, Up
<1>3. CASE Save
  BY <1>3 DEF Held, Types, Places, Marked, Save
<1>4. CASE PrepareReboot
  BY <1>4 DEF Held, Places, Marked, PrepareReboot
<1>5. CASE Order
  BY <1>5 DEF Held, Places, Marked, Order
<1>6. CASE StopWaitTimesOut \/ WaitReboot \/ GiveUp
  <2>1. /\ server = "wait" /\ server' # "idle"
        /\ UNCHANGED <<runner, last_reboot_marker, pid, asked, up, rebooted, mark,
                       prepare_mark>>
    BY <1>6 DEF StopWaitTimesOut, WaitReboot, GiveUp
  <2> QED
    BY <2>1 DEF Marked
<1>7. CASE Restore
  BY <1>7 DEF Held, Places, Marked, Restore
<1>8. CASE ServerFails
  BY <1>8 DEF Held, Places, Marked, ServerFails
<1> QED
  BY <1>1, <1>2, <1>3, <1>4, <1>5, <1>6, <1>7, <1>8 DEF Server

LEMMA OrderlyIsSettled == Orderly => Settled
BY DEF Orderly, Settled

LEMMA MarkedInductive == Spec => [](Orderly => Held /\ Marked)
<1>1. Init => Marked
  BY DEF Init, Marked
<1>2. ASSUME Settled => Held, Orderly => Marked, [Next]_vars
      PROVE  (Orderly => Marked)'
  <2> SUFFICES ASSUME Orderly, Held, Marked PROVE Marked'
    BY <1>2, PerilsStay, OrderlyIsSettled DEF Orderly
  <2>1. CASE UNCHANGED vars
    BY <2>1 DEF vars, Marked
  <2> QED
    BY <1>2, <2>1, RunnerMarks, TestMarks, OthersMark DEF Next, Ended
<1>3. (Settled => Held) /\ (Orderly => Marked) => (Orderly => Held /\ Marked)
  BY OrderlyIsSettled
<1> QED
  BY <1>1, <1>2, <1>3, HeldInductive, PTL DEF Spec
-----------------------------------------------------------------------------
(* Types.                                                                  *)

\* TypeOK in three parts: the places are in Types, the marks and the rest here.
MarkTypes ==
    /\ last_reboot_marker \in Marks \cup {NoMark} /\ env_mark \in Marks \cup {NoMark}
    /\ mark \in File /\ prepare_mark \in File
    /\ downtmp \in File \cup {Lost} /\ tar \in File \cup {Lost}

OtherTypes ==
    /\ kind \in Kinds /\ perils \in Perils /\ tests \in 0..MaxTests
    /\ prepare_only \in BOOLEAN /\ initial_uptime \in {"none", "old", "new"}
    /\ seen \in BOOLEAN /\ up \in BOOLEAN /\ rebooted \in BOOLEAN /\ scripts \in BOOLEAN
    /\ hasty \in {"no", "down", "back"}

LEMMA ThreeParts == Types /\ MarkTypes /\ OtherTypes => TypeOK
BY Zenon DEF Types, MarkTypes, OtherTypes, TypeOK

\* There is another test to start.
MoreTests == runner = "between" => tests < MaxTests

Typed == Types /\ MarkTypes /\ OtherTypes /\ MoreTests

LEMMA StripsToMarks == \A m \in File : m # NoMark => Strip(m) \in Marks \cup {NoMark}
BY DEF File, Asked, Strip

LEMMA TypesStay == ASSUME Typed, Next PROVE Types'
<1>1. CASE Runner
  BY <1>1 DEF Typed, Types, Runner, NextTest, Execute, TimesOut, LookReboot, LookPrepare,
     LookFails, PostBootSetup, Fails, Report, File
<1>2. CASE Test
  BY <1>2 DEF Typed, Types, Test, AskReboot, AskPrepare, Killed, KillWrapper, Prepared,
     ScriptFails, Exits, File
<1>3. CASE Down \/ Up \/ Ended
  BY <1>3 DEF Typed, Types, Down, Up, Ended, vars
<1>4. CASE Server
  BY <1>4 DEF Typed, Types, Server, Save, PrepareReboot, Order, StopWaitTimesOut,
     WaitReboot, GiveUp, Restore, ServerFails
<1> QED
  BY <1>1, <1>2, <1>3, <1>4 DEF Next

LEMMA MarkTypesStay == ASSUME Typed, Next PROVE MarkTypes'
<1> NoMark \in File /\ Marks \subseteq File
  BY DEF File, Asked
<1> MarkTypes
  BY DEF Typed
<1>1. CASE NextTest \/ Execute \/ TimesOut \/ LookFails \/ PostBootSetup \/ Fails \/ Report
  BY <1>1 DEF MarkTypes, NextTest, Execute, TimesOut, LookFails, PostBootSetup, Fails,
     Report
<1>2. CASE LookReboot \/ LookPrepare
  <2>1. last_reboot_marker' \in Marks \cup {NoMark}
    BY <1>2, StripsToMarks DEF MarkTypes, LookReboot, LookPrepare
  <2> QED
    BY <1>2, <2>1 DEF MarkTypes, LookReboot, LookPrepare
<1>3. CASE Test
  BY <1>3 DEF MarkTypes, Test, AskReboot, AskPrepare, Killed, KillWrapper, Prepared,
     ScriptFails, Exits, File
<1>4. CASE Down \/ Up \/ Ended
  BY <1>4 DEF MarkTypes, Down, Up, Ended, vars
<1>5. CASE Server
  BY <1>5 DEF MarkTypes, Server, Save, PrepareReboot, Order, StopWaitTimesOut,
     WaitReboot, GiveUp, Restore, ServerFails
<1> QED
  BY <1>1, <1>2, <1>3, <1>4, <1>5 DEF Next, Runner

LEMMA OtherTypesStay == ASSUME Typed, Next PROVE OtherTypes' /\ MoreTests'
<1> OtherTypes /\ MoreTests
  BY DEF Typed
<1>0. MaxTests \in Nat \ {0} /\ tests \in Nat
  BY OptionsAssumption DEF OtherTypes
<1>1. CASE NextTest
  <2>1. tests' = tests + 1 /\ tests < MaxTests
    BY <1>1 DEF NextTest, MoreTests
  <2>2. tests' \in 0..MaxTests
    BY <1>0, <2>1
  <2> QED
    BY <1>1, <2>2 DEF NextTest, OtherTypes, MoreTests
<1>2. CASE Report
  BY <1>0, <1>2 DEF Report, OtherTypes, MoreTests
<1>3. CASE Execute \/ TimesOut \/ LookReboot \/ LookPrepare \/ LookFails \/ PostBootSetup
             \/ Fails
  BY <1>3 DEF Execute, TimesOut, LookReboot, LookPrepare, LookFails, PostBootSetup, Fails,
     OtherTypes, MoreTests
<1>4. CASE Test
  BY <1>4 DEF OtherTypes, MoreTests, Test, AskReboot, AskPrepare, Killed, KillWrapper,
     Prepared, ScriptFails, Exits
<1>5. CASE Down \/ Up \/ Ended
  BY <1>5 DEF OtherTypes, MoreTests, Down, Up, Ended, vars
<1>6. CASE Server
  BY <1>6 DEF OtherTypes, MoreTests, Server, Save, PrepareReboot, Uptime, Order,
     StopWaitTimesOut, WaitReboot, GiveUp, Restore, ServerFails
<1> QED
  BY <1>1, <1>2, <1>3, <1>4, <1>5, <1>6 DEF Next, Runner

LEMMA TypesInductive == Spec => []Typed
<1>1. Init => Typed
  <2> SUFFICES ASSUME Init PROVE Typed
    OBVIOUS
  <2>1. Types /\ MarkTypes
    BY DEF Init, Types, MarkTypes, File
  <2>2. tests = 0 /\ 0 \in 0..MaxTests /\ 0 < MaxTests
    BY OptionsAssumption DEF Init
  <2>3. OtherTypes /\ MoreTests
    BY <2>2 DEF Init, OtherTypes, MoreTests
  <2> QED
    BY <2>1, <2>3 DEF Typed
<1>2. Typed /\ [Next]_vars => Typed'
  <2>1. ASSUME UNCHANGED vars, Typed PROVE Typed'
    <3>1. Types' /\ MoreTests'
      BY <2>1 DEF vars, Typed, Types, MoreTests
    <3>2. MarkTypes'
      BY <2>1 DEF vars, Typed, MarkTypes
    <3>3. OtherTypes'
      BY <2>1 DEF vars, Typed, OtherTypes
    <3> QED
      BY <3>1, <3>2, <3>3 DEF Typed
  <2> QED
    BY <2>1, TypesStay, MarkTypesStay, OtherTypesStay DEF Typed
<1> QED
  BY <1>1, <1>2, PTL DEF Spec
-----------------------------------------------------------------------------
(* A server that waits sees the reboot.                                    *)

\* Whose turn it is, which holds whatever is out of order: a container that was
\* resumed too soon may leave a test that goes on, but none that can ask.
Turns ==
    /\ pid \in {"runs", "marked", "prepares"} => runner = "exec"
    /\ runner \in {"between", "start", "exec", "killed", "judged", "over"} => server = "idle"
    /\ runner = "reboot" => server # "idle"
    /\ runner = "failed" => server \in {"idle", "ok", "failed"}

\* Until the server waits, the testbed is that of the segment, or has got ahead.
StillOld ==
    runner \in {"exec", "killed"} \/ server \in {"save", "unmark", "prepare", "order"} =>
        /\ hasty = "no" => up /\ ~rebooted
        /\ hasty = "down" => ~up

\* What the server goes by, by the time the testbed is back.
HasSeen ==
    /\ server \in {"order", "wait"} /\ kind = "lxd" /\ hasty = "no"
          => initial_uptime = "old"
    /\ server = "wait" /\ kind = "ssh" /\ hasty # "back" /\ (~up \/ rebooted) => seen
    /\ server = "wait" /\ kind = "qemu" /\ hasty # "back" /\ up /\ rebooted => seen

Waiting == Turns /\ StillOld /\ HasSeen

LEMMA RunnerWaits == ASSUME Typed, Waiting, Runner PROVE Waiting'
<1>1. CASE NextTest
  BY <1>1 DEF NextTest, Waiting, Turns, StillOld, HasSeen
<1>2. CASE Execute
  BY <1>2 DEF Execute, Waiting, Turns, StillOld, HasSeen
<1>3. CASE TimesOut \/ LookFails
  BY <1>3 DEF TimesOut, LookFails, Waiting, Turns, StillOld, HasSeen
<1>4. CASE LookReboot \/ LookPrepare
  BY <1>4 DEF LookReboot, LookPrepare, Waiting, Turns, StillOld, HasSeen
<1>5. CASE PostBootSetup
  BY <1>5 DEF PostBootSetup, Waiting, Turns, StillOld, HasSeen
<1>6. CASE Fails
  BY <1>6 DEF Fails, Waiting, Turns, StillOld, HasSeen
<1>7. CASE Report
  BY <1>7 DEF Report, Waiting, Turns, StillOld, HasSeen
<1> QED
  BY <1>1, <1>2, <1>3, <1>4, <1>5, <1>6, <1>7 DEF Runner

LEMMA TestWaits == ASSUME Typed, Waiting, Test PROVE Waiting'
<1>1. ASSUME NEW m \in Asked, AskReboot(m) \/ AskPrepare(m) PROVE Waiting'
  BY <1>1 DEF AskReboot, AskPrepare, Waiting, Turns, StillOld, HasSeen
<1>2. CASE Killed \/ KillWrapper
  BY <1>2 DEF Killed, KillWrapper, Waiting, Turns, StillOld, HasSeen
<1>3. CASE Prepared
  BY <1>3 DEF Prepared, Waiting, Turns, StillOld, HasSeen
<1>4. CASE ScriptFails
  BY <1>4 DEF ScriptFails, Waiting, Turns, StillOld, HasSeen
<1>5. CASE Exits
  BY <1>5 DEF Exits, Waiting, Turns, StillOld, HasSeen
<1> QED
  BY <1>1, <1>2, <1>3, <1>4, <1>5 DEF Test

LEMMA OthersWait == ASSUME Typed, Waiting, Down \/ Up \/ Server PROVE Waiting'
<1>1. CASE Down
  <2>1. Turns' /\ StillOld'
    BY <1>1 DEF Down, Waiting, Turns, StillOld
  <2>2. HasSeen'
    BY <1>1 DEF Down, SeesDown, Waiting, HasSeen
  <2> QED
    BY <2>1, <2>2 DEF Waiting
<1>2. CASE Up
  BY <1>2 DEF Typed, OtherTypes, Up, Waiting, Turns, StillOld, HasSeen
<1>3. CASE Save
  BY <1>3 DEF Save, Waiting, Turns, StillOld, HasSeen
<1>4. CASE PrepareReboot
  <2>1. server = "prepare" /\ server' \in {"order", "wait"}
    BY <1>4 DEF PrepareReboot
  <2>2. UNCHANGED <<runner, pid, up, rebooted, hasty, kind>>
    BY <1>4 DEF PrepareReboot
  <2>3. Turns' /\ StillOld'
    BY <2>1, <2>2 DEF Waiting, Turns, StillOld
  <2>4. kind = "lxd" /\ hasty = "no" => initial_uptime' = "old"
    BY <1>4, <2>1 DEF PrepareReboot, Uptime, Waiting, StillOld
  <2>5. server' = "wait" /\ kind = "ssh" /\ ~up => seen'
    BY <1>4 DEF PrepareReboot, SeesDown
  <2>6. hasty # "back" => ~up \/ ~rebooted
    BY <2>1 DEF Typed, OtherTypes, Waiting, StillOld
  <2>7. hasty # "back" /\ rebooted => ~up
    BY <2>6
  <2>8. HasSeen'
    BY <2>1, <2>2, <2>4, <2>5, <2>7 DEF HasSeen
  <2> QED
    BY <2>3, <2>8 DEF Waiting
<1>5. CASE Order
  <2>1. server = "order" /\ server' = "wait"
    BY <1>5 DEF Order
  <2>2. UNCHANGED <<runner, pid, up, rebooted, hasty, kind, initial_uptime>>
    BY <1>5 DEF Order
  <2>3. Turns' /\ StillOld'
    BY <2>1, <2>2 DEF Waiting, Turns, StillOld
  <2>4. kind = "ssh" /\ ~up => seen'
    BY <1>5 DEF Order, SeesDown
  <2>5. hasty # "back" /\ rebooted => ~up
    BY <2>1 DEF Typed, OtherTypes, Waiting, StillOld
  <2>6. HasSeen'
    BY <2>1, <2>2, <2>4, <2>5 DEF Waiting, HasSeen
  <2> QED
    BY <2>3, <2>6 DEF Waiting
<1>6. CASE StopWaitTimesOut \/ WaitReboot \/ GiveUp
  BY <1>6 DEF StopWaitTimesOut, WaitReboot, GiveUp, BackAgain, Waiting, Turns,
              StillOld, HasSeen
<1>7. CASE Restore \/ ServerFails
  BY <1>7 DEF Restore, ServerFails, Waiting, Turns, StillOld, HasSeen
<1> QED
  BY <1>1, <1>2, <1>3, <1>4, <1>5, <1>6, <1>7 DEF Server

LEMMA WaitingInductive == Spec => []Waiting
<1>1. Init => Waiting
  BY DEF Init, Waiting, Turns, StillOld, HasSeen
<1>2. Typed /\ Waiting /\ [Next]_vars => Waiting'
  <2> SUFFICES ASSUME Typed, Waiting, [Next]_vars PROVE Waiting'
    OBVIOUS
  <2>1. CASE UNCHANGED vars
    BY <2>1 DEF vars, Waiting, Turns, StillOld, HasSeen
  <2> QED
    BY <2>1, RunnerWaits, TestWaits, OthersWait DEF Next, Ended
<1> QED
  BY <1>1, <1>2, TypesInductive, PTL DEF Spec

\* The two ways a server that waits comes to fail.
LEMMA OnlyGivesUp == [Next]_vars /\ server = "wait" /\ server' = "failed" => GiveUp
<1>1. Test \/ Down \/ Up \/ UNCHANGED vars => server' = server
  BY DEF Test, AskReboot, AskPrepare, Killed, KillWrapper, Prepared, ScriptFails, Exits,
     Down, Up, vars
<1>2. Runner => server' # "failed" \/ server' = server
  BY DEF Runner, NextTest, Execute, TimesOut, LookReboot, LookPrepare, LookFails,
     PostBootSetup, Fails, Report
<1>3. Server /\ server = "wait" /\ server' = "failed" => GiveUp
  BY DEF Server, Save, PrepareReboot, Order, StopWaitTimesOut, WaitReboot, Restore,
     ServerFails
<1> QED
  BY <1>1, <1>2, <1>3 DEF Next, Ended
-----------------------------------------------------------------------------
(* Every step is one of RebootSegments, or none.                           *)

Abstract == <<SegmentPhase, GivenMark, WantedMark>>

USE DEF SegmentPhase, GivenMark, WantedMark, PhaseOf

LEMMA RunnerSegments ==
    ASSUME Orderly, Orderly', Held, Marked, Runner
    PROVE  [Segments!Next]_Abstract
<1>1. CASE NextTest
  BY <1>1 DEF Marked, Starting, Held, NextTest, Abstract
<1>2. CASE Execute
  <2>1. asked = NoMark => Segments!Begin
    BY <1>2 DEF Marked, Execute, Segments!Begin
  <2>2. asked # NoMark => Segments!Resume
    BY <1>2 DEF Marked, Execute, Segments!Resume
  <2> QED
    BY <2>1, <2>2 DEF Segments!Next
<1>3. CASE TimesOut \/ LookFails \/ Fails
  <2>1. Segments!Finish
    BY <1>3 DEF TimesOut, LookFails, Fails, Segments!Finish
  <2> QED
    BY <2>1 DEF Segments!Next
<1>4. CASE LookReboot \/ LookPrepare
  <2>1. runner = "killed" /\ asked # NoMark /\ runner' = "reboot"
    BY <1>4 DEF Marked, LookReboot, LookPrepare
  <2>2. UNCHANGED <<asked, env_mark, rebooted>>
    BY <1>4 DEF LookReboot, LookPrepare
  <2> QED
    BY <2>1, <2>2 DEF Abstract
<1>5. CASE PostBootSetup
  BY <1>5 DEF Marked, PostBootSetup, Abstract
<1>6. CASE Report
  <2>1. CASE runner' = "between"
    <3>1. Segments!Another
      BY <1>6, <2>1 DEF Report, Segments!Another
    <3> QED
      BY <3>1 DEF Segments!Next
  <2>2. CASE runner' = "over"
    BY <1>6, <2>2 DEF Report, Abstract
  <2> QED
    BY <1>6, <2>1, <2>2 DEF Report
<1> QED
  BY <1>1, <1>2, <1>3, <1>4, <1>5, <1>6 DEF Runner

LEMMA TestSegments ==
    ASSUME Orderly, Orderly', Held, Marked, Test
    PROVE  [Segments!Next]_Abstract
<1>1. ASSUME NEW m \in Asked, AskReboot(m) \/ AskPrepare(m)
      PROVE  [Segments!Next]_Abstract
  <2>1. m \in Marks /\ m # NoMark
    BY <1>1, MarksAssumption DEF Orderly, MayAsk, Asked, AskReboot, AskPrepare
  <2>2. runner = "exec" /\ asked = NoMark /\ ~rebooted
    BY <1>1 DEF Held, Types, Places, Leaving, Marked, AskReboot, AskPrepare
  <2>3. Segments!Ask
    BY <1>1, <2>1, <2>2 DEF AskReboot, AskPrepare, Segments!Ask
  <2> QED
    BY <2>3 DEF Segments!Next
<1>2. CASE Killed \/ KillWrapper
  <2>1. runner = "exec"
    BY <1>2 DEF Held, Types, Places, Killed, KillWrapper
  <2>2. runner' = "killed" /\ UNCHANGED <<asked, env_mark, rebooted>>
    BY <1>2 DEF Killed, KillWrapper
  <2> QED
    BY <2>1, <2>2 DEF Abstract
<1>3. CASE Prepared
  BY <1>3 DEF Prepared, Abstract
<1>4. CASE ScriptFails
  BY <1>4 DEF Orderly, ScriptFails
<1>5. CASE Exits
  <2>1. Segments!Finish
    BY <1>5 DEF Held, Types, Places, Exits, Segments!Finish
  <2> QED
    BY <2>1 DEF Segments!Next
<1> QED
  BY <1>1, <1>2, <1>3, <1>4, <1>5 DEF Test

LEMMA OtherSegments ==
    ASSUME Orderly, Orderly', Held, Marked, Down \/ Up \/ Server
    PROVE  [Segments!Next]_Abstract
<1>1. CASE Down
  BY <1>1 DEF Down, Abstract
<1>2. CASE Up /\ runner = "reboot" /\ ~rebooted
  <2>1. Segments!Reboot
    BY <1>2 DEF Marked, Up, Segments!Reboot
  <2> QED
    BY <2>1 DEF Segments!Next
<1>3. CASE Up /\ ~(runner = "reboot" /\ ~rebooted)
  BY <1>3 DEF Held, Types, Leaving, Up, Abstract
<1>4. CASE Server
  <2>1. UNCHANGED <<runner, asked, rebooted, env_mark>>
    BY <1>4 DEF Server, Save, PrepareReboot, Order, StopWaitTimesOut, WaitReboot,
                GiveUp, Restore, ServerFails
  <2> QED
    BY <2>1 DEF Abstract
<1> QED
  BY <1>1, <1>2, <1>3, <1>4

LEMMA StepsAreSegments ==
    ASSUME Orderly => Held /\ Marked, [Next]_vars
    PROVE  [Segments!Next]_Abstract
<1>0. Orderly' = Orderly
  BY PerilsStay DEF Orderly
<1>1. CASE ~Orderly
  BY <1>0, <1>1 DEF Abstract
<1>2. CASE Orderly /\ UNCHANGED vars
  BY <1>0, <1>2 DEF vars, Abstract
<1>3. CASE Orderly /\ Next
  BY <1>0, <1>2, <1>3, RunnerSegments, TestSegments, OtherSegments DEF Next, Ended
<1> QED
  BY <1>1, <1>2, <1>3
-----------------------------------------------------------------------------
(* Theorems about the handshake.                                           *)

\* Resumed: a segment finds the files as the one before it has left them, and the
\* commands to ask for a reboot, whatever a reboot removes.
THEOREM SegmentsResumed == Spec => []Resumed
<1>1. (Settled => Held) => Resumed
  BY DEF Settled, Held, Types, Places, Starting, Resumed, FilesKept, HasScripts
<1> QED
  BY <1>1, HeldInductive, PTL

\* KeepsSegments: a test runs in the segments the documentation promises, where
\* nothing is out of order, however early it reboots.
THEOREM HandshakeKeepsSegments == Spec => KeepsSegments
<1>1. Init => Segments!Init
  BY DEF Init, Segments!Init
<1>2. (Orderly => Held /\ Marked) /\ [Next]_vars => [Segments!Next]_Abstract
  BY StepsAreSegments
<1> QED
  BY <1>1, <1>2, MarkedInductive, PTL DEF Spec, KeepsSegments, Segments!Spec, Abstract

\* Every variable has its type, for any marks, backends and number of tests.
THEOREM TypeCorrect == Spec => []TypeOK
<1>1. Typed => TypeOK
  BY ThreeParts DEF Typed
<1> QED
  BY <1>1, TypesInductive, PTL

\* BackIsSeen: a server gives up on a testbed that is back only if that has got
\* ahead of it: down before the uptime is taken (lxd), back before the server
\* waits (qemu, ssh), and never with lxc.  Nothing else makes it miss a reboot, be it
\* slow containers, blank marks, scripts that fail or a testbed that is shared.
THEOREM RebootIsSeen == Spec => BackIsSeen
<1>1. Typed /\ Waiting /\ [Next]_vars =>
          [server = "wait" /\ server' = "failed" /\ up /\ rebooted => Outrun]_vars
  <2> SUFFICES ASSUME Typed, Waiting, GiveUp, up, rebooted PROVE Outrun
    BY OnlyGivesUp
  <2>1. kind \in {"lxc", "lxd", "qemu", "ssh"}
    BY OptionsAssumption DEF Typed, OtherTypes
  <2> QED
    BY <2>1 DEF GiveUp, BackAgain, Waiting, HasSeen, Outrun
<1> QED
  BY <1>1, TypesInductive, WaitingInductive, PTL DEF Spec, BackIsSeen
-----------------------------------------------------------------------------
(* The wrapper.                                                            *)

Survivors == "survivor" \in mishaps

\* One test after the other, unless a wrapper survives its test.
InTurn ==
    \A n \in Tests :
        /\ n > test => at[n] = "idle"
        /\ n < test => at[n] \in {"ended", "failed", "killed"} \/ Survivors
        /\ at[n] = "pid" => n = test

\* A command that runs has a number.
Started == \A n \in Tests : at[n] = "run" => child[n] \in Pids

\* Whose number is in the pid file: a wrapper that still runs, or one that could
\* not remove it.
PidFileLeft ==
    pidFile # NoTest =>
        /\ at[pidFile] \in {"run", "find", "kill", "wait", "killed"}
        /\ pidFile = test \/ at[pidFile] = "killed" \/ Survivors

\* What a wrapper is about to kill held its own pipes, and its tee does not.
Hunted ==
    \A n \in Tests :
        at[n] = "kill" =>
            tee[n] \notin found[n] /\ \A p \in found[n] : holds[p] \in {n, NoTest}

\* What it is not about to kill it has missed.
AllListed ==
    \A n \in Tests :
        at[n] = "kill" => \A p \in Holders(n) : p \in found[n] \/ Missed(n, p)

Thorough == AllListed /\ HuntThorough

IInv ==
    /\ WrapperTypeOK /\ InTurn /\ Started /\ PidFileLeft /\ Hunted /\ Thorough
    /\ PidFileIsOwn /\ AllRun /\ OutputWhole
-----------------------------------------------------------------------------
\* grep leaves out the tee itself, and whatever is listed had the pipes open.
LEMMA ListedAre ==
    ASSUME WrapperTypeOK, NEW n \in Tests
    PROVE  /\ Listed(n) \subseteq Holders(n) \cap used /\ tee[n] \notin Listed(n)
           /\ \A p \in Holders(n) : p \in Listed(n) \/ Missed(n, p)
<1>1. tee[n] \in Seq(0 .. 9)
  <2>1. NoPid \in Seq(0 .. 9)
    BY DEF NoPid
  <2> QED
    BY <2>1, WrapperAssumption DEF WrapperTypeOK
<1>2. Within(tee[n], tee[n])
  <2> DEFINE t == tee[n]
  <2>1. 0 \in 0 .. Len(t) /\ SubSeq(t, 0 + 1, Len(t)) = t
    BY <1>1
  <2>2. IsPrefix(t, SubSeq(t, 0 + 1, Len(t)))
    BY <1>1, <2>1 DEF IsPrefix
  <2> QED
    BY <2>1, <2>2 DEF Within
<1>3. \A p \in Holders(n) : p \in used
  BY DEF WrapperTypeOK, Holders, Tests, NoTest
<1> QED
  BY <1>2, <1>3 DEF Listed, Missed

\* Where nobody else gets the pipes, and no wrapper comes to hunt, what is missed
\* stays so.
LEMMA StaysThorough ==
    ASSUME Thorough, UNCHANGED <<user, found>>, roots \subseteq roots', late \subseteq late',
           \A n \in Tests :
               at'[n] \in {"kill", "wait"} =>
                   /\ at'[n] = at[n] /\ tee'[n] = tee[n]
                   /\ Holders(n)' \subseteq Holders(n) \cup late'
    PROVE  Thorough'
<1>1. ASSUME NEW n \in Tests, NEW p, Missed(n, p), tee'[n] = tee[n] PROVE Missed(n, p)'
  BY <1>1 DEF Missed, Reaches
<1>2. \A n, p : p \in late' => Missed(n, p)'
  BY DEF Missed
<1> QED
  BY <1>1, <1>2 DEF Thorough, AllListed, HuntThorough

\* The numbers of tests.
LEMMA TestsAre ==
    N \in Nat /\ Tests \subseteq Nat \ {0} /\ NoTest \notin Tests
  BY WrapperAssumption DEF Tests, NoTest

LEMMA InitHolds ==
    ASSUME WrapperInit PROVE IInv
<1> USE TestsAre DEF WrapperInit
<1>1. WrapperTypeOK
  <2>1. test \in Tests
    BY WrapperAssumption DEF Tests
  <2> QED
    BY <2>1 DEF WrapperTypeOK
<1>2. InTurn /\ Started /\ PidFileLeft /\ Hunted
  BY DEF InTurn, Started, PidFileLeft, Hunted
<1>3. PidFileIsOwn /\ AllRun /\ OutputWhole
  BY DEF PidFileIsOwn, AllRun, OutputWhole
<1>4. Thorough
  BY DEF Thorough, AllListed, HuntThorough
<1> QED
  BY <1>1, <1>2, <1>3, <1>4 DEF IInv

LEMMA BeginKeeps ==
    ASSUME IInv, NEW n \in Tests, Begin(n) PROVE IInv'
<1> USE TestsAre DEF IInv, Begin, Survivors
<1>1. WrapperTypeOK'
  BY DEF WrapperTypeOK, Unused
<1>2. InTurn'
  BY DEF InTurn, WrapperTypeOK
<1>3. Started' /\ PidFileLeft'
  BY DEF Started, PidFileLeft, WrapperTypeOK
<1>4. Hunted'
  BY DEF Hunted, WrapperTypeOK
<1>5. PidFileIsOwn' /\ AllRun' /\ OutputWhole'
  BY DEF PidFileIsOwn, AllRun, OutputWhole, WrapperTypeOK
<1>6. Thorough'
  BY StaysThorough DEF Holders, WrapperTypeOK
<1> QED
  BY <1>1, <1>2, <1>3, <1>4, <1>5, <1>6 DEF IInv

LEMMA WritePidKeeps ==
    ASSUME IInv, NEW n \in Tests, WritePid(n) PROVE IInv'
<1> USE TestsAre DEF IInv, Survivors
<1>1. n = test /\ at[n] = "pid"
  BY DEF WritePid, InTurn
<1>2. CASE MayRemove(n)
  <2>1. PICK p \in Unused :
            /\ child' = [child EXCEPT ![n] = p] /\ used' = used \cup {p}
            /\ holds' = [holds EXCEPT ![p] = n]
    BY <1>2 DEF WritePid
  <2>2. /\ pidFile' = n /\ at' = [at EXCEPT ![n] = "run"]
        /\ UNCHANGED <<user, mishaps, test, tee, found, teeKilled, roots, late>>
    BY <1>2 DEF WritePid
  <2>3. WrapperTypeOK'
    BY <2>1, <2>2 DEF WrapperTypeOK, Unused
  <2>4. InTurn' /\ Started'
    BY <1>1, <2>1, <2>2 DEF InTurn, Started, WrapperTypeOK, Unused
  <2>5. PidFileLeft'
    BY <1>1, <2>2 DEF PidFileLeft, WrapperTypeOK
  <2>6. PidFileIsOwn'
    BY <1>1, <2>2 DEF PidFileIsOwn, WrapperTypeOK
  <2>7. Hunted'
    BY <2>1, <2>2 DEF Hunted, WrapperTypeOK, Unused
  <2>8. AllRun' /\ OutputWhole'
    BY <1>1, <2>2 DEF AllRun, OutputWhole, WrapperTypeOK
  <2>9. Thorough'
    BY <1>1, <2>1, <2>2, StaysThorough DEF Holders, WrapperTypeOK
  <2> QED
    BY <2>3, <2>4, <2>5, <2>6, <2>7, <2>8, <2>9
<1>3. CASE ~MayRemove(n)
  <2>1. /\ at' = [at EXCEPT ![n] = "failed"]
        /\ UNCHANGED <<user, mishaps, test, tee, child, holds, used, found, pidFile, teeKilled, roots, late>>
    BY <1>3 DEF WritePid
  <2>2. pidFile \in Tests /\ user[n] = "user" /\ user[pidFile] = "root"
    BY <1>3, WrapperAssumption DEF MayRemove, WrapperTypeOK, Tests
  <2>3. pidFile < n /\ (at[pidFile] = "killed" \/ Survivors)
    BY <1>1, <2>2 DEF PidFileLeft, InTurn, WrapperTypeOK
  <2>4. WrapperTypeOK' /\ InTurn' /\ Started'
    BY <1>1, <2>1 DEF WrapperTypeOK, InTurn, Started
  <2>5. PidFileLeft' /\ PidFileIsOwn' /\ OutputWhole'
    BY <1>1, <2>1, <2>3 DEF PidFileLeft, PidFileIsOwn, OutputWhole, WrapperTypeOK
  <2>6. Hunted'
    BY <2>1 DEF Hunted, WrapperTypeOK
  <2>7. AllRun'
    BY <2>1, <2>2, <2>3 DEF AllRun, WrapperTypeOK
  <2>8. Thorough'
    BY <2>1, StaysThorough DEF Holders, WrapperTypeOK
  <2> QED
    BY <2>4, <2>5, <2>6, <2>7, <2>8
<1> QED
  BY <1>2, <1>3
LEMMA ForkKeeps ==
    ASSUME IInv, NEW n \in Tests, Fork(n) PROVE IInv'
<1> USE TestsAre DEF IInv, Survivors
<1>1. PICK p \in Unused :
          /\ holds' = [holds EXCEPT ![p] = n] /\ used' = used \cup {p}
          /\ roots' \in {roots, roots \cup {p}}
          /\ late' = IF at[n] \in {"kill", "wait"} THEN late \cup {p} ELSE late
  BY DEF Fork
<1>2. UNCHANGED <<user, mishaps, test, at, tee, child, found, pidFile, teeKilled>>
  BY DEF Fork
<1>3. WrapperTypeOK'
  BY <1>1, <1>2 DEF WrapperTypeOK, Unused
<1>4. InTurn' /\ Started' /\ PidFileLeft' /\ PidFileIsOwn' /\ AllRun' /\ OutputWhole'
  BY <1>2 DEF InTurn, Started, PidFileLeft, PidFileIsOwn, AllRun, OutputWhole
<1>5. Hunted'
  BY <1>1, <1>2 DEF Hunted, WrapperTypeOK, Unused
<1>6. Thorough'
  BY <1>1, <1>2, StaysThorough DEF Holders, WrapperTypeOK
<1> QED
  BY <1>3, <1>4, <1>5, <1>6

LEMMA BecomesRootKeeps ==
    ASSUME IInv, NEW p \in Pids, BecomesRoot(p) PROVE IInv'
<1> USE TestsAre DEF IInv, Survivors, BecomesRoot
<1>1. WrapperTypeOK'
  BY DEF WrapperTypeOK
<1>2. InTurn' /\ Started' /\ PidFileLeft' /\ PidFileIsOwn' /\ AllRun' /\ OutputWhole'
  BY DEF InTurn, Started, PidFileLeft, PidFileIsOwn, AllRun, OutputWhole
<1>3. Hunted'
  BY DEF Hunted
<1>4. Thorough'
  BY StaysThorough DEF Holders
<1> QED
  BY <1>1, <1>2, <1>3, <1>4

LEMMA ExitKeeps ==
    ASSUME IInv, NEW p \in Pids, Exit(p) PROVE IInv'
<1> USE TestsAre DEF IInv, Survivors, Exit
<1>1. WrapperTypeOK'
  BY DEF WrapperTypeOK
<1>2. InTurn' /\ Started' /\ PidFileLeft' /\ PidFileIsOwn' /\ AllRun' /\ OutputWhole'
  BY DEF InTurn, Started, PidFileLeft, PidFileIsOwn, AllRun, OutputWhole
<1>3. Hunted'
  BY DEF Hunted, WrapperTypeOK
<1>4. Thorough'
  BY StaysThorough DEF Holders, WrapperTypeOK, NoTest
<1> QED
  BY <1>1, <1>2, <1>3, <1>4

LEMMA CommandEndsKeeps ==
    ASSUME IInv, NEW n \in Tests, CommandEnds(n) PROVE IInv'
<1> USE TestsAre DEF IInv, Survivors, CommandEnds
<1>1. WrapperTypeOK' /\ InTurn' /\ Started'
  BY DEF WrapperTypeOK, InTurn, Started
<1>2. PidFileLeft' /\ Hunted'
  BY DEF PidFileLeft, Hunted, WrapperTypeOK
<1>3. PidFileIsOwn' /\ AllRun' /\ OutputWhole'
  BY DEF PidFileIsOwn, AllRun, OutputWhole, WrapperTypeOK
<1>4. Thorough'
  BY StaysThorough DEF Holders, WrapperTypeOK
<1> QED
  BY <1>1, <1>2, <1>3, <1>4

LEMMA FindKeeps ==
    ASSUME IInv, NEW n \in Tests, Find(n) PROVE IInv'
<1> USE TestsAre DEF IInv, Survivors
<1>1. PICK w \in {"wait", "kill"} : at' = [at EXCEPT ![n] = w]
  BY DEF Find
<1>2. /\ at[n] = "find" /\ found' = [found EXCEPT ![n] = Listed(n)]
      /\ UNCHANGED <<user, mishaps, test, tee, child, holds, used, pidFile, teeKilled, roots, late>>
  BY DEF Find
<1>3. /\ Listed(n) \subseteq Holders(n) \cap used /\ tee[n] \notin Listed(n)
      /\ \A p \in Holders(n) : p \in Listed(n) \/ Missed(n, p)
  BY ListedAre
<1>4. WrapperTypeOK'
  BY <1>1, <1>2, <1>3 DEF WrapperTypeOK
<1>5. InTurn' /\ Started'
  BY <1>1, <1>2 DEF InTurn, Started, WrapperTypeOK
<1>6. PidFileLeft' /\ PidFileIsOwn'
  BY <1>1, <1>2 DEF PidFileLeft, PidFileIsOwn, WrapperTypeOK
<1>7. AllRun' /\ OutputWhole'
  BY <1>1, <1>2 DEF AllRun, OutputWhole, WrapperTypeOK
<1>8. Hunted'
  BY <1>1, <1>2, <1>3 DEF Hunted, Holders, WrapperTypeOK
<1>9. Thorough'
  <2>1. \A m \in Tests : \A p : Holders(m)' = Holders(m) /\ (Missed(m, p)' <=> Missed(m, p))
    BY <1>2 DEF Holders, Missed, Reaches
  <2>2. w = "wait" => Listed(n) = {}
    BY <1>1, <1>2 DEF Find, WrapperTypeOK
  <2> QED
    BY <1>1, <1>2, <1>3, <2>1, <2>2 DEF Thorough, AllListed, HuntThorough, WrapperTypeOK
<1> QED
  BY <1>4, <1>5, <1>6, <1>7, <1>8, <1>9

LEMMA KillFoundKeeps ==
    ASSUME IInv, NEW n \in Tests, KillFound(n) PROVE IInv'
<1> USE TestsAre DEF IInv, Survivors, KillFound
<1>1. WrapperTypeOK'
  BY DEF WrapperTypeOK
<1>2. InTurn' /\ Started' /\ PidFileLeft'
  BY DEF InTurn, Started, PidFileLeft, WrapperTypeOK
<1>3. PidFileIsOwn' /\ AllRun'
  BY DEF PidFileIsOwn, AllRun, WrapperTypeOK
<1>4. OutputWhole' /\ Hunted'
  BY DEF OutputWhole, Hunted, WrapperTypeOK
<1>5. Thorough'
  <2>1. \A m \in Tests : \A p : Missed(m, p)' <=> Missed(m, p)
    BY DEF Missed, Reaches
  <2>2. \A m \in Tests : Holders(m)' \subseteq Holders(m)
    BY DEF Holders
  <2>3. \A p \in Holders(n)' : p \notin found[n] \/ Missed(n, p)
    BY DEF Holders, Missed
  <2> QED
    BY <2>1, <2>2, <2>3 DEF Thorough, AllListed, HuntThorough, WrapperTypeOK
<1> QED
  BY <1>1, <1>2, <1>3, <1>4, <1>5

LEMMA WaitKeeps ==
    ASSUME IInv, NEW n \in Tests, Wait(n) PROVE IInv'
<1> USE TestsAre DEF IInv, Survivors
<1>1. /\ at[n] = "wait" /\ at' = [at EXCEPT ![n] = "ended"]
      /\ pidFile' = NoTest \/ (pidFile' = pidFile /\ pidFile # n)
      /\ UNCHANGED <<user, mishaps, test, tee, child, holds, used, found, teeKilled, roots, late>>
  BY DEF Wait, MayRemove
<1>2. WrapperTypeOK' /\ InTurn' /\ Started'
  BY <1>1 DEF WrapperTypeOK, InTurn, Started
<1>3. PidFileLeft' /\ Hunted'
  BY <1>1 DEF PidFileLeft, Hunted, WrapperTypeOK
<1>4. PidFileIsOwn'
  <2> SUFFICES ASSUME NEW m \in Tests, test = m, at[m] = "run", m # n
               PROVE  pidFile' = m \/ (pidFile' = NoTest /\ Survivors)
    BY <1>1 DEF PidFileIsOwn, WrapperTypeOK
  <2>1. Survivors
    BY <1>1 DEF InTurn, WrapperTypeOK
  <2> QED
    BY <1>1, <2>1 DEF PidFileIsOwn
<1>5. AllRun' /\ OutputWhole'
  BY <1>1 DEF AllRun, OutputWhole, WrapperTypeOK
<1>6. Thorough'
  BY <1>1, StaysThorough DEF Holders, WrapperTypeOK
<1> QED
  BY <1>2, <1>3, <1>4, <1>5, <1>6

LEMMA TimesOutKeeps ==
    ASSUME IInv, NEW n \in Tests, TestTimesOut(n) PROVE IInv'
<1> USE TestsAre DEF IInv, Survivors
<1>1. /\ test = n /\ n < N /\ at[n] \in {"run", "wait"} /\ test' = n + 1
      /\ UNCHANGED <<user, mishaps, tee, child, used, found, pidFile, teeKilled, roots, late>>
  BY DEF TestTimesOut
<1>2. n + 1 \in Tests
  BY <1>1 DEF Tests
<1>3. CASE KilledByTimeout(n)
  <2>0. PICK ended \in SUBSET Holders(n) :
            holds' = [p \in Pids |-> IF p \in ended THEN NoTest ELSE holds[p]]
    BY <1>3 DEF KilledByTimeout
  <2> USE <1>1, <1>2, <1>3, <2>0 DEF KilledByTimeout
  <2>1. WrapperTypeOK'
    BY DEF WrapperTypeOK
  <2>2. InTurn' /\ Started'
    BY DEF InTurn, Started, WrapperTypeOK
  <2>3. PidFileLeft' /\ PidFileIsOwn'
    BY DEF PidFileLeft, PidFileIsOwn, InTurn, WrapperTypeOK
  <2>4. AllRun' /\ OutputWhole'
    BY DEF AllRun, OutputWhole, WrapperTypeOK
  <2>5. Hunted'
    BY DEF Hunted, WrapperTypeOK
  <2>6. Thorough'
    BY StaysThorough DEF Holders, WrapperTypeOK
  <2> QED
    BY <2>1, <2>2, <2>3, <2>4, <2>5, <2>6
<1>4. CASE Survivors /\ UNCHANGED <<at, holds>>
  <2> USE <1>1, <1>2, <1>4
  <2>1. WrapperTypeOK' /\ InTurn' /\ Started'
    BY DEF WrapperTypeOK, InTurn, Started
  <2>2. PidFileLeft' /\ PidFileIsOwn'
    BY DEF PidFileLeft, PidFileIsOwn, InTurn
  <2>3. AllRun' /\ OutputWhole' /\ Hunted'
    BY DEF AllRun, OutputWhole, Hunted
  <2>4. Thorough'
    BY StaysThorough DEF Holders
  <2> QED
    BY <2>1, <2>2, <2>3, <2>4
<1> QED
  BY <1>3, <1>4 DEF TestTimesOut

LEMMA NextTestKeeps ==
    ASSUME IInv, NEW n \in Tests, TestAfter(n) PROVE IInv'
<1> USE TestsAre DEF IInv, Survivors, TestAfter
<1>1. n + 1 \in Tests
  BY DEF Tests
<1>2. WrapperTypeOK' /\ InTurn' /\ Started'
  BY <1>1 DEF WrapperTypeOK, InTurn, Started
<1>3. PidFileLeft' /\ PidFileIsOwn'
  BY <1>1 DEF PidFileLeft, PidFileIsOwn, InTurn
<1>4. AllRun' /\ OutputWhole' /\ Hunted'
  BY DEF AllRun, OutputWhole, Hunted
<1>5. Thorough'
  BY StaysThorough DEF Holders
<1> QED
  BY <1>2, <1>3, <1>4, <1>5

LEMMA Inductive == WrapperSpec => []IInv
<1>1. IInv /\ [WrapperNext]_wrapperVars => IInv'
  <2> SUFFICES ASSUME IInv, [WrapperNext]_wrapperVars PROVE IInv'
    OBVIOUS
  <2>1. ASSUME NEW n \in Tests, Step(n) PROVE IInv'
    BY <2>1, BeginKeeps, WritePidKeeps, CommandEndsKeeps, FindKeeps, KillFoundKeeps, WaitKeeps
    DEF Step
  <2>2. ASSUME NEW n \in Tests, Fork(n) \/ TestTimesOut(n) \/ TestAfter(n) PROVE IInv'
    BY <2>2, ForkKeeps, TimesOutKeeps, NextTestKeeps
  <2>3. ASSUME NEW p \in Pids, Exit(p) \/ BecomesRoot(p) PROVE IInv'
    BY <2>3, ExitKeeps, BecomesRootKeeps
  <2>4. CASE UNCHANGED wrapperVars
    BY <2>4 DEF wrapperVars, IInv, WrapperTypeOK, InTurn, Started, PidFileLeft, Hunted, PidFileIsOwn,
                AllRun, OutputWhole, Survivors, Thorough, AllListed, HuntThorough, Holders,
                Missed, Reaches
  <2> QED
    BY <2>1, <2>2, <2>3, <2>4 DEF WrapperNext
<1> QED
  BY <1>1, InitHolds, PTL DEF WrapperSpec
-----------------------------------------------------------------------------
(* Theorems about the wrapper.                                             *)

\* NextUnharmed: the pid file names the wrapper whose command runs, no test fails
\* for what an earlier one has left but a pid file of root, no tee is killed, and
\* the hunt misses nothing but what Missed says, whatever the tests leave running,
\* as whom, and whatever the process numbers are.
THEOREM TestsUnharmed == WrapperSpec => []NextUnharmed
<1>1. IInv => NextUnharmed
  BY DEF IInv, NextUnharmed, Thorough
<1> QED
  BY <1>1, Inductive, PTL

\* OnlyItsOwn: between find(1) and kill(1) no process number that was listed gets
\* to a process of another test, so a late wrapper kills none.
THEOREM KillsOnlyItsOwn == WrapperSpec => OnlyItsOwn
<1>1. IInv /\ [WrapperNext]_wrapperVars =>
          [\A n \in Tests : at[n] = "kill" /\ at'[n] = "wait" =>
              \A p \in Pids : holds[p] \notin {n, NoTest} => holds'[p] = holds[p]]_wrapperVars
  <2> SUFFICES ASSUME IInv, WrapperNext, NEW n \in Tests, at[n] = "kill", at'[n] = "wait",
                      NEW p \in Pids, holds[p] \notin {n, NoTest}
               PROVE  holds'[p] = holds[p]
    OBVIOUS
  <2>1. KillFound(n)
    BY DEF IInv, WrapperTypeOK, WrapperNext, Step, Begin, WritePid, Fork, CommandEnds, Find, KillFound, Wait,
           TestTimesOut, KilledByTimeout, TestAfter, Exit, BecomesRoot
  <2>2. p \notin found[n]
    BY DEF IInv, Hunted
  <2> QED
    BY <2>1, <2>2 DEF KillFound
<1> QED
  BY <1>1, Inductive, PTL DEF WrapperSpec, OnlyItsOwn
=============================================================================
