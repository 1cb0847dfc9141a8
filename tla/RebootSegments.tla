--------------------------- MODULE RebootSegments ---------------------------
(***************************************************************************)
(* What doc/README.package-tests.rst promises a test that reboots: it runs *)
(* in segments.  The first starts without a mark; it ends by asking for a  *)
(* reboot with a mark, and the next one starts after that reboot, with     *)
(* that mark and with the files of the one before.                         *)
(***************************************************************************)
CONSTANTS Marks, NoMark

VARIABLES
    phase,   \* "off", "runs", "asked", "rebooted", "over"
    given,   \* the mark the segment was started with
    wanted   \* the mark the next one is to get

Init == phase = "off" /\ given = NoMark /\ wanted = NoMark

Begin ==
    /\ phase = "off" /\ phase' = "runs" /\ given' = NoMark
    /\ UNCHANGED wanted

\* A segment may ask again, if asking has failed.
Ask ==
    /\ phase \in {"runs", "asked"} /\ phase' = "asked" /\ wanted' \in Marks
    /\ UNCHANGED given

Reboot == phase = "asked" /\ phase' = "rebooted" /\ UNCHANGED <<given, wanted>>

Resume ==
    /\ phase = "rebooted" /\ phase' = "runs"
    /\ given' = wanted /\ wanted' = NoMark

\* A verdict, or the end of the run, may come at any point.
Finish ==
    /\ phase # "over" /\ phase' = "over"
    /\ given' = NoMark /\ wanted' = NoMark

Another == phase = "over" /\ phase' = "off" /\ UNCHANGED <<given, wanted>>

Next == Begin \/ Ask \/ Reboot \/ Resume \/ Finish \/ Another

Spec == Init /\ [][Next]_<<phase, given, wanted>>
=============================================================================
