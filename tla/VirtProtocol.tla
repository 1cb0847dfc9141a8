---------------------------- MODULE VirtProtocol ----------------------------
(***************************************************************************)
(* What a caller may rely on when it talks to a virtualisation server: the *)
(* two states of doc/README.virtualisation-server.rst, which commands are  *)
(* answered in which state, and that the scratch directory keeps its name. *)
(* A server may stop answering at any moment; it never answers again then. *)
(***************************************************************************)
CONSTANTS Command, NeedsOpen, Path, NoPath

VARIABLES
    supported,  \* which of "revert" and "reboot" this server advertises
    st,      \* "closed", "open", or "gone"
    cmd,     \* the command waiting for its reply, or "none"
    reply,   \* the last reply
    where    \* the name of the scratch directory, once there is one

vars == <<supported, st, cmd, reply, where>>

Init ==
    /\ supported \in SUBSET {"revert", "reboot"}
    /\ st = "closed" /\ cmd = "none" /\ where = NoPath
    /\ reply = [cmd |-> "none", ok |-> TRUE, path |-> NoPath]

Request ==
    /\ st # "gone" /\ cmd = "none"
    /\ cmd' \in Command
    /\ UNCHANGED <<st, reply, where>>

ChooseScratch ==
    /\ st = "closed" /\ cmd = "open" /\ where = NoPath
    /\ where' \in Path
    /\ UNCHANGED <<st, cmd, reply>>

Respond(good, p) ==
    /\ reply' = [cmd |-> cmd, ok |-> good, path |-> p]
    /\ cmd' = "none" /\ UNCHANGED where

Open   == st = "closed" /\ cmd = "open" /\ where # NoPath /\ st' = "open" /\ Respond(TRUE, where)
Revert == st = "open" /\ cmd = "revert" /\ cmd \in supported /\ UNCHANGED st /\ Respond(TRUE, where)
Reboot == st = "open" /\ cmd = "reboot" /\ cmd \in supported /\ UNCHANGED st /\ Respond(TRUE, NoPath)
Close  == st = "open" /\ cmd = "close" /\ st' = "closed" /\ Respond(TRUE, NoPath)

CopyUpOrDown ==
    /\ st = "open" /\ cmd \in {"copyup", "copydown"}
    /\ UNCHANGED st
    /\ \E good \in BOOLEAN : Respond(good, NoPath)

Tell ==
    /\ \/ cmd = "capabilities" /\ st # "gone"
       \/ cmd = "print-execute-command" /\ st = "open"
    /\ UNCHANGED st
    /\ Respond(TRUE, NoPath)

Stop == st # "gone" /\ st' = "gone" /\ UNCHANGED <<cmd, reply, where>>

Next ==
    /\ \/ Request \/ ChooseScratch \/ Open \/ Revert \/ Reboot \/ Close
       \/ CopyUpOrDown \/ Tell \/ Stop
    /\ UNCHANGED supported

Spec == Init /\ [][Next]_vars
=============================================================================
