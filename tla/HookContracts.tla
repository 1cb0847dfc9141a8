---------------------------- MODULE HookContracts ----------------------------
(***************************************************************************)
(* What each hook of a backend owes the main loop of lib/VirtSubproc.py,   *)
(* as conditions on the hook by itself: what it makes, gives up and needs, *)
(* and in which order.  VirtServerProofs shows that a server all of whose  *)
(* hooks keep these contracts knows its testbed and cleans it up, however  *)
(* commands, failures and signals fall between the steps.                  *)
(***************************************************************************)
EXTENDS VirtServer

StepsOf(b, h) == 1 .. Len(Hooks[b][h])

Makes(b, h, k, x)   == Hooks[b][h][k].does = "gain" /\ x \in Hooks[b][h][k].on
Loses(b, h, k, x)   == Hooks[b][h][k].does = "lose" /\ x \in Hooks[b][h][k].on
GivesUp(b, h, k, x) == Hooks[b][h][k].does \in {"lose", "forget", "boot"}
                          /\ x \in Hooks[b][h][k].on
Forgets(b, h, k)    == Hooks[b][h][k].does = "forget"

\* Failures that neither an except block of the hook nor the code shrugs off.
Uncaught(b, h, k) == Hooks[b][h][k].fails \ {"rescue", "skip"}

MadeBy(b, h) == {x \in Resource : \E k \in StepsOf(b, h) : Makes(b, h, k, x)}

\* What hook_open() leaves, and that with the scratch directory.
Frame(b) == MadeBy(b, "open") \cup Initial[b]
All(b)   == Frame(b) \cup MadeBy(b, "tmp")

\* Only a server that reboots makes the tar file.
Tar(b) == IF "reboot" \in Caps[b] THEN {"tar"} ELSE {}

\* What no hook removes from a machine that was there before.
Stays(b) == IF "inst" \in All(b) THEN {} ELSE {"wrap"} \cap All(b)

\* From step k on the hook makes x, or cannot do without it.
Due(b, h, x, k) ==
    \E j \in StepsOf(b, h) :
        /\ j >= k /\ Hooks[b][h][j].does = "gain"
        /\ x \in Hooks[b][h][j].on \cup Hooks[b][h][j].needs

\* Before step k the hook has set downtmp to None, whatever has failed.
ForgottenBefore(b, h, k) ==
    \E j \in StepsOf(b, h) :
        j < k /\ Forgets(b, h, j) /\ "skip" \notin Hooks[b][h][j].fails

\* Before step k the testbed does not exist: hook_open() has not made it yet,
\* or hook_revert() has removed it and not yet made it again.
Absent(b, h, k) ==
    /\ h = "revert" => \E i \in StepsOf(b, h) : i < k /\ Loses(b, h, i, "inst")
    /\ \A j \in StepsOf(b, h) : j < k /\ Makes(b, h, j, "inst") =>
          \E i \in StepsOf(b, h) : j < i /\ i < k /\ Loses(b, h, i, "inst")

\* What must be there when the hook returns.
Kept(b, h) == IF h \in {"open", "revert"} THEN Frame(b) ELSE All(b)

Forward == {"open", "tmp", "revert", "reboot"}
-----------------------------------------------------------------------------
\* hook_revert() and cmd_reboot() make again what they give up.
ASSUME RestoreContract ==
    \A b \in Backend : \A h \in Forward : \A k \in StepsOf(b, h) : \A x \in Kept(b, h) :
        GivesUp(b, h, k, x) => Due(b, h, x, k + 1)

\* hook_open() does not succeed without what was there before the main loop.
ASSUME OpenContract ==
    \A b \in Backend : \A x \in Initial[b] : Due(b, "open", x, 1)

\* Nothing is made that hook_open() and hook_downtmp() do not make, but the tar
\* file of cmd_reboot(), which removes it again.
ASSUME MakeContract ==
    \A b \in Backend :
        /\ \A h \in HookName \ {"reboot"} : MadeBy(b, h) \subseteq All(b)
        /\ "reboot" \in Caps[b] => MadeBy(b, "reboot") \subseteq All(b) \cup {"tar"}
        /\ \A k \in StepsOf(b, "reboot") : \A x \in Resource \ All(b) :
              Makes(b, "reboot", k, x) =>
                  \E j \in StepsOf(b, "reboot") : j > k /\ Loses(b, "reboot", j, x)

\* hook_cleanup() undoes all of it, and neither it nor an except block makes
\* anything.  (The scratch directory may be left to downtmp_remove(), which removes
\* no more than that, the wrapper and the tar file to a machine that was there
\* before.)
ASSUME CleanupContract ==
    \A b \in Backend :
        /\ \A h \in {"cleanup", "rescue"} : \A k \in StepsOf(b, h) :
              Hooks[b][h][k].does \in {"lose", "forget", "check"}
        /\ \A h \in HookName : \A k \in StepsOf(b, h) :
              Forgets(b, h, k) => Hooks[b][h][k].on = {"tmp"}
        /\ \A x \in All(b) \ ({"tmp"} \cup Stays(b)) :
              \E k \in StepsOf(b, "cleanup") : Loses(b, "cleanup", k, x)
        /\ \E k \in StepsOf(b, "cleanup") :
              Loses(b, "cleanup", k, "tmp") \/ Forgets(b, "cleanup", k)
        /\ "inst" \in All(b) /\ "reboot" \in Caps[b] =>
              \E k \in StepsOf(b, "cleanup") : Loses(b, "cleanup", k, "tar")

\* A hook sets downtmp to None before it gives up what hook_open() has made, and
\* before it enters a try whose except block does.
ASSUME ForgetContract ==
    \A b \in Backend \ Repeatable : \A h \in HookName \ {"cleanup", "rescue"} :
        \A k \in StepsOf(b, h) :
            \/ \E x \in MadeBy(b, "open") \ Inside : GivesUp(b, h, k, x)
            \/ h = "revert" /\ "rescue" \in Hooks[b][h][k].fails
            => ForgottenBefore(b, h, k)

\* In qemu and ssh an exception that no except block catches comes while
\* downtmp is still set, or while there is no testbed; the except block
\* removes the testbed.
ASSUME RescueContract ==
    \A b \in Backend \cap Guarded :
        /\ "inst" \notin Initial[b]
        /\ \E k \in StepsOf(b, "rescue") : Loses(b, "rescue", k, "inst")
        /\ \A h \in {"open", "revert"} : \A k \in StepsOf(b, h) :
              Uncaught(b, h, k) # {} =>
                  \/ h = "revert" /\ \A j \in StepsOf(b, h) : j < k => ~Forgets(b, h, j)
                  \/ /\ Absent(b, h, k)
                     /\ Makes(b, h, k, "inst") => Uncaught(b, h, k) \subseteq {"refuse"}
=============================================================================
