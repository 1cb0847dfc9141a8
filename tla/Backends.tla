------------------------------ MODULE Backends ------------------------------
(***************************************************************************)
(* The hooks of the virt/autopkgtest-virt-* scripts, as the step sequences *)
(* module VirtServer runs.  "inst" is the testbed itself (a schroot        *)
(* session, a container, a QEMU process, the instance a setup script       *)
(* makes), "share" a directory on the host that serves it, "dir" the root  *)
(* directory of unshare, "tmp" the scratch directory in the testbed, "tar" *)
(* the copy of it that a reboot keeps there, "wrap" the wrapper and "pass" *)
(* the askpass file that ssh puts into its /tmp.                           *)
(***************************************************************************)
EXTENDS Naturals, Sequences

AllBackends == {"null", "chroot", "schroot", "unshare", "lxc", "lxd", "docker",
            "qemu", "ssh", "ssh-password", "ssh-plain"}

Inside == {"tmp", "tar", "pass", "wrap"}

LOCAL MkStep(d, r, f, n, x, t) ==
    [does |-> d, on |-> r, fresh |-> f, needs |-> n, fails |-> x, timed |-> t]

\* check_exec() and Popen() without a timeout, and the same with one.
Gain(r, x)      == MkStep("gain", r, FALSE, {}, x, FALSE)
GainTimed(r, x) == MkStep("gain", r, FALSE, {}, x, TRUE)
GainNew(r, x)   == MkStep("gain", r, TRUE, {}, x, FALSE)
GainIn(r, n, x) == MkStep("gain", r, FALSE, n, x, FALSE)
Lose(r, x)      == MkStep("lose", r, FALSE, {}, x, TRUE)
Check(x)        == MkStep("check", {}, FALSE, {}, x, TRUE)
CheckUntimed(x) == MkStep("check", {}, FALSE, {}, x, FALSE)

\* downtmp_remove(): rm -rf in the testbed; only its timeout is an error.
DowntmpRemove(x) == MkStep("forget", {"tmp"}, FALSE, {}, x, TRUE)

\* downtmp_mktemp(): mkdir --parents, or mktemp and chmod.
DowntmpMktemp == <<Gain({"tmp"}, {"raise"}), CheckUntimed({"raise"})>>

\* Mutant of CmdReboot: hook_wait_reboot() waits without a limit.
CmdRebootWaiting ==
    <<GainTimed({"tar"}, {"raise"}),
      Check({"raise"}),
      MkStep("boot", {"tmp"}, FALSE, {}, {"raise"}, TRUE),
      CheckUntimed({"raise"}),
      MkStep("gain", {"tmp"}, FALSE, {"tar"}, {"raise"}, TRUE),
      Lose({"tar"}, {"raise"})>>

\* cmd_reboot(): save downtmp in a tar file, hook_prepare_reboot(), boot,
\* hook_wait_reboot(), extract the tar file, remove it.
CmdReboot ==
    <<GainTimed({"tar"}, {"raise"}),
      Check({"raise"}),
      MkStep("boot", {"tmp"}, FALSE, {}, {"raise"}, TRUE),
      Check({"raise"}),
      MkStep("gain", {"tmp"}, FALSE, {"tar"}, {"raise"}, TRUE),
      Lose({"tar"}, {"raise"})>>

NullCleanup == <<DowntmpRemove({"raise"})>>

SchrootOpen == <<GainNew({"inst"}, {"raise"})>>
SchrootTmp  == DowntmpMktemp \o <<CheckUntimed({"raise"}), Check({"raise"})>>
\* Ten failures of schroot --end-session are a warning; its timeout raises,
\* because the except clause names a class VirtSubproc does not have.
SchrootCleanup == <<DowntmpRemove({"raise"}), Lose({"inst", "tmp", "tar"}, {"skip", "raise"})>>
SchrootRevert  == SchrootCleanup \o SchrootOpen

UnshareOpen    == <<GainIn({"inst"}, {"dir"}, {"raise"})>>
UnshareCleanup == <<[Lose({"dir", "inst", "tmp"}, {"raise"}) EXCEPT !.timed = FALSE]>>
UnshareRevert  == UnshareCleanup \o <<GainNew({"dir"}, {"refuse"})>> \o UnshareOpen

\* lxc-copy may fail twice, then lxc-start twice, after which hook_cleanup()
\* runs; a timeout of either is not caught, and what follows is in a try.
LxcOpen ==
    <<GainNew({"share"}, {"refuse"}),
      GainTimed({"inst"}, {"raise"}),
      Check({"raise", "rescue"}),
      Check({"rescue"})>>
LxcTmp     == <<MkStep("gain", {"tmp"}, TRUE, {}, {"raise"}, TRUE)>>
LxcCleanup ==
    <<DowntmpRemove({"raise"}),
      Lose({"inst", "tar"}, {"skip", "raise"}),
      Lose({"share", "tmp"}, {"skip"})>>
LxcRevert  == LxcCleanup \o LxcOpen

LxdOpen    == <<GainTimed({"inst"}, {"raise"}), Check({"rescue"})>>
LxdRescue  == <<Lose({"inst"}, {"skip", "raise"})>>
LxdCleanup == <<DowntmpRemove({"raise"}), Lose({"inst", "tmp", "tar"}, {"raise"})>>
LxdRevert  == LxdCleanup \o LxdOpen

DockerOpen ==
    <<GainNew({"share"}, {"refuse"}),
      CheckUntimed({"raise"}),
      Gain({"inst"}, {"raise"}),
      Check({"raise"})>>
DockerTmp     == <<GainNew({"tmp"}, {"raise"})>>
DockerCleanup ==
    <<DowntmpRemove({"raise"}),
      Lose({"share", "tmp"}, {"raise"}),
      [Lose({"inst"}, {"raise"}) EXCEPT !.timed = FALSE]>>
DockerRevert  == DockerCleanup \o DockerOpen

\* Qemu.__init__() makes its work directory, then starts the process; the
\* rest of hook_open() is in a try.
QemuOpen ==
    <<Gain({"share"}, {"refuse"}),
      Gain({"inst"}, {"refuse"}),
      Check({"rescue"})>>
QemuCleanup ==
    <<[Lose({"inst", "tmp", "tar"}, {}) EXCEPT !.timed = FALSE],
      Lose({"share"}, {"raise"})>>
QemuRevert  == <<DowntmpRemove({"raise"})>> \o QemuCleanup \o QemuOpen

\* build_auxverb() puts the wrapper into the testbed, and before it can_sudo()
\* the file with the password, if there is one.
SshFiles  == <<GainTimed({"wrap"}, {"rescue"})>>
SshSecret == <<GainTimed({"pass"}, {"rescue"}), Check({"rescue"})>>

\* cmd_reboot() with hook_wait_reboot(), which calls build_auxverb() again.
SshReboot(files) ==
    <<GainTimed({"tar"}, {"raise"}),
      Check({"raise"}),
      MkStep("boot", Inside, FALSE, {}, {"raise"}, TRUE),
      Check({"raise"})>>
    \o [k \in 1..Len(files) |-> [files[k] EXCEPT !.fails = {"raise"}]]
    \o <<MkStep("gain", {"tmp"}, FALSE, {"tar"}, {"raise"}, TRUE),
         Lose({"tar"}, {"raise"})>>

\* host_setup() with a --setup-script that makes and removes the testbed.
SshOpen ==
    <<Gain({"share"}, {"rescue"}),
      GainTimed({"inst"}, {"rescue"}),
      Check({"rescue"})>>
SshRevert ==
    <<Gain({"share"}, {"rescue"}),
      Lose(Inside \ {"tar"}, {"rescue"}),
      Check({"rescue"})>>

\* hook_cleanup() removes cleanup_paths in the testbed: a timeout is passed over,
\* any other failure (auxverb may be unset or stale) leaves hook_cleanup() before
\* the setup script is called.  (The list is never emptied.  That it is empty, and
\* no rm is run, before the first can_sudo(), and that the rm is not run after a
\* timeout of downtmp_remove(), are the only cases this leaves more open.)
SshRemovePaths == <<Lose({"pass"}, {"skip", "raise"})>>
SshClose == <<Lose({"share"}, {"skip", "raise"})>>
SshCleanup(paths) ==
    <<DowntmpRemove({"skip"})>> \o paths \o <<Lose({"inst"} \cup Inside, {"raise"})>> \o SshClose

\* The same without a setup script: the machine was there before.
SshPlainOpen    == <<Gain({"share"}, {"rescue"}), Check({"rescue"})>> \o SshSecret \o SshFiles
SshPlainCleanup == <<DowntmpRemove({"skip"})>> \o SshRemovePaths \o SshClose

LOCAL MkHooks(o, t, r, c, x) ==
    [h \in {"open", "tmp", "revert", "cleanup", "rescue", "reboot"} |->
        CASE h = "open" -> o [] h = "tmp" -> t [] h = "revert" -> r
          [] h = "cleanup" -> c [] h = "rescue" -> x [] h = "reboot" -> CmdReboot]

HookTable == [b \in AllBackends |->
    CASE b \in {"null", "chroot"} -> MkHooks(<<>>, DowntmpMktemp, <<>>, NullCleanup, <<>>)
      [] b = "schroot" -> MkHooks(SchrootOpen, SchrootTmp, SchrootRevert, SchrootCleanup, <<>>)
      [] b = "unshare" -> MkHooks(UnshareOpen, DowntmpMktemp, UnshareRevert, UnshareCleanup, <<>>)
      [] b = "lxc"     -> MkHooks(LxcOpen, LxcTmp, LxcRevert, LxcCleanup, LxcCleanup)
      [] b = "lxd"     -> MkHooks(LxdOpen, DowntmpMktemp, LxdRevert, LxdCleanup, LxdRescue)
      [] b = "docker"  -> MkHooks(DockerOpen, DockerTmp, DockerRevert, DockerCleanup, <<>>)
      [] b = "qemu"    -> MkHooks(QemuOpen, DowntmpMktemp, QemuRevert, QemuCleanup, QemuCleanup)
      [] b = "ssh" ->
            [MkHooks(SshOpen \o SshFiles, DowntmpMktemp, SshRevert \o SshFiles,
                     SshCleanup(<<>>), SshCleanup(<<>>))
                EXCEPT !["reboot"] = SshReboot(SshFiles)]
      [] b = "ssh-password" ->
            [MkHooks(SshOpen \o SshSecret \o SshFiles, DowntmpMktemp,
                     SshRevert \o SshSecret \o SshFiles,
                     SshCleanup(SshRemovePaths), SshCleanup(SshRemovePaths))
                EXCEPT !["reboot"] = SshReboot(SshSecret \o SshFiles)]
      [] b = "ssh-plain" ->
            [MkHooks(SshPlainOpen, DowntmpMktemp, <<>>, SshPlainCleanup, SshPlainCleanup)
                EXCEPT !["reboot"] = SshReboot(SshSecret \o SshFiles)]]

\* The capabilities lists, as far as the server itself looks at them.
CapsTable == [b \in AllBackends |->
    CASE b \in {"null", "chroot"} -> {}
      [] b \in {"schroot", "unshare", "docker"} -> {"revert"}
      [] b = "ssh-plain" -> {"reboot"}
      [] OTHER -> {"revert", "reboot"}]

\* parse_args() of unshare makes the root directory before the main loop.
InitialTable == [b \in AllBackends |-> IF b = "unshare" THEN {"dir"} ELSE {}]

SharedBackends == {"lxc", "docker"}
=============================================================================
