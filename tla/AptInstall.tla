----------------------------- MODULE AptInstall -----------------------------
(***************************************************************************)
(* Installing test dependencies with apt: Testbed.install_apt() with its   *)
(* two ways of trying again (a failed download, and a pin that is in the   *)
(* way), the pins that run_setup_commands() puts on the testbed, and the   *)
(* reverts of reset() between the tests, which put them there again.       *)
(*                                                                         *)
(* `files` is the truth, the pin files in /etc/apt/preferences.d; `pins`   *)
(* is what the program believes, apt_pin_for_releases.  `blocks` says what *)
(* apt can solve: a package is out of reach while one of the releases in   *)
(* blocks[p] is pinned, and always when that set holds Never.              *)
(***************************************************************************)
EXTENDS Naturals, Sequences, FiniteSets

CONSTANTS
    Pkg,          \* packages a test may depend on
    Release,      \* releases named by --pin-packages and --apt-pocket
    Dotted,       \* those whose name holds a dot or a slash
    Requests,     \* sequences of pins the command line may ask for
    Never,        \* a package with this in `blocks` cannot be installed at all
    Retries       \* download_fail_retries

ASSUME ReleaseAssumption == Never \notin Release /\ Dotted \subseteq Release
ASSUME RequestsAssumption == Requests \subseteq Seq(Release)
ASSUME RetriesAssumption == Retries \in Nat \ {0}

VARIABLES
    requests,     \* pin_packages and the pockets with packages, in order
    fallback,     \* enable_apt_fallback
    can_revert,   \* the testbed has the capability revert
    blocks,       \* what the archive and the pins allow
    pc,           \* "setup", "idle", "unpack", "apt", "query", "explicit",
                  \* "status", "purge", "test", or how the run ended
    deps,         \* the dependencies of the current test
    deps_installed,
    modified,
    pins,         \* apt_pin_for_releases
    files,        \* releases with a pin file on the testbed
    default_file, \* autopkgtest-default-release exists
    retries,      \* download_fail_retries
    satdep,       \* the dummy package autopkgtest-satdep is in the testbed
    unlucky       \* an apt command failed for a reason of its own

options == <<requests, fallback, can_revert, blocks>>
tests   == <<deps, deps_installed, modified>>
aptconf == <<pins, files, default_file>>
vars == <<options, pc, tests, aptconf, retries, satdep, unlucky>>

Ended == {"bombed", "rm failed"}

ReleasesIn(s) == {s[i] : i \in 1..Len(s)}

TypeOK ==
    /\ requests \in Requests
    /\ fallback \in BOOLEAN /\ can_revert \in BOOLEAN
    /\ blocks \in [Pkg -> SUBSET (Release \cup {Never})]
    /\ pc \in {"setup", "idle", "unpack", "apt", "query", "explicit", "status",
               "fallback", "purge", "test", "badpkg"} \cup Ended
    /\ deps \in SUBSET Pkg /\ deps_installed \in SUBSET Pkg
    /\ modified \in BOOLEAN
    /\ pins \in Seq(Release)
    /\ files \in SUBSET Release
    /\ default_file \in BOOLEAN
    /\ retries \in 0..Retries
    /\ satdep \in BOOLEAN /\ unlucky \in BOOLEAN

Init ==
    /\ requests \in Requests
    /\ fallback \in BOOLEAN /\ can_revert \in BOOLEAN
    /\ blocks \in [Pkg -> SUBSET (ReleasesIn(requests) \cup {Never})]
    /\ pc = "setup"
    /\ deps = {} /\ deps_installed = {} /\ modified = FALSE
    /\ pins = <<>> /\ files = {} /\ default_file = FALSE
    /\ retries = Retries /\ satdep = FALSE
    /\ unlucky = FALSE

\* What stands in the way of the dependencies D.
Blockers(D) == UNION {blocks[p] : p \in D}

\* apt can install D while the releases in F are pinned.
Solvable(D, F) == Blockers(D) \cap (F \cup {Never}) = {}

-----------------------------------------------------------------------------
(* run_setup_commands(): one pin after the other.                          *)

\* _create_apt_pinning_for_packages() for the next request: the file of the
\* release is written (over an older one), the default release is pinned.
CreatePin ==
    /\ pc = "setup" /\ Len(pins) < Len(requests)
    /\ LET release == requests[Len(pins) + 1] IN
         /\ files' = files \cup {release}
         /\ pins' = Append(pins, release)
    /\ default_file' = TRUE
    /\ UNCHANGED <<options, pc, tests, retries, satdep, unlucky>>

SetupDone ==
    /\ pc = "setup" /\ Len(pins) = Len(requests)
    /\ pc' = "idle"
    /\ UNCHANGED <<options, tests, aptconf, retries, satdep, unlucky>>

\* A command that must not fail does: bomb().
CommandFails ==
    /\ pc \in {"setup", "unpack", "fallback", "purge"}
    /\ pc' = "bombed"
    /\ UNCHANGED <<options, tests, aptconf, retries, satdep, unlucky>>
-----------------------------------------------------------------------------
(* The loop over the tests, as far as it matters here.                     *)

\* Mutant of MustRevert: reset() reverts only a modified testbed.
MustRevertModified(D) == can_revert /\ modified

MustRevert(D) == can_revert /\ (modified \/ ~(deps_installed \subseteq D))

\* reset() with a revert: _opened() forgets the pins and run_setup_commands()
\* makes them anew.
Revert(D) ==
    /\ pc = "idle" /\ MustRevert(D)
    /\ pins' = <<>> /\ files' = {} /\ default_file' = FALSE
    /\ satdep' = FALSE /\ deps_installed' = {} /\ modified' = FALSE
    /\ unlucky' = FALSE
    /\ pc' = "setup"
    /\ UNCHANGED <<options, deps, retries>>

\* reset() without one, and install_deps(): with no dependencies there is
\* nothing to install.
StartTest(D) ==
    /\ pc = "idle" /\ ~MustRevert(D)
    /\ deps' = D /\ deps_installed' = D
    /\ modified' = FALSE
    /\ retries' = Retries
    /\ pc' = IF D = {} THEN "test" ELSE "unpack"
    /\ UNCHANGED <<options, aptconf, satdep, unlucky>>

\* The test runs; it may ask for a revert, as one with breaks-testbed does.
EndTest ==
    /\ pc = "test"
    /\ pc' = "idle"
    /\ modified' \in BOOLEAN
    /\ UNCHANGED <<options, deps, deps_installed, aptconf, retries, satdep, unlucky>>

\* A BadPackageError is reported and the loop goes on with the next test.
SkipTest ==
    /\ pc = "badpkg"
    /\ pc' = "idle"
    /\ UNCHANGED <<options, tests, aptconf, retries, satdep, unlucky>>
-----------------------------------------------------------------------------
(* install_apt().                                                          *)

Unpack ==
    /\ pc = "unpack"
    /\ satdep' = TRUE
    /\ pc' = "apt"
    /\ UNCHANGED <<options, tests, aptconf, retries, unlucky>>

\* Mutant of DownloadFails: the attempts are not counted.
DownloadFailsAgain ==
    /\ pc \in {"apt", "explicit"}
    /\ pc' = "unpack"
    /\ UNCHANGED <<options, tests, aptconf, retries, satdep, unlucky>>

\* AptDownloadError, out of either call of _run_apt_install().
DownloadFails ==
    /\ pc \in {"apt", "explicit"}
    /\ retries' = retries - 1
    /\ pc' = IF retries > 1 THEN "unpack" ELSE "bombed"
    /\ UNCHANGED <<options, tests, aptconf, satdep, unlucky>>

\* AptPermanentError: the solver finds no way, or a package does not install.
InstallFails ==
    /\ pc \in {"apt", "explicit"}
    /\ pc' = "fallback"
    /\ unlucky' = (unlucky \/ pc = "explicit" \/ Solvable(deps, files))
    /\ UNCHANGED <<options, tests, aptconf, retries, satdep>>

\* apt-get --fix-broken succeeds: with the dependencies installed, or, if it
\* could not, by removing the dummy package.
FixBroken ==
    /\ pc = "apt"
    /\ pc' = "query"
    /\ satdep' = Solvable(deps, files)
    /\ UNCHANGED <<options, tests, aptconf, retries, unlucky>>

\* The packages of "@": is_real_package_installed() says which of them are
\* there only as virtual ones; dpkg-query may fail, which is a badpkg().
Query ==
    /\ pc = "query"
    /\ \/ pc' \in {"explicit", "status"} /\ UNCHANGED unlucky
       \/ pc' = "badpkg" /\ unlucky' = TRUE
    /\ UNCHANGED <<options, tests, aptconf, retries, satdep>>

InstallExplicit ==
    /\ pc = "explicit"
    /\ pc' = "status"
    /\ UNCHANGED <<options, tests, aptconf, retries, satdep, unlucky>>

\* dpkg --status autopkgtest-satdep.
Status ==
    /\ pc = "status"
    /\ pc' = IF satdep THEN "purge" ELSE "fallback"
    /\ UNCHANGED <<options, tests, aptconf, retries, satdep, unlucky>>

\* Mutant of Fallback: the pin is not taken off the list.
FallbackKeepsPin ==
    /\ pc = "fallback" /\ fallback /\ pins # <<>>
    /\ LET release == pins[Len(pins)] IN
         \/ release \in files \ Dotted /\ files' = files \ {release} /\ pc' = "unpack"
         \/ release \notin files \ Dotted /\ pc' = "rm failed" /\ UNCHANGED files
    /\ UNCHANGED <<options, tests, pins, default_file, retries, satdep, unlucky>>

\* The last pin is given up: rm without -f of autopkgtest-<release>, although
\* the file was written under the name without dots and slashes.
Fallback ==
    /\ pc = "fallback" /\ fallback /\ pins # <<>>
    /\ LET release == pins[Len(pins)] IN
         /\ pins' = SubSeq(pins, 1, Len(pins) - 1)
         /\ \/ /\ release \in files \ Dotted
               /\ files' = files \ {release}
               /\ default_file' = (default_file /\ Len(pins) > 1)
               /\ pc' = "unpack"
            \/ /\ release \notin files \ Dotted
               /\ pc' = "rm failed"
               /\ UNCHANGED <<files, default_file>>
    /\ UNCHANGED <<options, tests, retries, satdep, unlucky>>

\* No pin is left to give up, or --no-apt-fallback: badpkg().
GiveUp ==
    /\ pc = "fallback" /\ (pins = <<>> \/ ~fallback)
    /\ pc' = "badpkg"
    /\ UNCHANGED <<options, tests, aptconf, retries, satdep, unlucky>>

\* The dependencies are marked as wanted and the dummy package goes; nobody
\* looks whether dpkg --purge has worked.
Purge ==
    /\ pc = "purge"
    /\ pc' = "test"
    /\ \/ satdep' = FALSE /\ UNCHANGED unlucky
       \/ UNCHANGED satdep /\ unlucky' = TRUE
    /\ UNCHANGED <<options, tests, aptconf, retries>>

Terminated == pc \in Ended /\ UNCHANGED vars

Install ==
    \/ Unpack \/ DownloadFails \/ InstallFails \/ FixBroken \/ Query
    \/ InstallExplicit \/ Status \/ Fallback \/ GiveUp \/ Purge

Next ==
    \/ CreatePin \/ SetupDone \/ CommandFails
    \/ \E D \in SUBSET Pkg : Revert(D) \/ StartTest(D)
    \/ EndTest \/ SkipTest \/ Install \/ Terminated

Spec == Init /\ [][Next]_vars

\* Every command on the testbed has a timeout, so an installation goes on.
FairSpec == Spec /\ WF_vars(Install)
-----------------------------------------------------------------------------
(* Properties.                                                             *)

\* The longest prefix of the requested pins under which apt can install D: what
\* a testbed made for D alone ends with.
FreshPins(D) ==
    LET good == {k \in 0..Len(requests) : Solvable(D, ReleasesIn(SubSeq(requests, 1, k)))}
    IN IF fallback /\ good # {}
       THEN SubSeq(requests, 1, CHOOSE k \in good : \A j \in good : j <= k)
       ELSE requests

\* Some release is pinned twice: two elements of the list, one file.
PinnedTwice == \E i, j \in DOMAIN requests : i # j /\ requests[i] = requests[j]

\* apt_pin_for_releases names the pins of the testbed, whatever was reverted or
\* given up before: _opened(), run_setup_commands(), install_apt().
PinsKnown == pc # "rm failed" /\ ~PinnedTwice => ReleasesIn(pins) = files

\* With each release pinned once, a test that runs on a testbed that can revert
\* sees the pins that its own dependencies leave, not what an earlier test made
\* the fallback give up.
PinsAsFresh ==
    pc = "test" /\ deps # {} /\ can_revert /\ ~unlucky /\ ~PinnedTwice
        => pins = FreshPins(deps)

\* install_apt() calls a package bad only when neither the pins that are left
\* nor, with the fallback, the archive itself lets apt install it.
BadIsBad ==
    pc = "badpkg" /\ ~unlucky =>
        ~Solvable(deps, IF fallback THEN {} ELSE files)

\* No test sees the dummy package on a testbed that can revert.
SatdepHidden == pc = "test" /\ satdep => ~can_revert \/ unlucky

\* A test sees the testbed as if it were the only one, and the program knows the
\* testbed it has.
TestsAlike == TypeOK /\ PinsKnown /\ PinsAsFresh /\ SatdepHidden

\* The manual page: the fallback is used when installation fails due to strict
\* pinning; it does not end the run, unless the file of a pin has another name
\* than its release or is that of an earlier pin, too.
FallbackWorks ==
    pc = "rm failed" => PinnedTwice \/ \E i \in DOMAIN requests : requests[i] \in Dotted

\* Nothing but a package that cannot be had is called bad, and no pin that is
\* given up ends the run.
FallbackHelps == BadIsBad /\ FallbackWorks

\* However often downloads fail and pins are given up, install_apt() ends.
InstallEnds == pc = "unpack" ~> pc \in {"test", "badpkg"} \cup Ended
-----------------------------------------------------------------------------
(* What the documentation says and the code does not do.                   *)

\* The comment before the purge, for every testbed: "remove autopkgtest-satdep
\* to avoid confusing tests".
SatdepRemoved == pc = "test" /\ satdep => unlucky

\* The manual page: the fallback is there for the "case installation of dependencies
\* fails due to strict pinning", so it is not what ends the run.  (The file of a
\* release with a dot in its name is looked for under another name, and that of a
\* release pinned twice has gone: rm fails.)
FallbackNeverFatal == pc # "rm failed"
=============================================================================
