-------------------------- MODULE AptInstallProofs --------------------------
(***************************************************************************)
(* Proofs about the installation of test dependencies, for any packages,   *)
(* releases, pins asked for and numbers of attempts, and whatever the      *)
(* archive lets apt solve: a test sees the pins that its own dependencies  *)
(* leave, and a package is called bad only when it is.                     *)
(*                                                                         *)
(* The pins left are always a prefix of those asked for.  What a longer    *)
(* prefix would give is the heart of the invariant: for every pin given up *)
(* on this testbed, the dependencies installed could not be had with it    *)
(* (GivenUp).  A later test is run on the same testbed only if it depends  *)
(* on all of these, so that they stand in its way, too.                    *)
(***************************************************************************)
EXTENDS AptInstall, SequenceTheorems, TLAPS

\* Solvable(D, F) and the releases of the first k pins, as functions of what is
\* chosen once.
Installs(b, D, F) == (UNION {b[p] : p \in D}) \cap (F \cup {Never}) = {}
First(s, k) == ReleasesIn(SubSeq(s, 1, k))

Installing == {"unpack", "apt", "query", "explicit", "status", "fallback", "purge", "badpkg"}

\* The testbed is as run_setup_commands() has left it, or an installation since.
SetUp == pc \notin {"setup"} \cup Ended

OptionTypes ==
    /\ requests \in Requests /\ requests \in Seq(Release)
    /\ fallback \in BOOLEAN /\ can_revert \in BOOLEAN
    /\ blocks \in [Pkg -> SUBSET (Release \cup {Never})]

StateTypes ==
    /\ pc \in {"setup", "idle", "test"} \cup Installing \cup Ended
    /\ deps \in SUBSET Pkg /\ deps_installed \in SUBSET Pkg
    /\ modified \in BOOLEAN /\ default_file \in BOOLEAN
    /\ satdep \in BOOLEAN /\ unlucky \in BOOLEAN

\* An installation has an attempt left.
Attempts ==
    /\ retries \in 0..Retries
    /\ pc \in Installing \ {"purge", "badpkg"} => retries > 0

Prefix ==
    /\ pins \in Seq(Release)
    /\ Len(pins) <= Len(requests) /\ pins = SubSeq(requests, 1, Len(pins))

\* No release has a file but those of the list; where each is pinned once, they
\* are the same.
Files ==
    /\ files \subseteq Release
    /\ pc # "rm failed" => files \subseteq ReleasesIn(pins)
    /\ pc # "rm failed" /\ ~PinnedTwice => ReleasesIn(pins) \subseteq files

\* The dependencies that reset() will remember.
Current ==
    /\ pc \in Installing => deps # {}
    /\ pc \in Installing \cup {"test"} => deps = deps_installed

\* What the state of the installation says of them.
Solved ==
    /\ pc \in {"query", "explicit", "status"} => satdep = Installs(blocks, deps, files)
    /\ pc = "purge" \/ (pc = "test" /\ deps # {}) => Installs(blocks, deps, files)
    /\ pc = "fallback" /\ ~unlucky => ~Installs(blocks, deps, files)
    /\ pc = "badpkg" /\ ~unlucky =>
          ~Installs(blocks, deps, IF fallback THEN {} ELSE files)

\* The dependencies installed could not be had with any pin more than are left.
GivenUp ==
    SetUp =>
        /\ ~fallback => Len(pins) = Len(requests)
        /\ can_revert /\ ~unlucky /\ ~PinnedTwice =>
              \A k \in 0..Len(requests) :
                  k > Len(pins) => ~Installs(blocks, deps_installed, First(requests, k))

\* The dummy package is left behind only by an installation that has failed, of
\* which reset() knows.
Hidden ==
    /\ pc = "setup" => ~satdep
    /\ pc = "idle" /\ satdep /\ can_revert /\ ~unlucky => deps_installed # {}
    /\ SatdepHidden

IInv ==
    /\ OptionTypes /\ StateTypes /\ Attempts /\ Prefix /\ Files /\ Current /\ Solved
    /\ GivenUp /\ Hidden /\ FallbackWorks

USE DEF options, tests, aptconf
-----------------------------------------------------------------------------
(* What apt can solve, and prefixes.                                       *)

LEMMA SolvableIs ==
    ASSUME NEW D, NEW F
    PROVE  Solvable(D, F) <=> Installs(blocks, D, F)
  BY DEF Solvable, Blockers, Installs

\* More dependencies, or more pins, are never easier.
LEMMA MoreIsHarder ==
    ASSUME NEW b, NEW D, NEW E, D \subseteq E, NEW F, NEW G, F \subseteq G,
           Installs(b, E, G)
    PROVE  Installs(b, D, F)
  BY DEF Installs

LEMMA PrefixOf ==
    ASSUME NEW s \in Seq(Release), NEW k \in 0..Len(s)
    PROVE  /\ SubSeq(s, 1, k) \in Seq(Release)
           /\ Len(SubSeq(s, 1, k)) = k
           /\ \A i \in 1..k : SubSeq(s, 1, k)[i] = s[i] /\ s[i] \in Release
<1>1. Len(s) \in Nat /\ \A i \in 1..Len(s) : s[i] \in Release
  BY LenProperties, ElementOfSeq
<1>2. k \in Int /\ \A i \in 1..k : s[i] \in Release
  BY <1>1
<1>3. /\ SubSeq(s, 1, k) \in Seq(Release)
      /\ Len(SubSeq(s, 1, k)) = IF 1 <= k THEN k - 1 + 1 ELSE 0
      /\ \A i \in 1..k - 1 + 1 : SubSeq(s, 1, k)[i] = s[1 + i - 1]
  BY <1>2, SubSeqProperties
<1>4. k - 1 + 1 = k /\ \A i \in 1..k : 1 + i - 1 = i
  BY <1>1
<1> QED
  BY <1>1, <1>2, <1>3, <1>4

LEMMA FirstIs ==
    ASSUME NEW s \in Seq(Release), NEW k \in 0..Len(s)
    PROVE  First(s, k) = {s[i] : i \in 1..k}
  BY PrefixOf DEF First, ReleasesIn

LEMMA FirstGrows ==
    ASSUME NEW s \in Seq(Release), NEW k \in 0..Len(s), NEW j \in 0..k
    PROVE  First(s, j) \subseteq First(s, k)
<1>1. Len(s) \in Nat
  BY LenProperties
<1>2. j \in 0..Len(s) /\ \A i \in 1..j : i \in 1..k
  BY <1>1
<1> QED
  BY <1>2, FirstIs

\* A pin more, a pin less.
LEMMA OneMore ==
    ASSUME NEW s \in Seq(Release), NEW k \in 0..Len(s), k < Len(s)
    PROVE  /\ Append(SubSeq(s, 1, k), s[k + 1]) = SubSeq(s, 1, k + 1)
           /\ First(s, k + 1) = First(s, k) \cup {s[k + 1]}
           /\ s[k + 1] \in Release
<1>1. Len(s) \in Nat /\ k + 1 \in 0..Len(s) /\ k + 1 \in 1..Len(s)
  BY LenProperties
<1>2. s[k + 1] \in Release
  BY <1>1, ElementOfSeq
<1> DEFINE t == Append(SubSeq(s, 1, k), s[k + 1])
<1>3. /\ SubSeq(s, 1, k) \in Seq(Release) /\ Len(SubSeq(s, 1, k)) = k
      /\ \A i \in 1..k : SubSeq(s, 1, k)[i] = s[i]
  BY PrefixOf
<1>4. /\ SubSeq(s, 1, k + 1) \in Seq(Release) /\ Len(SubSeq(s, 1, k + 1)) = k + 1
      /\ \A i \in 1..k + 1 : SubSeq(s, 1, k + 1)[i] = s[i]
  BY <1>1, PrefixOf
<1>5. t \in Seq(Release) /\ Len(t) = k + 1 /\ t[k + 1] = s[k + 1]
      /\ \A i \in 1..k : t[i] = s[i]
  BY <1>2, <1>3, AppendProperties
<1>6. t = SubSeq(s, 1, k + 1)
  <2>1. \A i \in 1..k + 1 : t[i] = SubSeq(s, 1, k + 1)[i]
    BY <1>4, <1>5
  <2> QED
    BY <1>4, <1>5, <2>1, SeqEqual
<1>7. \A i \in 1..k + 1 : i \in 1..k \/ i = k + 1
  OBVIOUS
<1>8. First(s, k + 1) = First(s, k) \cup {s[k + 1]}
  BY <1>1, <1>7, FirstIs
<1> QED
  BY <1>2, <1>6, <1>8

LEMMA OneLess ==
    ASSUME NEW s \in Seq(Release), NEW k \in 1..Len(s)
    PROVE  /\ SubSeq(SubSeq(s, 1, k), 1, k - 1) = SubSeq(s, 1, k - 1)
           /\ SubSeq(s, 1, k)[k] = s[k]
           /\ Len(SubSeq(s, 1, k - 1)) = k - 1
<1>1. Len(s) \in Nat /\ k \in 0..Len(s) /\ k - 1 \in 0..Len(s) /\ k - 1 \in 0..k
  BY LenProperties
<1> DEFINE t == SubSeq(s, 1, k)
<1>2. t \in Seq(Release) /\ Len(t) = k /\ \A i \in 1..k : t[i] = s[i]
  BY <1>1, PrefixOf
<1>3. /\ SubSeq(t, 1, k - 1) \in Seq(Release) /\ Len(SubSeq(t, 1, k - 1)) = k - 1
      /\ \A i \in 1..k - 1 : SubSeq(t, 1, k - 1)[i] = t[i]
  BY <1>1, <1>2, PrefixOf
<1>4. /\ SubSeq(s, 1, k - 1) \in Seq(Release) /\ Len(SubSeq(s, 1, k - 1)) = k - 1
      /\ \A i \in 1..k - 1 : SubSeq(s, 1, k - 1)[i] = s[i]
  BY <1>1, PrefixOf
<1>5. \A i \in 1..k - 1 : SubSeq(t, 1, k - 1)[i] = SubSeq(s, 1, k - 1)[i]
  BY <1>2, <1>3, <1>4
<1> QED
  BY <1>2, <1>3, <1>4, <1>5, SeqEqual
-----------------------------------------------------------------------------
(* Every step keeps the invariant.                                         *)

ListsStay == OptionTypes /\ Prefix /\ Files /\ FallbackWorks

\* What the types of the lists give.
LEMMA Lists ==
    ASSUME IInv
    PROVE  /\ requests \in Seq(Release) /\ Len(requests) \in Nat
           /\ pins \in Seq(Release) /\ Len(pins) \in 0..Len(requests)
           /\ ReleasesIn(pins) = First(requests, Len(pins))
           /\ ReleasesIn(pins) \subseteq Release
<1>1. requests \in Seq(Release) /\ Len(requests) \in Nat
  BY LenProperties DEF IInv, OptionTypes
<1>2. Len(pins) <= Len(requests) /\ pins = SubSeq(requests, 1, Len(pins))
  BY DEF IInv, Prefix
<1>3. pins \in Seq(Release) /\ Len(pins) \in Nat
  BY LenProperties DEF IInv, Prefix
<1>4. \A i \in 1..Len(pins) : pins[i] \in Release
  BY <1>3, ElementOfSeq
<1>5. ReleasesIn(pins) = First(requests, Len(pins))
  BY <1>2 DEF First
<1> QED
  BY <1>1, <1>2, <1>3, <1>4, <1>5 DEF ReleasesIn

LEMMA NoPins == ReleasesIn(<<>>) = {}
  BY DEF ReleasesIn

LEMMA RetriesPositive == Retries \in Nat /\ Retries > 0
  BY RetriesAssumption

\* A step that leaves the pins alone.
LEMMA ListsKept ==
    ASSUME IInv, UNCHANGED <<options, pins, files>>, pc # "rm failed", pc' # "rm failed"
    PROVE  ListsStay'
  BY DEF IInv, ListsStay, OptionTypes, Prefix, Files, FallbackWorks, PinnedTwice

LEMMA GivenUpKept ==
    ASSUME IInv, UNCHANGED <<options, pins, deps_installed>>, SetUp' => SetUp,
           unlucky => unlucky'
    PROVE  GivenUp'
<1>1. PinnedTwice' <=> PinnedTwice
  BY DEF PinnedTwice
<1> QED
  BY <1>1 DEF IInv, GivenUp

LEMMA InstallKeeps == ASSUME IInv, Install, ~Fallback PROVE IInv'
<1>1. CASE Unpack
  <2>1. StateTypes' /\ Attempts'
    BY <1>1, RetriesPositive DEF Unpack, IInv, StateTypes, Attempts, Installing, Ended
  <2>2. Current' /\ Hidden'
    BY <1>1 DEF Unpack, IInv, Current, Hidden, SatdepHidden, Installing, Ended
  <2>3. Solved'
    BY <1>1 DEF Unpack, IInv, Solved, Ended
  <2>4. ListsStay'
    BY <1>1, ListsKept DEF Unpack, Ended
  <2>5. GivenUp'
    BY <1>1, GivenUpKept DEF Unpack, SetUp, Ended
  <2> QED
    BY <2>1, <2>2, <2>3, <2>4, <2>5 DEF IInv, ListsStay
<1>2. CASE DownloadFails
  <2>0. retries \in Nat /\ retries > 0 /\ retries <= Retries /\ retries' = retries - 1
    BY <1>2, RetriesPositive DEF DownloadFails, IInv, Attempts, Installing
  <2>1. StateTypes' /\ Attempts'
    <3>1. StateTypes'
      BY <1>2 DEF DownloadFails, IInv, StateTypes, Installing, Ended
    <3>2. retries' \in 0..Retries
      BY <2>0, RetriesPositive
    <3>3. pc' = "bombed" \/ retries' > 0
      BY <1>2, <2>0 DEF DownloadFails
    <3> QED
      BY <3>1, <3>2, <3>3 DEF Attempts, Installing
  <2>2. Current' /\ Hidden'
    BY <1>2 DEF DownloadFails, IInv, Current, Hidden, SatdepHidden, Installing, Ended
  <2>3. Solved'
    BY <1>2 DEF DownloadFails, IInv, Solved, Ended
  <2>4. ListsStay'
    BY <1>2, ListsKept DEF DownloadFails, Ended
  <2>5. GivenUp'
    BY <1>2, GivenUpKept DEF DownloadFails, SetUp, Ended
  <2> QED
    BY <2>1, <2>2, <2>3, <2>4, <2>5 DEF IInv, ListsStay
<1>3. CASE InstallFails
  <2>1. StateTypes' /\ Attempts'
    BY <1>3, RetriesPositive DEF InstallFails, IInv, StateTypes, Attempts, Installing, Ended
  <2>2. Current' /\ Hidden'
    BY <1>3 DEF InstallFails, IInv, Current, Hidden, SatdepHidden, Installing, Ended
  <2>3. Solved'
    BY <1>3, SolvableIs DEF InstallFails, IInv, Solved, Ended
  <2>4. ListsStay'
    BY <1>3, ListsKept DEF InstallFails, Ended
  <2>5. GivenUp'
    BY <1>3, GivenUpKept DEF InstallFails, SetUp, Ended
  <2> QED
    BY <2>1, <2>2, <2>3, <2>4, <2>5 DEF IInv, ListsStay
<1>4. CASE FixBroken
  <2>1. StateTypes' /\ Attempts'
    BY <1>4, RetriesPositive DEF FixBroken, IInv, StateTypes, Attempts, Installing, Ended,
       Solvable
  <2>2. Current' /\ Hidden'
    BY <1>4 DEF FixBroken, IInv, Current, Hidden, SatdepHidden, Installing, Ended
  <2>3. Solved'
    BY <1>4, SolvableIs DEF FixBroken, IInv, Solved, Ended
  <2>4. ListsStay'
    BY <1>4, ListsKept DEF FixBroken, Ended
  <2>5. GivenUp'
    BY <1>4, GivenUpKept DEF FixBroken, SetUp, Ended
  <2> QED
    BY <2>1, <2>2, <2>3, <2>4, <2>5 DEF IInv, ListsStay
<1>5. CASE Query
  <2>1. StateTypes' /\ Attempts'
    BY <1>5, RetriesPositive DEF Query, IInv, StateTypes, Attempts, Installing, Ended
  <2>2. Current' /\ Hidden'
    BY <1>5 DEF Query, IInv, Current, Hidden, SatdepHidden, Installing, Ended
  <2>3. Solved'
    BY <1>5 DEF Query, IInv, Solved, Ended
  <2>4. ListsStay'
    BY <1>5, ListsKept DEF Query, Ended
  <2>5. GivenUp'
    BY <1>5, GivenUpKept DEF Query, SetUp, Ended
  <2> QED
    BY <2>1, <2>2, <2>3, <2>4, <2>5 DEF IInv, ListsStay
<1>6. CASE InstallExplicit
  <2>1. StateTypes' /\ Attempts'
    BY <1>6, RetriesPositive DEF InstallExplicit, IInv, StateTypes, Attempts, Installing, Ended
  <2>2. Current' /\ Hidden'
    BY <1>6 DEF InstallExplicit, IInv, Current, Hidden, SatdepHidden, Installing, Ended
  <2>3. Solved'
    BY <1>6 DEF InstallExplicit, IInv, Solved, Ended
  <2>4. ListsStay'
    BY <1>6, ListsKept DEF InstallExplicit, Ended
  <2>5. GivenUp'
    BY <1>6, GivenUpKept DEF InstallExplicit, SetUp, Ended
  <2> QED
    BY <2>1, <2>2, <2>3, <2>4, <2>5 DEF IInv, ListsStay
<1>7. CASE Status
  <2>1. StateTypes' /\ Attempts'
    BY <1>7, RetriesPositive DEF Status, IInv, StateTypes, Attempts, Installing, Ended
  <2>2. Current' /\ Hidden'
    BY <1>7 DEF Status, IInv, Current, Hidden, SatdepHidden, Installing, Ended
  <2>3. Solved'
    BY <1>7 DEF Status, IInv, Solved, Ended
  <2>4. ListsStay'
    BY <1>7, ListsKept DEF Status, Ended
  <2>5. GivenUp'
    BY <1>7, GivenUpKept DEF Status, SetUp, Ended
  <2> QED
    BY <2>1, <2>2, <2>3, <2>4, <2>5 DEF IInv, ListsStay
<1>8. CASE GiveUp
  <2>1. StateTypes' /\ Attempts'
    BY <1>8, RetriesPositive DEF GiveUp, IInv, StateTypes, Attempts, Installing, Ended
  <2>2. Current' /\ Hidden'
    BY <1>8 DEF GiveUp, IInv, Current, Hidden, SatdepHidden, Installing, Ended
  <2>3. Solved'
    <3>1. pins = <<>> => files = {}
      BY <1>8, NoPins DEF GiveUp, IInv, Files
    <3>2. ~unlucky => ~Installs(blocks, deps, files)
      BY <1>8 DEF GiveUp, IInv, Solved
    <3> QED
      BY <1>8, <3>1, <3>2 DEF GiveUp, IInv, Solved
  <2>4. ListsStay'
    BY <1>8, ListsKept DEF GiveUp, Ended
  <2>5. GivenUp'
    BY <1>8, GivenUpKept DEF GiveUp, SetUp, Ended
  <2> QED
    BY <2>1, <2>2, <2>3, <2>4, <2>5 DEF IInv, ListsStay
<1>9. CASE Purge
  <2>1. StateTypes' /\ Attempts'
    BY <1>9, RetriesPositive DEF Purge, IInv, StateTypes, Attempts, Installing, Ended
  <2>2. Current' /\ Hidden'
    BY <1>9 DEF Purge, IInv, Current, Hidden, SatdepHidden, Installing, Ended
  <2>3. Solved'
    BY <1>9 DEF Purge, IInv, Solved, Ended
  <2>4. ListsStay'
    BY <1>9, ListsKept DEF Purge, Ended
  <2>5. GivenUp'
    BY <1>9, GivenUpKept DEF Purge, SetUp, Ended
  <2> QED
    BY <2>1, <2>2, <2>3, <2>4, <2>5 DEF IInv, ListsStay
<1> QED
  BY <1>1, <1>2, <1>3, <1>4, <1>5, <1>6, <1>7, <1>8, <1>9 DEF Install

\* A pin more: run_setup_commands().
LEMMA CreateKeeps == ASSUME IInv, CreatePin PROVE IInv'
<1> DEFINE n == Len(pins)
<1>1. /\ requests \in Seq(Release) /\ n \in 0..Len(requests) /\ n < Len(requests)
      /\ ReleasesIn(pins) = First(requests, n) /\ pins = SubSeq(requests, 1, n)
  BY Lists DEF CreatePin, IInv, Prefix
<1>2. /\ pins' = Append(SubSeq(requests, 1, n), requests[n + 1])
      /\ files' = files \cup {requests[n + 1]}
      /\ UNCHANGED <<options, pc, tests, retries, satdep, unlucky>> /\ pc = "setup"
  BY <1>1 DEF CreatePin
<1>3. /\ pins' = SubSeq(requests, 1, n + 1)
      /\ First(requests, n + 1) = First(requests, n) \cup {requests[n + 1]}
      /\ requests[n + 1] \in Release
  BY <1>1, <1>2, OneMore
<1>4. n + 1 \in 0..Len(requests) /\ Len(requests) \in Nat
  BY <1>1, LenProperties
<1>5. pins' \in Seq(Release) /\ Len(pins') = n + 1
  BY <1>1, <1>3, <1>4, PrefixOf
<1>6. Prefix'
  BY <1>2, <1>3, <1>4, <1>5 DEF Prefix
<1>7. ReleasesIn(pins') = ReleasesIn(pins) \cup {requests[n + 1]}
  BY <1>1, <1>3 DEF First
<1>8. Files'
  BY <1>2, <1>3, <1>7 DEF IInv, Files, PinnedTwice
<1>9. OptionTypes' /\ StateTypes' /\ Attempts'
  BY <1>2 DEF CreatePin, IInv, OptionTypes, StateTypes, Attempts
<1>10. Current' /\ Solved' /\ GivenUp' /\ Hidden' /\ FallbackWorks'
  BY <1>2 DEF IInv, Current, Solved, GivenUp, SetUp, Hidden, SatdepHidden, FallbackWorks,
     Installing
<1> QED
  BY <1>6, <1>8, <1>9, <1>10 DEF IInv

\* A testbed that has been reverted has no pins yet, and nothing is installed.
LEMMA RevertKeeps == ASSUME IInv, NEW D \in SUBSET Pkg, Revert(D) PROVE IInv'
<1>1. /\ pins' = <<>> /\ files' = {} /\ pc' = "setup" /\ ~satdep'
      /\ UNCHANGED <<options, deps, retries>>
  BY DEF Revert
<1>2. Len(requests) \in Nat /\ requests \in Seq(Release)
  BY Lists
<1>3. SubSeq(requests, 1, 0) = <<>> /\ Len(<<>>) = 0 /\ <<>> \in Seq(Release)
  BY SubSeqEmpty, EmptySeq
<1>4. Prefix' /\ Files'
  BY <1>1, <1>2, <1>3, NoPins DEF Prefix, Files
<1>5. OptionTypes' /\ StateTypes' /\ Attempts'
  BY DEF Revert, IInv, OptionTypes, StateTypes, Attempts, Installing
<1>6. Current' /\ Solved' /\ GivenUp' /\ Hidden' /\ FallbackWorks'
  BY <1>1 DEF Current, Solved, GivenUp, SetUp, Hidden, SatdepHidden, FallbackWorks,
     Installing
<1> QED
  BY <1>4, <1>5, <1>6 DEF IInv

\* The next test, on a testbed as it is: it depends on all that is installed.
LEMMA StartKeeps == ASSUME IInv, NEW D \in SUBSET Pkg, StartTest(D) PROVE IInv'
<1>1. /\ pc = "idle" /\ pc' = IF D = {} THEN "test" ELSE "unpack"
      /\ deps' = D /\ deps_installed' = D /\ retries' = Retries
      /\ UNCHANGED <<options, aptconf, satdep, unlucky>>
      /\ can_revert => deps_installed \subseteq D
  BY DEF StartTest, MustRevert
<1>2. ListsStay'
  BY <1>1, ListsKept
<1>3. StateTypes'
  BY <1>1 DEF StartTest, IInv, StateTypes, Installing, Ended
<1>4. Attempts'
  BY <1>1, RetriesPositive DEF Attempts
<1>5. Current' /\ Solved'
  BY <1>1 DEF Current, Solved, Installing
<1>6. Hidden'
  BY <1>1 DEF IInv, Hidden, SatdepHidden
<1>7. GivenUp'
  <2>1. PinnedTwice' <=> PinnedTwice
    BY <1>1 DEF PinnedTwice
  <2>2. ASSUME can_revert, NEW F, ~Installs(blocks, deps_installed, F)
        PROVE  ~Installs(blocks, D, F)
    BY <1>1, <2>2, MoreIsHarder
  <2>3. SetUp
    BY <1>1 DEF SetUp, Ended
  <2> QED
    BY <1>1, <2>1, <2>2, <2>3 DEF IInv, GivenUp
<1> QED
  BY <1>2, <1>3, <1>4, <1>5, <1>6, <1>7 DEF IInv, ListsStay

\* The end of the setup and of a test, and a command that fails.
LEMMA LoopKeeps ==
    ASSUME IInv, SetupDone \/ EndTest \/ SkipTest \/ CommandFails
    PROVE  IInv'
<1>1. CASE SetupDone
  <2>1. StateTypes' /\ Attempts' /\ Current' /\ Solved'
    BY <1>1 DEF SetupDone, IInv, StateTypes, Attempts, Current, Solved, Installing
  <2>2. Hidden'
    BY <1>1 DEF SetupDone, IInv, Hidden, SatdepHidden
  <2>3. ListsStay'
    BY <1>1, ListsKept DEF SetupDone
  <2>4. GivenUp'
    BY <1>1, Lists DEF SetupDone, GivenUp
  <2> QED
    BY <2>1, <2>2, <2>3, <2>4 DEF IInv, ListsStay
<1>2. CASE EndTest
  <2>1. StateTypes' /\ Attempts' /\ Current' /\ Solved'
    BY <1>2 DEF EndTest, IInv, StateTypes, Attempts, Current, Solved, Installing
  <2>2. Hidden'
    BY <1>2 DEF EndTest, IInv, Hidden, SatdepHidden
  <2>3. ListsStay'
    BY <1>2, ListsKept DEF EndTest
  <2>4. GivenUp'
    BY <1>2, GivenUpKept DEF EndTest, SetUp, Ended
  <2> QED
    BY <2>1, <2>2, <2>3, <2>4 DEF IInv, ListsStay
<1>3. CASE SkipTest
  <2>1. StateTypes' /\ Attempts' /\ Current' /\ Solved'
    BY <1>3 DEF SkipTest, IInv, StateTypes, Attempts, Current, Solved, Installing
  <2>2. Hidden'
    BY <1>3 DEF SkipTest, IInv, Current, Hidden, SatdepHidden, Installing
  <2>3. ListsStay'
    BY <1>3, ListsKept DEF SkipTest
  <2>4. GivenUp'
    BY <1>3, GivenUpKept DEF SkipTest, SetUp, Ended
  <2> QED
    BY <2>1, <2>2, <2>3, <2>4 DEF IInv, ListsStay
<1>4. CASE CommandFails
  <2>1. StateTypes' /\ Attempts' /\ Current' /\ Solved' /\ Hidden'
    BY <1>4 DEF CommandFails, IInv, StateTypes, Attempts, Current, Solved, Hidden,
       SatdepHidden, Installing, Ended
  <2>2. ListsStay'
    BY <1>4, ListsKept DEF CommandFails
  <2>3. GivenUp'
    BY <1>4 DEF CommandFails, GivenUp, SetUp, Ended
  <2> QED
    BY <2>1, <2>2, <2>3 DEF IInv, ListsStay
<1> QED
  BY <1>1, <1>2, <1>3, <1>4

LEMMA LastOne ==
    \A N \in Nat : \A l \in 1..N :
        /\ l \in 1..N /\ \A i \in 1..l - 1 : i \in 1..N /\ i # l
        /\ \A k \in 0..N : k > l - 1 => k > l \/ k = l
  OBVIOUS

\* A pin less: that of the longest prefix, which could not be had.
LEMMA FallbackKeeps == ASSUME IInv, Fallback PROVE IInv'
<1> DEFINE n == Len(pins)
           release == requests[n]
<1>1. /\ requests \in Seq(Release) /\ Len(requests) \in Nat /\ n \in 1..Len(requests)
      /\ ReleasesIn(pins) = First(requests, n) /\ pins = SubSeq(requests, 1, n)
  <2>1. n # 0
    BY Lists, EmptySeq DEF Fallback
  <2> QED
    BY <2>1, Lists DEF IInv, Prefix
<1>2. /\ n \in Nat /\ n - 1 \in 0..Len(requests) /\ n - 1 < Len(requests) /\ (n - 1) + 1 = n
      /\ Len(requests) \in Nat /\ n \in 1..Len(requests)
  BY <1>1
<1>3. /\ SubSeq(pins, 1, n - 1) = SubSeq(requests, 1, n - 1) /\ pins[n] = release
      /\ Len(SubSeq(requests, 1, n - 1)) = n - 1
  BY <1>1, OneLess
<1>4. First(requests, n) = First(requests, n - 1) \cup {release} /\ release \in Release
  BY <1>1, <1>2, OneMore
<1>5. /\ pc = "fallback" /\ fallback
      /\ pins' = SubSeq(requests, 1, n - 1) /\ Len(pins') = n - 1
      /\ UNCHANGED <<options, tests, retries, satdep, unlucky>>
      /\ \/ release \in files \ Dotted /\ files' = files \ {release} /\ pc' = "unpack"
         \/ release \notin files \ Dotted /\ files' = files /\ pc' = "rm failed"
  BY <1>3 DEF Fallback
<1>6. Prefix'
  <2>1. pins' \in Seq(Release)
    BY <1>1, <1>2, <1>5, PrefixOf
  <2>2. requests' = requests /\ Len(pins') = n - 1
    BY <1>5
  <2>3. pins' = SubSeq(requests, 1, Len(pins'))
    BY <1>5
  <2> QED
    BY <1>2, <2>1, <2>2, <2>3 DEF Prefix
<1>7. ReleasesIn(pins') = First(requests, n - 1)
  BY <1>5 DEF First
<1>8. ~PinnedTwice => release \notin First(requests, n - 1)
  <2>0. DOMAIN requests = 1..Len(requests)
    BY <1>1, LenProperties
  <2>1. \A i \in 1..n - 1 : i \in DOMAIN requests /\ n \in DOMAIN requests /\ i # n
    BY <1>2, <2>0, LastOne
  <2>2. First(requests, n - 1) = {requests[i] : i \in 1..n - 1}
    BY <1>1, <1>2, FirstIs
  <2> QED
    BY <2>1, <2>2 DEF PinnedTwice
<1>9. PinnedTwice' <=> PinnedTwice
  BY <1>5 DEF PinnedTwice
<1>10. Files'
  BY <1>1, <1>4, <1>5, <1>7, <1>8, <1>9 DEF IInv, Files
<1>11. FallbackWorks'
  <2>1. CASE pc' = "rm failed" /\ ~PinnedTwice
    <3>1. release \in files
      BY <1>1, <1>4, <1>5, <2>1 DEF IInv, Files
    <3>2. release \in Dotted
      BY <1>5, <2>1, <3>1
    <3>3. n \in DOMAIN requests
      BY <1>1, LenProperties
    <3>4. \E i \in DOMAIN requests : requests[i] \in Dotted
      BY <3>2, <3>3
    <3> QED
      BY <1>5, <3>4 DEF FallbackWorks
  <2> QED
    BY <1>9, <2>1 DEF FallbackWorks
<1>12. OptionTypes' /\ StateTypes' /\ Attempts'
  <2>1. default_file' \in BOOLEAN
    BY DEF Fallback, IInv, StateTypes
  <2> QED
    BY <1>5, <2>1 DEF IInv, OptionTypes, StateTypes, Attempts, Installing, Ended
<1>13. Current' /\ Solved' /\ Hidden'
  BY <1>5 DEF IInv, Current, Solved, Hidden, SatdepHidden, Installing
<1>14. GivenUp'
  <2>1. CASE pc' = "rm failed"
    BY <2>1 DEF GivenUp, SetUp, Ended
  <2>2. ASSUME pc' = "unpack", can_revert, ~unlucky, ~PinnedTwice,
               NEW k \in 0..Len(requests), k > n - 1
        PROVE  ~Installs(blocks, deps_installed, First(requests, k))
    <3>1. SetUp /\ deps = deps_installed
      BY <1>5 DEF IInv, SetUp, Ended, Current, Installing
    <3>2. CASE k > n
      BY <2>2, <3>1, <3>2 DEF IInv, GivenUp
    <3>3. CASE k = n
      <4>1. ~Installs(blocks, deps, files)
        BY <1>5, <2>2 DEF IInv, Solved
      <4>2. files = First(requests, n)
        BY <1>1, <1>5, <2>2 DEF IInv, Files
      <4> QED
        BY <3>1, <3>3, <4>1, <4>2
    <3>4. k > n \/ k = n
      BY <1>2, <2>2, LastOne
    <3> QED
      BY <3>2, <3>3, <3>4
  <2> QED
    BY <1>5, <1>9, <2>1, <2>2 DEF GivenUp
<1> QED
  BY <1>6, <1>10, <1>11, <1>12, <1>13, <1>14 DEF IInv

LEMMA Inductive == Spec => []IInv
<1>1. Init => IInv
  <2> SUFFICES ASSUME Init PROVE IInv
    OBVIOUS
  <2>1. requests \in Seq(Release)
    BY RequestsAssumption DEF Init
  <2>2. ReleasesIn(requests) \subseteq Release
    BY <2>1, LenProperties, ElementOfSeq DEF ReleasesIn
  <2>3. OptionTypes
    BY <2>1, <2>2 DEF Init, OptionTypes
  <2>4. StateTypes /\ Attempts
    <3>1. StateTypes
      BY DEF Init, StateTypes
    <3>2. Attempts
      BY RetriesPositive DEF Init, Attempts, Installing
    <3> QED
      BY <3>1, <3>2
  <2>5. Prefix
    <3>1. SubSeq(requests, 1, 0) = <<>> /\ Len(<<>>) = 0 /\ <<>> \in Seq(Release)
      BY SubSeqEmpty, EmptySeq
    <3>2. Len(requests) \in Nat
      BY <2>1, LenProperties
    <3> QED
      BY <3>1, <3>2 DEF Init, Prefix
  <2>6. Files
    BY NoPins DEF Init, Files
  <2>7. Current /\ Solved /\ GivenUp /\ Hidden /\ FallbackWorks
    BY DEF Init, Current, Solved, GivenUp, SetUp, Hidden, SatdepHidden, FallbackWorks,
       Installing
  <2> QED
    BY <2>3, <2>4, <2>5, <2>6, <2>7 DEF IInv
<1>2. IInv /\ [Next]_vars => IInv'
  <2>1. ASSUME IInv, UNCHANGED vars PROVE IInv'
    <3>1. OptionTypes' /\ StateTypes' /\ Attempts' /\ Current' /\ Solved'
      BY <2>1 DEF vars, IInv, OptionTypes, StateTypes, Attempts, Current, Solved
    <3>2. Prefix' /\ Files' /\ GivenUp'
      BY <2>1 DEF vars, IInv, Prefix, Files, PinnedTwice, GivenUp, SetUp
    <3>3. Hidden' /\ FallbackWorks'
      BY <2>1 DEF vars, IInv, Hidden, SatdepHidden, FallbackWorks, PinnedTwice
    <3> QED
      BY <3>1, <3>2, <3>3 DEF IInv
  <2> QED
    BY <2>1, CreateKeeps, RevertKeeps, StartKeeps, LoopKeeps, FallbackKeeps, InstallKeeps
    DEF Next, Terminated
<1> QED
  BY <1>1, <1>2, PTL DEF Spec
-----------------------------------------------------------------------------
(* Theorems.                                                               *)

\* The pins left are the longest prefix of those asked for that the dependencies
\* can be had with.
LEMMA LongestPrefix ==
    ASSUME IInv, pc = "test", deps # {}, can_revert, ~unlucky, ~PinnedTwice
    PROVE  pins = FreshPins(deps)
<1> DEFINE n == Len(pins)
           good == {k \in 0..Len(requests) : Solvable(deps, ReleasesIn(SubSeq(requests, 1, k)))}
<1>1. /\ requests \in Seq(Release) /\ Len(requests) \in Nat /\ n \in 0..Len(requests)
      /\ ReleasesIn(pins) = First(requests, n) /\ pins = SubSeq(requests, 1, n)
  BY Lists DEF IInv, Prefix
<1>2. SetUp /\ deps = deps_installed
  BY DEF IInv, SetUp, Ended, Current
<1>3. CASE ~fallback
  <2>1. n = Len(requests)
    BY <1>2, <1>3 DEF IInv, GivenUp
  <2>2. pins = requests
    BY <1>1, <2>1, SubSeqFull
  <2> QED
    BY <1>3, <2>2 DEF FreshPins
<1>4. CASE fallback
  <2>1. \A k \in 0..Len(requests) : k \in good <=> Installs(blocks, deps, First(requests, k))
    BY SolvableIs DEF First
  <2>2. n \in good
    <3>1. Installs(blocks, deps, files) /\ files = First(requests, n)
      BY <1>1 DEF IInv, Solved, Files
    <3> QED
      BY <1>1, <2>1, <3>1
  <2>3. \A k \in good : k <= n
    BY <1>1, <1>2, <2>1 DEF IInv, GivenUp
  <2>4. n = CHOOSE k \in good : \A j \in good : j <= k
    <3>0. n \in Nat /\ good \subseteq Nat
      BY <1>1
    <3>1. \A k \in good : (\A j \in good : j <= k) => k = n
      <4> SUFFICES ASSUME NEW k \in good, \A j \in good : j <= k PROVE k = n
        OBVIOUS
      <4>1. n <= k /\ k <= n
        BY <2>2, <2>3
      <4> QED
        BY <3>0, <4>1
    <3> QED
      BY <2>2, <2>3, <3>1
  <2>5. FreshPins(deps) = SubSeq(requests, 1, CHOOSE k \in good : \A j \in good : j <= k)
    BY <1>4, <2>2 DEF FreshPins
  <2> QED
    BY <1>1, <2>4, <2>5
<1> QED
  BY <1>3, <1>4 DEF IInv, OptionTypes

\* TestsAlike: the program knows the pins of the testbed, a test sees those that
\* its own dependencies leave, and none sees the dummy package.
THEOREM TestsSeeTheirPins == Spec => []TestsAlike
<1>1. IInv => TestsAlike
  <2> SUFFICES ASSUME IInv PROVE TestsAlike
    OBVIOUS
  <2>1. TypeOK
    <3>1. pins \in Seq(Release) /\ files \in SUBSET Release
      BY DEF IInv, Prefix, Files
    <3>2. retries \in 0..Retries
      BY DEF IInv, Attempts
    <3>3. pc \in {"setup", "idle", "unpack", "apt", "query", "explicit", "status",
                  "fallback", "purge", "test", "badpkg"} \cup Ended
      BY DEF IInv, StateTypes, Installing
    <3> QED
      BY <3>1, <3>2, <3>3, Zenon DEF IInv, OptionTypes, StateTypes, TypeOK
  <2>2. PinsKnown
    BY DEF IInv, Files, PinsKnown
  <2>3. PinsAsFresh
    BY LongestPrefix DEF PinsAsFresh
  <2>4. SatdepHidden
    BY DEF IInv, Hidden
  <2> QED
    BY <2>1, <2>2, <2>3, <2>4 DEF TestsAlike
<1> QED
  BY <1>1, Inductive, PTL

\* FallbackHelps: a package is called bad only when apt cannot install it, and a
\* pin that is given up does not end the run.
THEOREM BadPackagesAreBad == Spec => []FallbackHelps
<1>1. IInv => FallbackHelps
  <2>1. IInv => BadIsBad
    BY SolvableIs DEF IInv, Solved, BadIsBad
  <2> QED
    BY <2>1 DEF IInv, FallbackHelps
<1> QED
  BY <1>1, Inductive, PTL
=============================================================================
