------------------------------ MODULE TestDesc ------------------------------
(***************************************************************************)
(* From debian/tests/control to the tests that run: parse_debian_source()  *)
(* of lib/testdesc.py, and the selection by --test-name and --skip-test in *)
(* process_actions() of runner/autopkgtest.                                *)
(*                                                                         *)
(* A control file is a sequence of stanzas.  Each is read on its own: its  *)
(* tests are taken or reported as skipped one by one, its Test-Command as  *)
(* a whole, and one that is invalid ends everything.                       *)
(***************************************************************************)
EXTENDS Naturals, Sequences, FiniteSets, SequencesExt

CONSTANTS
    Controls,  \* the control files to read
    Testbeds,  \* capabilities and architecture of the testbed
    Options,   \* --test-name, --skip-test, --ignore-restrictions
    Name,      \* the names in them
    Slashed    \* the names that contain a slash

\* A stanza has the field Tests (with `names`), Test-Command, both or none;
\* `labels` are the values of its test-name features, which may be `bare`.
Stanza == [field : {"tests", "command", "both", "none"}, names : Seq(Name),
           labels : Seq(Name), bare : BOOLEAN, restrictions : SUBSET STRING,
           archs : Seq([neg : BOOLEAN, arch : STRING]), unknown : BOOLEAN,
           dependsValid : BOOLEAN]

ASSUME ControlsAssumption == Controls \subseteq Seq(Stanza)

\* known_restrictions.
Known == {"allow-stderr", "breaks-testbed", "build-needed", "flaky",
          "isolation-container", "isolation-machine", "needs-internet",
          "needs-reboot", "needs-recommends", "needs-root", "needs-sudo",
          "rw-build-tree", "skip-not-installable", "skippable", "superficial"}

\* RESTRICTIONS_REQUIRE_CAPS: of each set the testbed must have one capability.
Requires(r) ==
    CASE r = "breaks-testbed"      -> {{"revert-full-system"}}
      [] r = "needs-internet"      -> {{"has_internet"}}
      [] r = "needs-reboot"        -> {{"reboot"}}
      [] r = "needs-root"          -> {{"root-on-testbed"}}
      [] r = "isolation-container" -> {{"isolation-container", "isolation-machine"}}
      [] r = "isolation-machine"   -> {{"isolation-machine"}}
      [] OTHER                     -> {}

\* A name is a word with a number, so that <<"command", 1>> is the name of the
\* first Test-Command.
CommandName(i) == <<"command", i>>

VARIABLES
    control, testbed, options,
    k,         \* the stanza to read next
    todo,      \* places of names of the stanza before it, yet to be looked at
    counter,   \* command_counter
    tests,     \* the tests taken: name, stanza, and place in its field Tests; in
               \* what order does not matter here
    reports,   \* names reported as skipped
    skipped,   \* some_skipped
    errorcode, \* of the runner
    at         \* "parse", "filter", "run", "none", "invalid"

vars == <<control, testbed, options, k, todo, counter, tests, reports, skipped, errorcode, at>>

Names ==
    (UNION {Range(s.names) \cup Range(s.labels) : s \in Range(control)})
    \cup {CommandName(i) : i \in 1..Len(control)}

TypeOK ==
    /\ control \in Controls /\ testbed \in Testbeds /\ options \in Options
    /\ k \in 1..Len(control) + 1
    /\ todo \subseteq (IF k = 1 THEN {} ELSE DOMAIN control[k - 1].names)
    /\ counter \in 0..k - 1
    /\ tests \subseteq [name : Names, stanza : 1..k - 1, place : Nat]
    /\ reports \subseteq Names
    /\ skipped \in BOOLEAN
    /\ errorcode \in {0, 2, 8, 12}
    /\ at \in {"parse", "filter", "run", "none", "invalid"}

Init ==
    /\ control \in Controls /\ testbed \in Testbeds /\ options \in Options
    /\ k = 1 /\ todo = {} /\ counter = 0 /\ tests = {} /\ reports = {}
    /\ skipped = FALSE /\ errorcode = 0 /\ at = "parse"
-----------------------------------------------------------------------------
\* _matches_architecture() asks dpkg; the wildcard any matches all.
Matches(arch) == arch \in {"any", testbed.arch}

\* Mutant of ArchSupported: a mixed list is taken for a positive one.
ArchSupportedMixed(list) ==
    LET barred == {list[i].arch : i \in {j \in DOMAIN list : list[j].neg}}
        listed == {list[i].arch : i \in {j \in DOMAIN list : ~list[j].neg}}
    IN "all" \notin listed /\ (listed = {} \/ \E a \in listed : Matches(a))

\* _check_architecture(): the names after an exclamation mark, and the others.
ArchSupported(list) ==
    LET barred == {list[i].arch : i \in {j \in DOMAIN list : list[j].neg}}
        listed == {list[i].arch : i \in {j \in DOMAIN list : ~list[j].neg}}
    IN /\ "all" \notin listed
       /\ \/ list = <<>> \/ list = <<[neg |-> FALSE, arch |-> "any"]>>
          \/ /\ \A a \in barred : ~Matches(a)
             /\ listed # {} => barred = {} /\ \E a \in listed : Matches(a)

\* check_testbed_compat().
Compatible(restrictions) ==
    LET effective == restrictions \ options.ignore
    IN /\ effective \subseteq Known
       /\ \A r \in effective : \A any \in Requires(r) : any \cap testbed.caps # {}

\* _debian_check_unknown_fields(), _check_architecture(), Test(),
\* check_testbed_compat().
Supported(n, s) ==
    /\ ~s.unknown /\ ArchSupported(s.archs)
    /\ n \notin Slashed /\ Compatible(s.restrictions)

\* What raises InvalidControl.
Invalid(s) ==
    \/ s.bare \/ Len(s.labels) > 1
    \/ s.field \in {"both", "none"}
    \/ s.field = "tests" /\ (s.names = <<>> \/ s.labels # <<>>)
    \/ ~s.dependsValid

Selected(n) == options.only = {} \/ n \in options.only

\* except Unsupported, of a test and of a stanza.
Skip(n, reported) ==
    /\ reports' = IF reported THEN reports \cup {n} ELSE reports
    /\ skipped' = (skipped \/ reported)
    /\ UNCHANGED tests

Take(n, i, j) ==
    /\ tests' = tests \cup {[name |-> n, stanza |-> i, place |-> j]}
    /\ UNCHANGED <<reports, skipped>>

\* The next stanza is one with Tests.
ReadTests ==
    /\ at = "parse" /\ todo = {} /\ k <= Len(control)
    /\ control[k].field = "tests" /\ ~Invalid(control[k])
    /\ todo' = DOMAIN control[k].names /\ k' = k + 1
    /\ UNCHANGED <<control, testbed, options, counter, tests, reports, skipped, errorcode, at>>

IsNextName(j) == (\A i \in todo : j <= i) /\ todo' = todo \ {j}

\* Mutant of ReadName: skips are reported only if all tests are wanted.
ReadNameQuietly ==
    /\ at = "parse"
    /\ \E j \in todo :
          LET n == control[k - 1].names[j] IN
          /\ IsNextName(j)
          /\ IF Supported(n, control[k - 1]) THEN Take(n, k - 1, j)
             ELSE Skip(n, options.only = {})
    /\ UNCHANGED <<control, testbed, options, k, counter, errorcode, at>>

\* One of its tests.
ReadName ==
    /\ at = "parse"
    /\ \E j \in todo :
          LET n == control[k - 1].names[j] IN
          /\ IsNextName(j)
          /\ IF Supported(n, control[k - 1]) THEN Take(n, k - 1, j)
             ELSE Skip(n, Selected(n))
    /\ UNCHANGED <<control, testbed, options, k, counter, errorcode, at>>

\* The next stanza is one with Test-Command.
ReadCommand ==
    /\ at = "parse" /\ todo = {} /\ k <= Len(control)
    /\ control[k].field = "command" /\ ~Invalid(control[k]) /\ k' = k + 1
    /\ LET s == control[k]
           n == IF s.labels = <<>> THEN CommandName(counter + 1) ELSE s.labels[1]
       IN /\ counter' = IF s.labels = <<>> THEN counter + 1 ELSE counter
          /\ IF Supported(n, s) THEN Take(n, k, 1) ELSE Skip(n, options.only = {})
    /\ UNCHANGED <<control, testbed, options, todo, errorcode, at>>

\* InvalidControl: badpkg().
ReadInvalid ==
    /\ at = "parse" /\ todo = {} /\ k <= Len(control) /\ Invalid(control[k])
    /\ at' = "invalid" /\ errorcode' = 12
    /\ UNCHANGED <<control, testbed, options, k, todo, counter, tests, reports, skipped>>

ParseDone ==
    /\ at = "parse" /\ todo = {} /\ k > Len(control)
    /\ at' = "filter" /\ errorcode' = IF skipped THEN 2 ELSE 0
    /\ UNCHANGED <<control, testbed, options, k, todo, counter, tests, reports, skipped>>

\* process_actions() selects, and run_tests() has nothing to do if nothing is
\* left.
Filter ==
    /\ at = "filter"
    /\ tests' = {t \in tests : Selected(t.name) /\ t.name \notin options.skip}
    /\ at' = IF tests' = {} THEN "none" ELSE "run"
    /\ errorcode' = IF tests' = {} THEN 8 ELSE errorcode
    /\ UNCHANGED <<control, testbed, options, k, todo, counter, reports, skipped>>

Done == at \in {"run", "none", "invalid"} /\ UNCHANGED vars

Next ==
    \/ ReadTests \/ ReadName \/ ReadCommand \/ ReadInvalid \/ ParseDone \/ Filter
    \/ Done

Spec == Init /\ [][Next]_vars
-----------------------------------------------------------------------------
(* Properties.                                                             *)

\* The name a Test-Command has by its place in the control file.
Unlabelled(i) == control[i].field = "command" /\ control[i].labels = <<>>
NameByPlace(i) ==
    IF Unlabelled(i) THEN CommandName(Cardinality({j \in 1..i : Unlabelled(j)}))
    ELSE control[i].labels[1]

DeclaredBy(i) ==
    IF control[i].field = "tests"
    THEN {[name |-> control[i].names[j], stanza |-> i, place |-> j] :
          j \in DOMAIN control[i].names}
    ELSE {[name |-> NameByPlace(i), stanza |-> i, place |-> 1]}

Declared == UNION {DeclaredBy(i) : i \in DOMAIN control}

Chosen == at \in {"run", "none"}
Wanted(t) == Selected(t.name) /\ t.name \notin options.skip

\* No test gets lost: each one that a valid control file declares and the
\* options do not exclude runs or is reported as skipped.  The exception is a
\* Test-Command that was asked for by its name.
NothingLost ==
    Chosen => \A t \in Declared :
        Wanted(t) => \/ t \in tests \/ t.name \in reports
                     \/ control[t.stanza].field = "command" /\ options.only # {}

\* Nothing runs but declared tests that the options leave, and a skip is reported
\* only of a test that was asked for.
NothingElse ==
    Chosen => /\ \A t \in tests : t \in Declared /\ Wanted(t)
              /\ \A n \in reports : Selected(n)

\* An architecture field names architectures, or only ones that it excludes.
ArchAllowed(list) ==
    LET names == {a \in Range(list) : ~a.neg}
    IN IF names = {} THEN \A a \in Range(list) : a.arch \notin {testbed.arch, "any"}
       ELSE /\ names = Range(list)
            /\ \E a \in names : a.arch \in {testbed.arch, "any"}
            /\ \A a \in names : a.arch # "all"

\* A test that runs has what it asks for: an architecture it allows, each
\* restriction known and met by one of the capabilities that it takes, unless
\* the user ignores that restriction.
RunsWhereItMay ==
    \A t \in tests :
        LET s == control[t.stanza]
        IN /\ ArchAllowed(s.archs) /\ ~s.unknown
           /\ \A r \in s.restrictions \ options.ignore :
                 r \in Known /\ \A any \in Requires(r) : \E c \in any : c \in testbed.caps

\* The number of a command is its place in the control file, whatever this
\* testbed can run.
NumbersStable ==
    \A t \in tests :
        control[t.stanza].field = "command" => t.name = NameByPlace(t.stanza)

\* An invalid stanza is never passed over: it ends the run with 12, and else the
\* exit code of the parser says whether something was skipped.
ExitTells ==
    /\ Chosen => \A i \in DOMAIN control : ~Invalid(control[i])
    /\ at = "run" => (errorcode = 2 <=> reports # {})
-----------------------------------------------------------------------------
(* What the documentation says and the code does not do.                   *)

\* The docstring of parse_debian_source(): a test that cannot be run "will be
\* skipped (and reported so)".
SkipsReported ==
    Chosen => \A t \in Declared :
        Wanted(t) => t \in tests \/ t.name \in reports

\* README.running-tests: --output-dir holds "the individual test stdout and
\* stderr output", in files named for the test.
IndividualOutput ==
    at = "run" => \A t, u \in tests : t # u => t.name # u.name
=============================================================================
