------------------------------- MODULE Depends ------------------------------
(***************************************************************************)
(* The field Depends of a test, from debian/tests/control to the packages  *)
(* in the testbed: _parse_debian_depends() of lib/testdesc.py expands and  *)
(* checks it and notes which of the source package's own packages it       *)
(* names; satisfy_dependencies_string() of lib/adt_testbed.py resolves     *)
(* architectures; apt satisfies the rest, by a package or by one that      *)
(* provides it; and install_apt() then installs the noted ones for real.   *)
(*                                                                         *)
(* A field is a sequence of groups, a group a sequence of alternatives.    *)
(***************************************************************************)
EXTENDS Naturals, Sequences, FiniteSets, SequencesExt

CONSTANTS
    Sources,  \* sets of binary packages a source package may build
    Fields,   \* the fields Depends to look at
    Pkgs      \* the names of packages, and the words in their place

\* An alternative: `here` if its architecture qualifier includes the testbed,
\* `ok` if _debian_check_dep() accepts it, `parses` if Dpkg::Deps does.  These are
\* two grammars: `foo (>= )` is ok and does not parse, `foo <!nocheck>` parses and
\* is not ok.  A binary package is given by pkg and here.
Alternative == [pkg : Pkgs, here : BOOLEAN, ok : BOOLEAN, parses : BOOLEAN]

Foreign(name) == [pkg |-> name, here |-> TRUE, ok |-> TRUE, parses |-> TRUE]
Own(p) == [Foreign(p.pkg) EXCEPT !.here = p.here]

\* The words that stand for other groups, which neither grammar knows.
Unknown(name) == [pkg |-> name, here |-> TRUE, ok |-> FALSE, parses |-> FALSE]
At         == Unknown("@")
Builddeps  == Unknown("@builddeps@")
Recommends == Unknown("@recommends@")

Group == Seq(Alternative) \ {<<>>}
Word(group) == group \in {<<At>>, <<Builddeps>>, <<Recommends>>}

VARIABLES
    source,   \* the binary packages of debian/control
    field,    \* the groups left to read
    deps,     \* groups to satisfy, as they are; in what order does not matter here
    synth,    \* those of which one own package must be real
    wanted,   \* deps after architectures are resolved: sets of packages
    real,     \* packages installed
    virtual,  \* names that packages installed provide
    all,      \* the whole field
    at        \* "parse", "resolve", "apt", "real", "done", "invalid", "bomb"

vars == <<source, all, field, deps, synth, wanted, real, virtual, at>>

OwnNames == {p.pkg : p \in source}

TypeOK ==
    /\ source \in Sources /\ all \in Fields /\ field \in Seq(Group)
    /\ deps \subseteq Group /\ synth \subseteq deps
    /\ wanted \subseteq SUBSET Pkgs /\ {} \notin wanted
    /\ real \subseteq Pkgs /\ virtual \subseteq Pkgs
    /\ at \in {"parse", "resolve", "apt", "real", "done", "invalid", "bomb"}

Init ==
    /\ source \in Sources /\ all \in Fields /\ field = all
    /\ deps = {} /\ synth = {} /\ wanted = {}
    /\ real = {} /\ virtual = {} /\ at = "parse"
-----------------------------------------------------------------------------
Reads(group) == at = "parse" /\ field # <<>> /\ Head(field) = group /\ field' = Tail(field)

Here(group) == {a \in Range(group) : a.here}
PkgsOf(alternatives) == {a.pkg : a \in alternatives}

\* _debian_packages_from_source() and _synthesize_deps().
ReadAt ==
    /\ Reads(<<At>>)
    /\ deps' = deps \cup {<<Own(p)>> : p \in source}
    /\ synth' = synth \cup {<<Own(p)>> : p \in {q \in source : q.here}}
    /\ UNCHANGED <<source, all, wanted, real, virtual, at>>

\* Build dependencies always include build-essential.  For both words Dpkg::Deps
\* has resolved the architectures.
ReadSourceFields ==
    /\ \/ Reads(<<Builddeps>>)
          /\ deps' = deps \cup {<<Foreign("make")>>, <<Foreign("build-essential")>>}
       \/ Reads(<<Recommends>>) /\ deps' \in {deps, deps \cup {<<Foreign("docs")>>}}
    /\ UNCHANGED <<source, all, synth, wanted, real, virtual, at>>

\* The loop over the alternatives of a group: it ends at the first one that is
\* not a package of this source, and checks no further.
IsForeign(a) == a.pkg \notin OwnNames
Checked(group) ==
    {group[i] : i \in {i \in DOMAIN group : \A j \in 1..i - 1 : ~IsForeign(group[j])}}
Valid(group) == \A a \in Checked(group) : a.ok

\* Mutant of Noted: the ones before a foreign one count.
NotedBeforeForeign(group) == \E a \in Here(group) : ~IsForeign(a)

Noted(group) == Here(group) # {} /\ \A a \in Range(group) : ~IsForeign(a)

\* Mutant of ReadGroup: a group that is noted is not asked of apt.
ReadGroupNotedOnly ==
    /\ field # <<>> /\ ~Word(Head(field)) /\ Reads(Head(field)) /\ Valid(Head(field))
    /\ deps' = IF Noted(Head(field)) THEN deps ELSE deps \cup {Head(field)}
    /\ synth' = IF Noted(Head(field)) THEN synth \cup {Head(field)} ELSE synth
    /\ UNCHANGED <<source, all, wanted, real, virtual, at>>

ReadGroup ==
    /\ field # <<>> /\ ~Word(Head(field)) /\ Reads(Head(field)) /\ Valid(Head(field))
    /\ deps' = deps \cup {Head(field)}
    /\ synth' = IF Noted(Head(field)) THEN synth \cup {Head(field)} ELSE synth
    /\ UNCHANGED <<source, all, wanted, real, virtual, at>>

\* InvalidControl.
ReadInvalid ==
    /\ field # <<>> /\ ~Word(Head(field)) /\ Reads(Head(field)) /\ ~Valid(Head(field))
    /\ at' = "invalid"
    /\ UNCHANGED <<source, all, deps, synth, wanted, real, virtual>>

ParseDone ==
    /\ at = "parse" /\ field = <<>> /\ at' = "resolve"
    /\ UNCHANGED <<source, all, field, deps, synth, wanted, real, virtual>>

\* satisfy_dependencies_string(): deps_parse() and output() of Dpkg::Deps.
Resolve ==
    /\ at = "resolve" /\ \A g \in deps : \A a \in Range(g) : a.parses
    /\ wanted' = {PkgsOf(Here(g)) : g \in deps} \ {{}}
    /\ at' = "apt"
    /\ UNCHANGED <<source, all, field, deps, synth, real, virtual>>

\* deps_parse() returns undef, and perl dies of it: a testbed failure.
Unparsable ==
    /\ at = "resolve" /\ \E g \in deps : \E a \in Range(g) : ~a.parses
    /\ at' = "bomb"
    /\ UNCHANGED <<source, all, field, deps, synth, wanted, real, virtual>>

\* apt-get --fix-broken: of each group something is installed or provided.
Apt ==
    /\ at = "apt" /\ at' = "real"
    /\ real' \in SUBSET UNION wanted /\ virtual' \in SUBSET ((UNION wanted) \ real')
    /\ \A g \in wanted : g \cap (real' \cup virtual') # {}
    /\ UNCHANGED <<source, all, field, deps, synth, wanted>>

\* need_explicit_install: of the noted ones, the first that is only provided.
Provided(a) == a.here /\ a.pkg \in virtual
FirstProvided(group) ==
    {group[i].pkg : i \in {i \in DOMAIN group :
        Provided(group[i]) /\ \A j \in 1..i - 1 : ~Provided(group[j])}}

InstallReal ==
    /\ at = "real" /\ at' = "done"
    /\ real' = real \cup UNION {FirstProvided(g) :
                   g \in {g \in synth : PkgsOf(Here(g)) \cap real = {}}}
    /\ UNCHANGED <<source, all, field, deps, synth, wanted, virtual>>

Done == at \in {"done", "invalid", "bomb"} /\ UNCHANGED vars

Next ==
    \/ ReadAt \/ ReadSourceFields \/ ReadGroup \/ ReadInvalid \/ ParseDone
    \/ Resolve \/ Unparsable \/ Apt \/ InstallReal \/ Done

Spec == Init /\ [][Next]_vars
-----------------------------------------------------------------------------
(* Properties.                                                             *)

\* A test is run with its own packages: of each group that names only packages
\* of this source, and of each package that @ stands for, one of this testbed's
\* architecture is installed for real, not merely provided by something else.
OwnAreReal ==
    at = "done" =>
        /\ <<At>> \in Range(all) => \A p \in source : p.here => p.pkg \in real
        /\ \A g \in Range(all) :
              ~Word(g) /\ PkgsOf(Range(g)) \subseteq OwnNames /\ Here(g) # {}
                  => \E a \in Range(g) : a.here /\ a.pkg \in real

\* Nothing is installed for its own sake that the test has not asked for: an own
\* package that is only one alternative to a foreign one may stay away.
ForcedIsAsked ==
    at = "real" => \A p \in real' \ real : \E g \in deps :
        p \in PkgsOf(Here(g)) /\ PkgsOf(Range(g)) \subseteq OwnNames

NothingForced == [][ForcedIsAsked]_vars

\* Whatever architecture they are for, the groups of the field that concern this
\* testbed are all satisfied before the test runs.
AllSatisfied ==
    at = "done" => \A g \in Range(all) :
        ~Word(g) /\ Here(g) # {} =>
            \E a \in Range(g) : a.here /\ a.pkg \in real \cup virtual

\* The testbed is blamed for a field only where the check of the package could not
\* see what is wrong with it: perl dies of an alternative of the field that dep_re
\* takes, its grammar being a wider one, or that stands behind a foreign package in
\* its group, where nothing is checked.  It is never what @, @builddeps@ or
\* @recommends@ stand for, nor an error that was seen.
BlameFits ==
    at = "bomb" => \E g \in Range(all) : \E j \in DOMAIN g :
        /\ ~Word(g) /\ ~g[j].parses
        /\ g[j].ok \/ \E i \in DOMAIN g : i < j /\ IsForeign(g[i])
-----------------------------------------------------------------------------
(* What the documentation says and the code does not do.  This is not      *)
(* checked as a property of the code: TLC refutes it.                      *)

\* The docstring of _parse_debian_depends(): "Split dependencies (comma separated),
\* validate their syntax, and expand" the words, so that a field with an error in
\* it is the package's fault and never a failure of the testbed.
SyntaxValidated == at # "bomb"
=============================================================================
