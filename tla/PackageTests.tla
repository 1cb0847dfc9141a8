---------------------------- MODULE PackageTests ----------------------------
(***************************************************************************)
(* A source package: its control file (TestDesc) and the field Depends of  *)
(* the last stanza of it (Depends).  parse_debian_source() parses the      *)
(* field of a stanza before it takes the tests of it, and what it finds    *)
(* there decides whether the stanza is valid; the runner satisfies it      *)
(* before it runs such a test, if one is left.                             *)
(***************************************************************************)
EXTENDS TestDesc

CONSTANTS
    Sources, Fields, Pkgs,  \* as in Depends
    Subjects                \* [control, source, field] to look at

VARIABLES
    source, all, field, deps, synth, wanted, real, virtual,
    depends   \* how far the field has got: `at` of Depends

dvars == <<source, all, field, deps, synth, wanted, real, virtual, depends>>

D == INSTANCE Depends WITH at <- depends

ASSUME FieldsAssumption ==
    /\ {"make", "build-essential", "docs"} \subseteq Pkgs
    /\ \A s \in Sources : s \subseteq [pkg : Pkgs, here : BOOLEAN]
    /\ Fields \subseteq Seq(D!Group)

\* The verdict that ReadGroup and ReadInvalid come to: stanza and field of a
\* package that is looked at must agree.
Parses(f) == \A g \in Range(f) : D!Word(g) \/ D!Valid(g)

PackageTypeOK == TypeOK /\ D!TypeOK

PackageInit ==
    /\ \E p \in Subjects : control = p.control /\ source = p.source /\ all = p.field
    /\ control # <<>> => (Last(control).dependsValid <=> Parses(all))
    /\ Init /\ D!Init

\* The stanza of the field is the next one.
IsNext == at = "parse" /\ todo = {} /\ k = Len(control)

ParseField ==
    /\ IsNext /\ depends = "parse"
    /\ D!Next
    /\ UNCHANGED vars

ReadControl ==
    /\ IsNext => depends # "parse"
    /\ at \notin {"run", "none", "invalid"}
    /\ Next
    /\ UNCHANGED dvars

\* A test of that stanza is left.
Needed == at = "run" /\ \E t \in tests : t.stanza = Len(control)

\* install_deps() for it.
Satisfy ==
    /\ Needed /\ depends \in {"resolve", "apt", "real"}
    /\ D!Next
    /\ UNCHANGED vars

Rests ==
    /\ at \in {"run", "none", "invalid"} /\ (Needed => depends \in {"done", "bomb"})
    /\ UNCHANGED <<vars, dvars>>

PackageNext == ParseField \/ ReadControl \/ Satisfy \/ Rests

PackageSpec == PackageInit /\ [][PackageNext]_<<vars, dvars>>
-----------------------------------------------------------------------------
(* Properties.                                                             *)

\* The tests and the exit code are what the control file and the options say,
\* whichever stanza is skipped, and in whatever order.
AsDeclared ==
    PackageTypeOK /\ NothingLost /\ NothingElse /\ NumbersStable /\ ExitTells

\* A test runs with every group of its dependencies satisfied, its own packages
\* real ones; the testbed is blamed for an error in the field only where the check
\* of the package passed it over.
DependenciesMet == D!OwnAreReal /\ D!AllSatisfied /\ D!BlameFits

\* As in Depends: nothing is installed for its own sake.
NothingForced == D!NothingForced
=============================================================================
