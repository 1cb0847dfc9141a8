----------------------------- MODULE MCRunTests -----------------------------
(* RunTests with every set of capabilities, and tests that carry one       *)
(* restriction, or one of the pairs run_tests() or the testbed reads       *)
(* together.                                                               *)
EXTENDS RunTests, TLC

MCRestriction ==
    {{}} \cup {{r} : r \in KnownRestrictions}
         \cup {{"breaks-testbed", "needs-sudo"}, {"flaky", "needs-sudo"},
               {"superficial", "breaks-testbed"}, {"skip-not-installable", "flaky"}}
MCCapSet == {c \in SUBSET Capability : "revert-full-system" \in c => "revert" \in c}
Symmetry == Permutations(Pkg)
=============================================================================
