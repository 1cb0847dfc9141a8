---------------------------- MODULE MCBatchDriver ---------------------------
(* A package of each kind, and one whose test is verbose.                  *)
EXTENDS BatchDriver

MCPkgs   == <<"tests", "empty", "nosource", "verbose">>
MCKind   == <<"tests", "empty", "no source", "tests">>
MCStdout == <<1, 1, 0, 3>>
=============================================================================
