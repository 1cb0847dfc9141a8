------------------------------ MODULE MCWrapper -----------------------------
(* Two tests of any users; one process number is within another one.       *)
EXTENDS Wrapper

MCUsers   == [1 .. N -> {"root", "user"}]
MCPids    == {<<1>>, <<2>>, <<3>>, <<5>>, <<5, 1>>}
MCMishaps == SUBSET Mishap
=============================================================================
