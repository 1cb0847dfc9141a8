----------------------------- MODULE MCQemuPorts ----------------------------
(* The first port of the range is taken.                                   *)
EXTENDS QemuPorts

MCOthers == {1}
=============================================================================
