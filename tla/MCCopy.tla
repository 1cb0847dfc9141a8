------------------------------- MODULE MCCopy -------------------------------
(* Every way a copy may go.                                                *)
EXTENDS Copy

MCCopies == Shared \cup {Piped}
=============================================================================
