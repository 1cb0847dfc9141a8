---------------------------- MODULE MCQemuAuxverb ---------------------------
(* A command with input and output, and one whose stdin stays open.        *)
EXTENDS QemuAuxverb, TLC

CONSTANTS copy, check

MCInput  == copy :> 2 @@ check :> 0
MCOutput == copy :> 0 @@ check :> 1
MCEnds   == copy :> TRUE @@ check :> FALSE
=============================================================================
