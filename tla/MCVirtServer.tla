---------------------------- MODULE MCVirtServer ----------------------------
(* VirtServer with the hooks of the backends of the repository, which keep *)
(* the contracts of HookContracts.                                         *)
EXTENDS HookContracts, TLC

B == INSTANCE Backends

MCBackend    == B!AllBackends
MCHooks      == B!HookTable
MCCaps       == B!CapsTable
MCInitial    == B!InitialTable
MCHostShared == B!SharedBackends
=============================================================================
