----------------------------- MODULE MCKernelEnv -----------------------------
(***************************************************************************)
(* KernelEnv for TLC: three slots, so that one process runs, one waits and *)
(* one is being built or woken; four creations, so that a slot is reused   *)
(* by a process that finds the fields of its predecessor; priority 2, so   *)
(* that a slice both ends and goes on.                                     *)
(***************************************************************************)
EXTENDS KernelEnv
=============================================================================
