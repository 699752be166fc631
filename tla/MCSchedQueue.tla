---------------------------- MODULE MCSchedQueue -----------------------------
(***************************************************************************)
(* SchedQueue for TLC: four environments, so that an element has a first,  *)
(* a middle and a last place and links go stale in every combination.      *)
(***************************************************************************)
EXTENDS SchedQueue, TLC

Symmetry == Permutations(Env)
=============================================================================
