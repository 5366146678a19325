-------------------------- MODULE MCControlLifecycle --------------------------
(***************************************************************************)
(* Instances of ControlLifecycle for TLC.                                  *)
(***************************************************************************)
EXTENDS ControlLifecycle, TLC

Symmetry == Permutations(Admins) \cup Permutations(Obligations)
===============================================================================
