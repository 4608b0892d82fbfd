-------------------------- MODULE MCXraySupervisor --------------------------
(* The Xray supervisor on small instances.                                 *)
EXTENDS XraySupervisor, TLC

Symmetry == Permutations(Handlers)
=============================================================================
