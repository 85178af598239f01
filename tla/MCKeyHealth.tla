---------------------------- MODULE MCKeyHealth ----------------------------
(***************************************************************************)
(* Instances of KeyHealth for TLC.                                         *)
(***************************************************************************)
EXTENDS KeyHealth

CONSTANTS k1, k2, k3

OneKey == <<k1>>
TwoKeys == <<k1, k2>>

(* The environment's keys are told apart by their order, the checks not. *)
Symmetry == Permutations(Checks)
=============================================================================
