-------------------------- MODULE MCUnpackSeeding --------------------------
(* Instances of UnpackSeeding for TLC: the workers are alike. *)
EXTENDS UnpackSeeding, TLC

Symmetry == Permutations(Workers)
=============================================================================
