----------------------------- MODULE MCOutputs -----------------------------
(* Values for Outputs: the shells of the two consoles.                     *)
EXTENDS Outputs, TLC

Symmetry == Permutations(Shells)
=============================================================================
