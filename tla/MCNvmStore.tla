----------------------------- MODULE MCNvmStore -----------------------------
(* Values for NvmStore: the shells of the two consoles.                    *)
EXTENDS NvmStore, TLC

Symmetry == Permutations(Shells)
=============================================================================
