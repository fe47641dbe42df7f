--------------------------- MODULE MCCredentials ---------------------------
(* Values for Credentials: an address that is not 0 follows the fields. *)
EXTENDS Credentials, TLC

MCRest == <<"b", Nul>>
Symmetry == Permutations(Shells)
=============================================================================
