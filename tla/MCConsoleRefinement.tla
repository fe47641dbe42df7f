------------------------ MODULE MCConsoleRefinement ------------------------
(* Values for ConsoleRefinement.                                           *)
EXTENDS ConsoleRefinement, TLC

Symmetry == Permutations(Clients) \cup Permutations(Fds)
=============================================================================
