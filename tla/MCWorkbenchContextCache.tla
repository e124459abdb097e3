----------------------- MODULE MCWorkbenchContextCache -----------------------
(***************************************************************************)
(* Instance of WorkbenchContextCache for TLC.                              *)
(***************************************************************************)
EXTENDS WorkbenchContextCache, TLC

Symmetry == Permutations(Clients) \cup Permutations(Builds) \cup Permutations(Symbols)
=============================================================================
