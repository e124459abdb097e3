-------------------------- MODULE MCRuntimeServices --------------------------
(***************************************************************************)
(* Instance of RuntimeServices for TLC.                                    *)
(***************************************************************************)
EXTENDS RuntimeServices, TLC

Symmetry == Permutations(Requests)
=============================================================================
