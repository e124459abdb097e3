-------------------------- MODULE MCProviderRuntime --------------------------
(***************************************************************************)
(* Instance of ProviderRuntime for TLC.                                    *)
(***************************************************************************)
EXTENDS ProviderRuntime, TLC

CallerSymmetry == Permutations(Callers)
KeySymmetry    == Permutations(Keys)
Symmetry       == CallerSymmetry \cup KeySymmetry
=============================================================================
