--------------------------- MODULE MCMarketScanStore --------------------------
(***************************************************************************)
(* Instances of MarketScanStore for TLC.  Runs and Symbols are sets of     *)
(* interchangeable model values.                                           *)
(***************************************************************************)
EXTENDS MarketScanStore, TLC

RunSymmetry == Permutations(Runs) \cup Permutations(Symbols)
=============================================================================
