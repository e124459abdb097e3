------------------------- MODULE MCMarketScanManager -------------------------
(***************************************************************************)
(* Instances of MarketScanManager for TLC.  Runs and Procs are sets of     *)
(* interchangeable model values.                                           *)
(***************************************************************************)
EXTENDS MarketScanManager, TLC

ProcSymmetry == Permutations(Procs)
RunSymmetry  == Permutations(Runs)
=============================================================================
