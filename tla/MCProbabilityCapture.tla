------------------------- MODULE MCProbabilityCapture -------------------------
(***************************************************************************)
(* Instance of ProbabilityCapture for TLC.                                 *)
(***************************************************************************)
EXTENDS ProbabilityCapture
=============================================================================
