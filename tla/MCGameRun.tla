----------------------------- MODULE MCGameRun -----------------------------
(* Instances of GameRun for TLC.                                           *)
EXTENDS GameRun

TwoScales == {"scale1", "scale2"}
=============================================================================
