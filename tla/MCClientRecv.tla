---------------------------- MODULE MCClientRecv ----------------------------
(* Instances of ClientRecv for TLC.                                        *)
EXTENDS ClientRecv

(* The longest frame and the shortest.                                     *)
LongAndShort == {"UpdatePlayer", "BeachballScored"}

(* For the runs that also cut frames.                                      *)
ShortTags == {"Connected", "BeachballScored"}
=============================================================================
