---------------------------- MODULE MCServerRecv ----------------------------
(* Instances of ServerRecv for TLC.                                        *)
EXTENDS ServerRecv

(* The longest message, a short one, and the reset.                        *)
WithResets == {"Update", "Emote", "ResetBeachballScore"}

(* A client whose messages are short, so that a cut is soon followed.      *)
ShortFrames == {"Emote", "BeachballScored", "ResetBeachballScore"}
=============================================================================
