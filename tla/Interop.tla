------------------------------ MODULE Interop ------------------------------
(***************************************************************************)
(* The wire format shared by net/server.c and net/client.h                 *)
(* (net/interop.h).  Every message is a 4-byte enum tag followed by a      *)
(* packed body whose size depends on the tag only: there is no length      *)
(* field, so a receiver that loses the frame boundary can not find it      *)
(* again.                                                                  *)
(***************************************************************************)
EXTENDS Naturals

(* sizeof(ClientMsgTag) = sizeof(ServerMsgTag): an enum is an int.         *)
TagSize == 4

(* sizeof of the packed body of each message a client sends.               *)
ClientBody ==
  [ Update              |-> 68,
    UpdateBeachball     |-> 68,
    BeachballScored     |-> 4,
    BeatGame            |-> 8,
    SetName             |-> 28,
    Emote               |-> 4,
    ResetBeachballScore |-> 0 ]

(* sizeof of the packed body of each message the server sends.             *)
ServerBody ==
  [ UpdatePlayer    |-> 76,
    UpdateBeachball |-> 68,
    Connected       |-> 8,
    Disconnected    |-> 8,
    Meta            |-> 8,
    PlayerMeta      |-> 44,
    Emote           |-> 12,
    BeachballScored |-> 4 ]

ClientTag == DOMAIN ClientBody
ServerTag == DOMAIN ServerBody

ClientFrame(tag) == TagSize + ClientBody[tag]
ServerFrame(tag) == TagSize + ServerBody[tag]

(* The longest frame in each direction.                                    *)
MaxClientFrame == 72
MaxServerFrame == 80

(* A value of the tag field that names no message: the default branch of   *)
(* both receivers.                                                         *)
Garbage == "garbage"
=============================================================================
