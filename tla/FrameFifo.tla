----------------------------- MODULE FrameFifo ------------------------------
(***************************************************************************)
(* What a receive path promises to the code that uses it: the messages the *)
(* peer wrote, whole, once each, in the order they were written, and all   *)
(* of them when the peer closes in order and the receiver does not give up *)
(* the link itself.  net/server.c (ServerRecv) and net/client.h            *)
(* (ClientRecv) are each shown to implement it.                            *)
(***************************************************************************)
EXTENDS Naturals, Sequences

CONSTANTS
  Frame,              (* the frames a peer can write                       *)
  MayAbandon          (* whether the receiver may give up a live link      *)

VARIABLES
  sent,               (* what the peer has written                         *)
  handled,            (* what the receiver has been given                  *)
  link                (* "open", "shut", "reset" or "gone"                 *)

vars == <<sent, handled, link>>

Init ==
  /\ sent = << >>
  /\ handled = << >>
  /\ link \in {"open", "gone"}

Write ==
  /\ link = "open"
  /\ Len(sent') = Len(sent) + 1
  /\ sent'[Len(sent) + 1] \in Frame
  /\ sent' = Append(sent, sent'[Len(sent) + 1])
  /\ UNCHANGED <<handled, link>>

Close ==
  /\ link = "open"
  /\ link' \in {"shut", "reset"}
  /\ UNCHANGED <<sent, handled>>

Deliver ==
  /\ link # "gone"
  /\ Len(handled) < Len(sent)
  /\ handled' = Append(handled, sent[Len(handled) + 1])
  /\ \/ link' = link
     \/ link = "reset" /\ link' = "gone"
  /\ UNCHANGED sent

(* A receiver that does not abandon links leaves one that was closed in    *)
(* order only when it has nothing left to deliver.                         *)
HangUp ==
  /\ \/ link = "reset"
     \/ link = "shut" /\ handled = sent
     \/ MayAbandon /\ link # "gone"
  /\ link' = "gone"
  /\ UNCHANGED <<sent, handled>>

(* A new link, with nothing of the old one in it.                          *)
Reopen ==
  /\ link = "gone"
  /\ link' = "open"
  /\ sent' = << >>
  /\ handled' = << >>

Next == Write \/ Close \/ Deliver \/ HangUp \/ Reopen

Spec == Init /\ [][Next]_vars
=============================================================================
