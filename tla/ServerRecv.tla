----------------------------- MODULE ServerRecv -----------------------------
(***************************************************************************)
(* The receive path of the server for one accepted socket: the tcs_receive *)
(* into UserData.buf, the loop that cuts the bytes into messages, and the  *)
(* compaction of what is left (net/server.c, main, lines 186-372).         *)
(*                                                                         *)
(* The byte stream is abstracted to the frames the client wrote, each with *)
(* the offset of its first byte; buf holds the bytes base .. base + end-1  *)
(* of the stream.  A tag read at the offset of a frame is that frame's     *)
(* tag.  A tag read anywhere else is four bytes of somebody's payload      *)
(* (floats, names, ids), hence any tag at all or Garbage.                  *)
(*                                                                         *)
(* The client writes with tcs_send and TCS_MSG_SENDALL on a nonblocking    *)
(* socket.  When it would block, any prefix of the frame has been written; *)
(* the library then only clears its `connected' flag, and until it         *)
(* reconnects every further message still goes to the same socket          *)
(* (net/client.h, lines 66-168).                                           *)
(***************************************************************************)
EXTENDS Interop, Sequences

CONSTANTS
  BufSize,    (* RECV_BUFSIZE                                              *)
  Sendable,   (* the tags this client sends                                *)
  MaxFrames,  (* bound: how many frames the client sends                   *)
  MaxCut      (* bound: how many of them are cut short                     *)

ASSUME BufSizeAssumption   == BufSize \in Nat /\ BufSize >= MaxClientFrame
ASSUME SendableAssumption  == Sendable \subseteq ClientTag
ASSUME BoundsAssumption    == MaxFrames \in Nat /\ MaxCut \in Nat

VARIABLES
  sent,       (* the frames written by the client: [tag, at]               *)
  sentBytes,  (* how many bytes they take                                  *)
  cut,        (* how many of them lack their end                           *)
  conn,       (* "open", "shut" (orderly close by the client), "reset"     *)
              (* (connection error), "gone" (a receive failed) or          *)
              (* "expelled" (the default branch): disconnect() has run     *)
  base,       (* stream offset of buf[0]                                   *)
  start, end, (* UserData.start and UserData.end                           *)
  pc,         (* "poll" or "loop": where the server is for this socket     *)
  looping,    (* the local variable of the loop                            *)
  handled     (* the messages the handlers have run for: [tag, at]         *)

vars == <<sent, sentBytes, cut, conn, base, start, end, pc, looping, handled>>

Frame == [tag : ClientTag, at : Nat]

TypeOK ==
  /\ sent \in Seq(Frame)
  /\ sentBytes \in Nat
  /\ cut \in 0 .. MaxCut
  /\ conn \in {"open", "shut", "reset", "gone", "expelled"}
  /\ base \in Nat
  /\ start \in Nat
  /\ end \in 0 .. BufSize
  /\ pc \in {"poll", "loop"}
  /\ looping \in {0, 1}
  /\ handled \in Seq(Frame)

Init ==
  /\ sent = << >>
  /\ sentBytes = 0
  /\ cut = 0
  /\ conn = "open"
  /\ base = 0
  /\ start = 0
  /\ end = 0
  /\ pc = "poll"
  /\ looping = 0
  /\ handled = << >>

-----------------------------------------------------------------------------
(* The client's side of the socket.                                        *)

Send(tag) ==
  /\ conn = "open"
  /\ Len(sent) < MaxFrames
  /\ sent' = Append(sent, [tag |-> tag, at |-> sentBytes])
  /\ sentBytes' = sentBytes + ClientFrame(tag)
  /\ UNCHANGED <<cut, conn, base, start, end, pc, looping, handled>>

(* Only the first n bytes fit.  With less than a whole tag it is no frame, *)
(* just bytes in the way of the next one; with n = 0 it is lost.           *)
SendCut(tag) ==
  /\ conn = "open"
  /\ Len(sent) < MaxFrames
  /\ cut < MaxCut
  /\ cut' = cut + 1
  /\ \E n \in 0 .. ClientFrame(tag) - 1 :
        /\ sentBytes' = sentBytes + n
        /\ sent' = IF n < TagSize THEN sent
                   ELSE Append(sent, [tag |-> tag, at |-> sentBytes])
  /\ UNCHANGED <<conn, base, start, end, pc, looping, handled>>

(* The client closes after its last frame, or the connection breaks and    *)
(* the bytes that have not been received are lost.                         *)
Close(how) ==
  /\ conn = "open"
  /\ conn' = how
  /\ UNCHANGED <<sent, sentBytes, cut, base, start, end, pc, looping, handled>>

-----------------------------------------------------------------------------
(* tcs_receive: at most RECV_BUFSIZE - end bytes, as few as the network    *)
(* chose to deliver.                                                       *)

Unread == sentBytes - (base + end)

Receive ==
  /\ pc = "poll"
  /\ conn \in {"open", "shut"}
  /\ \E n \in 1 .. BufSize :
        /\ n <= Unread
        /\ n <= BufSize - end
        /\ end' = end + n
  /\ pc' = "loop"
  /\ looping' = 1
  /\ UNCHANGED <<sent, sentBytes, cut, conn, base, start, handled>>

(* The receive gets no bytes: an error, the end of the stream once every   *)
(* byte is read, or a full buf, for which tcs_receive is asked for 0 bytes *)
(* and answers TCS_SHUTDOWN (tinycsocket.h, lines 3169-3175) though the    *)
(* connection is alive and holds more.                                     *)
NoBytes ==
  \/ conn = "reset"
  \/ conn = "shut" /\ Unread = 0
  \/ conn \in {"open", "shut"} /\ Unread > 0 /\ end = BufSize

(* A failed receive: the session is dropped.                               *)
ReceiveFails ==
  /\ pc = "poll"
  /\ NoBytes
  /\ conn' = "gone"
  /\ UNCHANGED <<sent, sentBytes, cut, base, start, end, pc, looping, handled>>

-----------------------------------------------------------------------------
(* The loop over buf.                                                      *)

TagsAt(pos) ==
  IF \E k \in DOMAIN sent : sent[k].at = pos
  THEN {sent[k].tag : k \in {j \in DOMAIN sent : sent[j].at = pos}}
  ELSE ClientTag \union {Garbage}

(* Mutant: the last byte of a message may be missing.                      *)
HasFullButOne(from, n) == end + 1 >= from + n + TagSize

(* Mutant: the last byte of a message must be followed by another one.     *)
HasFullOffByOne(from, n) == end > from + n + TagSize

(* has_full_message(n), when the message at buffer index `from' is there.  *)
HasFull(from, n) == end >= from + n + TagSize

InLoop == pc = "loop" /\ looping = 1 /\ start + TagSize <= end

(* Mutant: has_full_message steps over the body and forgets the tag.       *)
HandleOneBodyOnly(tag) ==
  /\ InLoop
  /\ tag \in TagsAt(base + start) \ {Garbage, "ResetBeachballScore"}
  /\ IF HasFull(start, ClientBody[tag])
     THEN /\ start' = start + ClientBody[tag]
          /\ handled' = Append(handled, [tag |-> tag, at |-> base + start])
          /\ UNCHANGED looping
     ELSE /\ looping' = 0
          /\ UNCHANGED <<start, handled>>
  /\ UNCHANGED <<sent, sentBytes, cut, conn, base, end, pc>>

(* Every case of the switch but ResetBeachballScore and default.           *)
HandleOne(tag) ==
  /\ InLoop
  /\ tag \in TagsAt(base + start) \ {Garbage, "ResetBeachballScore"}
  /\ IF HasFull(start, ClientBody[tag])
     THEN /\ start' = start + ClientFrame(tag)
          /\ handled' = Append(handled, [tag |-> tag, at |-> base + start])
          /\ UNCHANGED looping
     ELSE /\ looping' = 0
          /\ UNCHANGED <<start, handled>>
  /\ UNCHANGED <<sent, sentBytes, cut, conn, base, end, pc>>

(* ResetBeachballScore has no break: the code of UpdateBeachball runs next *)
(* on whatever follows the reset in buf, its tag unread.                   *)
HandleReset ==
  /\ InLoop
  /\ "ResetBeachballScore" \in TagsAt(base + start)
  /\ LET next  == start + TagSize
         reset == [tag |-> "ResetBeachballScore", at |-> base + start]
         ball  == [tag |-> "UpdateBeachball", at |-> base + next]
     IN  IF HasFull(next, ClientBody["UpdateBeachball"])
         THEN /\ start' = next + ClientFrame("UpdateBeachball")
              /\ handled' = handled \o <<reset, ball>>
              /\ UNCHANGED looping
         ELSE /\ start' = next
              /\ handled' = Append(handled, reset)
              /\ looping' = 0
  /\ UNCHANGED <<sent, sentBytes, cut, conn, base, end, pc>>

(* The default branch: disconnect() and leave the loop.  user_data is      *)
(* freed, and lines 360-371 then read it: whatever they do to the freed    *)
(* bytes, the session is gone.                                             *)
HandleGarbage ==
  /\ InLoop
  /\ Garbage \in TagsAt(base + start)
  /\ conn' = "expelled"
  /\ pc' = "poll"
  /\ looping' = 0
  /\ UNCHANGED <<sent, sentBytes, cut, base, start, end, handled>>

(* Mutant: the indices move to the front but the bytes do not.             *)
CompactWithoutMove ==
  /\ pc = "loop"
  /\ ~ InLoop
  /\ pc' = "poll"
  /\ looping' = 0
  /\ start' = 0
  /\ end' = end - start
  /\ UNCHANGED <<sent, sentBytes, cut, conn, base, handled>>

(* Mutant: the buffer is always reset, a partial message thrown away.      *)
CompactToEmpty ==
  /\ pc = "loop"
  /\ ~ InLoop
  /\ pc' = "poll"
  /\ looping' = 0
  /\ base' = base + end
  /\ start' = 0
  /\ end' = 0
  /\ UNCHANGED <<sent, sentBytes, cut, conn, handled>>

(* The loop is over: reset the indices or move the rest to the front.      *)
Compact ==
  /\ pc = "loop"
  /\ ~ InLoop
  /\ pc' = "poll"
  /\ looping' = 0
  /\ base' = base + start
  /\ start' = 0
  /\ end' = end - start
  /\ UNCHANGED <<sent, sentBytes, cut, conn, handled>>

-----------------------------------------------------------------------------
Client == \/ \E tag \in Sendable : Send(tag) \/ SendCut(tag)
          \/ \E how \in {"shut", "reset"} : Close(how)

Server ==
  \/ Receive
  \/ ReceiveFails
  \/ \E tag \in ClientTag : HandleOne(tag)
  \/ HandleReset
  \/ HandleGarbage
  \/ Compact

Next == Client \/ Server

Spec == Init /\ [][Next]_vars

(* while (69): the server polls and receives for ever; the client owes     *)
(* nothing.                                                                *)
FairSpec == Spec /\ WF_vars(Server)

-----------------------------------------------------------------------------
(* Properties.                                                             *)

NoResetHandled ==
  \A k \in DOMAIN handled : handled[k].tag # "ResetBeachballScore"

(* Nothing has happened yet that can make the server lose the frame        *)
(* boundary.                                                               *)
Intact == cut = 0 /\ NoResetHandled

(* Between two receives the buffer starts at index 0 and holds less than   *)
(* one frame, so the next receive always has room.  Were buf ever full     *)
(* here, tcs_receive would be asked for 0 bytes and would answer           *)
(* TCS_SHUTDOWN: a client that is there would be dropped, with what it     *)
(* has sent (lines 190-197).                                               *)
RoomToReceive ==
  pc = "poll" /\ conn # "expelled" => start = 0 /\ end < MaxClientFrame

(* Until a write is cut or a reset handled, the handlers have run for      *)
(* exactly the first messages the client wrote, in order and once each,    *)
(* however the network cut and joined them (lines 203-371).                *)
InOrderWhileIntact ==
  Intact =>
    /\ Len(handled) <= Len(sent)
    /\ \A k \in DOMAIN handled : handled[k] = sent[k]

(* A client that speaks the protocol is thrown out by the default branch   *)
(* (line 350) only after one of its writes was cut or one of its resets    *)
(* handled.                                                                *)
ExpelledForCause == conn = "expelled" => ~ Intact

(* The default branch is there for a state that must not happen: its text  *)
(* is "WEIRD STATE DETECTED" (line 351).  No client that sends only the    *)
(* messages of interop.h should get there.                                 *)
NoWeirdState == conn # "expelled"

(* When the client closes in order, the session ends, and every message it *)
(* wrote is handled before disconnect() runs, if the frames are intact.    *)
OrderlyCloseDeliversAll ==
  conn = "shut" ~> (conn \in {"gone", "expelled"} /\ (Intact => handled = sent))

Fifo == INSTANCE FrameFifo WITH link <- conn, MayAbandon <- FALSE

(* Until a write is cut or a reset handled, the receive path is a FIFO of  *)
(* whole messages.                                                         *)
ImplementsFifo == Fifo!Init /\ [][Intact' => Fifo!Next]_(Fifo!vars)

-----------------------------------------------------------------------------
(* The inductive invariant behind the safety properties.                   *)

(* The offset of the k-th of the frames, or of the one still to be written *)
(* after them.                                                             *)
Offset(frames, bytes, k) == IF k <= Len(frames) THEN frames[k].at ELSE bytes

(* While they are whole the frames lie one after the other, from offset 0; *)
(* their order is that of their offsets in any case.                       *)
Layout ==
  /\ cut = 0 => Offset(sent, sentBytes, 1) = 0
  /\ cut = 0 => \A k \in 1 .. Len(sent) :
        Offset(sent, sentBytes, k + 1) = sent[k].at + ClientFrame(sent[k].tag)
  /\ \A k \in 1 .. Len(sent) : sent[k].at < sentBytes
  /\ \A j, k \in 1 .. Len(sent) : j < k => sent[j].at < sent[k].at

(* buf holds bytes that were sent; the loop runs for a live session; and   *)
(* it clears looping only for a message whose end is missing.              *)
Extent ==
  /\ start <= end
  /\ base + end <= sentBytes
  /\ pc = "poll" => looping = 0
  /\ pc = "loop" => conn \in {"open", "shut", "reset"}
  /\ pc = "loop" /\ looping = 0 => end < start + MaxClientFrame

(* The parse position is the offset of the next frame to handle.           *)
Aligned ==
  Intact => base + start = Offset(sent, sentBytes, Len(handled) + 1)

(* When the loop is left, the next frame is not completely in buf.         *)
Drained ==
  /\ Intact
  /\ Len(handled) < Len(sent)
  /\ looping = 0
  => base + end < Offset(sent, sentBytes, Len(handled) + 2)

IInv ==
  /\ TypeOK
  /\ Layout
  /\ Extent
  /\ InOrderWhileIntact
  /\ Aligned
  /\ Drained
  /\ RoomToReceive
  /\ ExpelledForCause
=============================================================================
