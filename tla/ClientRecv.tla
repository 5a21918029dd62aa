----------------------------- MODULE ClientRecv -----------------------------
(***************************************************************************)
(* The client library of the game, net/client.h: badcop_poll_msg and the   *)
(* receive path under it, the `connected' flag every send and receive can  *)
(* clear, and the reconnect after RECONNECT_AFTER seconds.                 *)
(*                                                                         *)
(* One behaviour covers any number of sockets one after the other: sent,   *)
(* handled and the offsets are those of the current socket.  The stream is *)
(* abstracted as in ServerRecv.  The server writes with tcs_send and       *)
(* TCS_MSG_SENDALL on a nonblocking socket and ignores the result          *)
(* (net/server.c, line 43): when the kernel's send buffer fills up, any    *)
(* prefix of the frame may have been written, and the next frame follows.  *)
(***************************************************************************)
EXTENDS Interop, Sequences

CONSTANTS
  BufSize,         (* RECV_BUFSIZE                                         *)
  ReconnectAfter,  (* RECONNECT_AFTER, in seconds                          *)
  Sendable,        (* the tags the server sends                            *)
  MaxFrames,       (* bound: frames the server sends on one socket         *)
  MaxCut           (* bound: how many of them are cut short                *)

ASSUME BufSizeAssumption   == BufSize \in Nat /\ BufSize >= MaxServerFrame
ASSUME ReconnectAssumption == ReconnectAfter \in Nat
ASSUME SendableAssumption  == Sendable \subseteq ServerTag
ASSUME BoundsAssumption    == MaxFrames \in Nat /\ MaxCut \in Nat

VARIABLES
  sent,         (* the frames written on this socket: [tag, at]            *)
  sentBytes,    (* how many bytes they take                                *)
  cut,          (* how many of them lack their end                         *)
  conn,         (* the server's side: "open", "shut" or "reset"            *)
  connected,    (* the flag of that name                                   *)
  elapsed,      (* seconds since disconnected_at, up to RECONNECT_AFTER    *)
  base,         (* stream offset of buf[0]                                 *)
  start, end, looping,  (* the fields of the static UserData               *)
  handled       (* the messages returned from this socket: [tag, at]       *)

stream == <<sent, sentBytes, cut, conn>>
user   == <<start, end, looping>>
vars   == <<stream, connected, elapsed, base, user, handled>>

Frame == [tag : ServerTag, at : Nat]

TypeOK ==
  /\ sent \in Seq(Frame)
  /\ sentBytes \in Nat
  /\ cut \in 0 .. MaxCut
  /\ conn \in {"open", "shut", "reset"}
  /\ connected \in {0, 1}
  /\ elapsed \in 0 .. ReconnectAfter
  /\ base \in Nat
  /\ start \in Nat
  /\ end \in 0 .. BufSize
  /\ looping \in {0, 1}
  /\ handled \in Seq(Frame)

(* main.ks calls badcop_init before the first frame; here it has either    *)
(* connected or failed (lines 285-313).                                    *)
Init ==
  /\ sent = << >>
  /\ sentBytes = 0
  /\ cut = 0
  /\ conn = "open"
  /\ connected \in {0, 1}
  /\ elapsed = 0
  /\ base = 0
  /\ start = 0
  /\ end = 0
  /\ looping = 0
  /\ handled = << >>

-----------------------------------------------------------------------------
(* The server's side of the socket.                                        *)

ServerSend(tag) ==
  /\ connected = 1
  /\ conn = "open"
  /\ Len(sent) < MaxFrames
  /\ sent' = Append(sent, [tag |-> tag, at |-> sentBytes])
  /\ sentBytes' = sentBytes + ServerFrame(tag)
  /\ UNCHANGED <<cut, conn, connected, elapsed, base, user, handled>>

(* Only the first n bytes fit.  With less than a whole tag it is no frame, *)
(* just bytes in the way of the next one; with n = 0 it is lost.           *)
ServerSendCut(tag) ==
  /\ connected = 1
  /\ conn = "open"
  /\ Len(sent) < MaxFrames
  /\ cut < MaxCut
  /\ cut' = cut + 1
  /\ \E n \in 0 .. ServerFrame(tag) - 1 :
        /\ sentBytes' = sentBytes + n
        /\ sent' = IF n < TagSize THEN sent
                   ELSE Append(sent, [tag |-> tag, at |-> sentBytes])
  /\ UNCHANGED <<conn, connected, elapsed, base, user, handled>>

ServerClose(how) ==
  /\ connected = 1
  /\ conn = "open"
  /\ conn' = how
  /\ UNCHANGED <<sent, sentBytes, cut, connected, elapsed, base, user, handled>>

-----------------------------------------------------------------------------
(* time(NULL) moves on.                                                    *)
Tick ==
  /\ elapsed < ReconnectAfter
  /\ elapsed' = elapsed + 1
  /\ UNCHANGED <<stream, connected, base, user, handled>>

(* _set_connected(0), from a call made while connected: stamp the time of  *)
(* the transition.                                                         *)
SetDisconnected ==
  /\ connected' = 0
  /\ elapsed' = 0

(* Mutant: a failed send stamps the time although already disconnected.    *)
SendFailsRestamps ==
  /\ SetDisconnected
  /\ UNCHANGED <<stream, base, user, handled>>

(* Every badcop_send_* reports a failed tcs_send: the peer is gone, or the *)
(* nonblocking send would block.  While disconnected it changes nothing.   *)
SendFails ==
  /\ connected = 1
  /\ SetDisconnected
  /\ UNCHANGED <<stream, base, user, handled>>

-----------------------------------------------------------------------------
(* badcop_poll_msg.                                                        *)

Unread == sentBytes - (base + end)

TagsAt(pos) ==
  IF \E k \in DOMAIN sent : sent[k].at = pos
  THEN {sent[k].tag : k \in {j \in DOMAIN sent : sent[j].at = pos}}
  ELSE ServerTag \union {Garbage}

(* Mutant: the indices move to the front but the bytes do not.             *)
CompactWithoutMove(fill) ==
  /\ looping' = 0
  /\ start' = 0
  /\ end' = fill - start
  /\ UNCHANGED <<base, handled>>

(* Mutant: what is left of the buffer is thrown away.                      *)
CompactToEmpty(fill) ==
  /\ looping' = 0
  /\ base' = base + fill
  /\ start' = 0
  /\ end' = 0
  /\ UNCHANGED handled

(* Clear looping and move what is left to the front of buf (lines 47-58    *)
(* and 266-277); `fill' is where the received bytes end.                   *)
Compact(fill) ==
  /\ looping' = 0
  /\ base' = base + start
  /\ start' = 0
  /\ end' = fill - start
  /\ UNCHANGED handled

(* Mutant: the last byte of a message must be followed by another one.     *)
HasFullOffByOne(tag, fill) == fill > start + ServerFrame(tag)

(* has_full_message(n), for the message that starts at buf[start].         *)
HasFull(tag, fill) == fill >= start + ServerFrame(tag)

(* Mutant: the tag is not stepped over.                                    *)
ReturnBodyOnly(tag, fill) ==
  /\ HasFull(tag, fill)
  /\ start' = start + ServerBody[tag]
  /\ handled' = Append(handled, [tag |-> tag, at |-> base + start])
  /\ end' = fill
  /\ looping' = 1
  /\ UNCHANGED base

(* The whole message is there: return it.                                  *)
Return(tag, fill) ==
  /\ HasFull(tag, fill)
  /\ start' = start + ServerFrame(tag)
  /\ handled' = Append(handled, [tag |-> tag, at |-> base + start])
  /\ end' = fill
  /\ looping' = 1
  /\ UNCHANGED base

(* The default branch returns NULL and leaves looping set.                 *)
ReturnGarbage(fill) ==
  /\ Garbage \in TagsAt(base + start)
  /\ end' = fill
  /\ looping' = 1
  /\ UNCHANGED <<base, start, handled>>

(* Lines 225-279, reached with looping set.                                *)
Parse(fill) ==
  \/ /\ start + TagSize <= fill
     /\ \/ \E tag \in TagsAt(base + start) \ {Garbage} :
             \/ Return(tag, fill)
             \/ ~ HasFull(tag, fill) /\ Compact(fill)
        \/ ReturnGarbage(fill)
  \/ /\ start + TagSize > fill
     /\ Compact(fill)

(* looping is set: the buffer is parsed and the socket is left alone.      *)
PollBuffered ==
  /\ connected = 1
  /\ looping = 1
  /\ Parse(end)
  /\ UNCHANGED <<stream, connected, elapsed>>

(* Mutant: the whole buffer size is offered, not what is left of it.       *)
PollReceivePastEnd ==
  /\ connected = 1
  /\ looping = 0
  /\ \E n \in 1 .. BufSize : n <= Unread /\ Parse(end + n)
  /\ IF conn = "reset" THEN SetDisconnected ELSE UNCHANGED <<connected, elapsed>>
  /\ UNCHANGED stream

(* looping is clear: _recv_next reads, sets looping, and a message may be  *)
(* parsed in the same call.  After a reset poll() also reports an error,   *)
(* so the flag is cleared although bytes were read (lines 195-198).        *)
PollReceive ==
  /\ connected = 1
  /\ looping = 0
  /\ \E n \in 1 .. BufSize :
        /\ n <= Unread
        /\ n <= BufSize - end
        /\ Parse(end + n)
  /\ IF conn = "reset" THEN SetDisconnected ELSE UNCHANGED <<connected, elapsed>>
  /\ UNCHANGED stream

(* Mutant: the end of the stream is not taken as a failure.                *)
PollFailsOnErrorOnly ==
  /\ connected = 1
  /\ looping = 0
  /\ conn = "reset"
  /\ SetDisconnected
  /\ UNCHANGED <<stream, base, user, handled>>

(* The receive gets no bytes: an error, the end of the stream, or a full   *)
(* buf, for which tcs_receive is asked for 0 bytes and answers             *)
(* TCS_SHUTDOWN though the server is there (tinycsocket.h, 3169-3175).     *)
NoBytes ==
  \/ conn = "reset"
  \/ conn = "shut" /\ Unread = 0
  \/ conn \in {"open", "shut"} /\ Unread > 0 /\ end = BufSize

(* _recv_next takes that for a dead socket.                                *)
PollFails ==
  /\ connected = 1
  /\ looping = 0
  /\ NoBytes
  /\ SetDisconnected
  /\ UNCHANGED <<stream, base, user, handled>>

(* Not connected for long enough: badcop_init stamps the time, drops the   *)
(* buffer and opens a new socket; the old one is not closed.               *)
PollReconnect ==
  /\ connected = 0
  /\ elapsed = ReconnectAfter
  /\ elapsed' = 0
  /\ start' = 0
  /\ end' = 0
  /\ looping' = 0
  /\ connected' = 1
  /\ base' = 0
  /\ sent' = << >>
  /\ sentBytes' = 0
  /\ cut' = 0
  /\ conn' = "open"
  /\ handled' = << >>

(* The same, but the connection can not be made.  The attempt may block    *)
(* for up to 10 s, so that any age of disconnected_at is possible after.   *)
PollReconnectFails ==
  /\ connected = 0
  /\ elapsed = ReconnectAfter
  /\ elapsed' \in 0 .. ReconnectAfter
  /\ start' = 0
  /\ end' = 0
  /\ looping' = 0
  /\ UNCHANGED <<stream, connected, base, handled>>

-----------------------------------------------------------------------------
Poll ==
  \/ PollBuffered
  \/ PollReceive
  \/ PollFails
  \/ PollReconnect
  \/ PollReconnectFails

Environment ==
  \/ \E tag \in Sendable : ServerSend(tag) \/ ServerSendCut(tag)
  \/ \E how \in {"shut", "reset"} : ServerClose(how)
  \/ SendFails
  \/ Tick

Next == Environment \/ Poll

Spec == Init /\ [][Next]_vars

(* main.ks polls on every frame, and time passes.  A server that can be    *)
(* reached again and again is reached in the end.                          *)
FairSpec ==
  /\ Spec
  /\ WF_vars(Poll)
  /\ WF_vars(Tick)
  /\ SF_vars(PollReconnect)

-----------------------------------------------------------------------------
(* Properties.                                                             *)

(* When the library is about to read the socket, the buffer starts at      *)
(* index 0 and holds less than one frame, so it never asks for 0 bytes     *)
(* (line 181) and never takes a full buffer for the end of the connection, *)
(* even if the server's frames were cut.                                   *)
RoomToReceive ==
  connected = 1 /\ looping = 0 => start = 0 /\ end < MaxServerFrame

(* As long as the server's writes are whole, the game is given the first   *)
(* messages the server wrote, in order and once each (lines 225-279).      *)
InOrderUntilCut ==
  cut = 0 =>
    /\ Len(handled) <= Len(sent)
    /\ \A k \in DOMAIN handled : handled[k] = sent[k]

(* The next poll takes the default branch (line 261).                      *)
AtGarbage ==
  /\ connected = 1
  /\ looping = 1
  /\ start + TagSize <= end
  /\ Garbage \in TagsAt(base + start)

(* The library loses the frame boundary, and then polls nothing but NULL   *)
(* until a send fails, only if the server cut a frame.                     *)
GarbageOnlyAfterCut == AtGarbage => cut > 0

(* While the writes are whole, a server that closes or dies is noticed:    *)
(* the flag is cleared, which is what starts the reconnect.                *)
NoticesClose == conn # "open" ~> connected = 0

(* A disconnected client connects again.                                   *)
Reconnects == connected = 0 ~> connected = 1

(* "Get one message from the server. Returns NULL if there are no more     *)
(* messages available" (lines 204-205): when the library answers NULL      *)
(* without having asked the socket, no whole message lies there unread.    *)
NullMeansDrained ==
  [][PollBuffered /\ UNCHANGED handled =>
       ~ \E k \in DOMAIN sent :
            /\ sent[k].at >= base + start
            /\ sent[k].at + ServerFrame(sent[k].tag) <= sentBytes]_vars

Fifo == INSTANCE FrameFifo
  WITH link <- IF connected = 1 THEN conn ELSE "gone", MayAbandon <- TRUE

(* While the writes are whole, every socket of the client is a FIFO of     *)
(* whole messages, which the client may abandon when a send fails.         *)
ImplementsFifo == Fifo!Spec
=============================================================================
