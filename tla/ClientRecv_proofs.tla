-------------------------- MODULE ClientRecv_proofs --------------------------
(***************************************************************************)
(* Proofs about the client library's receive path, for every buffer size   *)
(* that holds the longest frame, every set of tags the server may send,    *)
(* any number of frames and of cut ones, and any number of reconnects.     *)
(*                                                                         *)
(* The safety properties are not inductive: they say nothing of where the  *)
(* parse position base + start is.  IInv adds that whole frames lie one    *)
(* after the other (Layout), that buf holds bytes of the current socket    *)
(* (Extent) and that, while no frame was cut, the parse position is the    *)
(* offset of the next frame to return (Aligned).  The last two are only    *)
(* true while connected: an attempt to reconnect that fails empties the    *)
(* buffer of a socket that is not read again.                              *)
(***************************************************************************)
EXTENDS ClientRecv, TLAPS

(* Where frame k begins, or where the next one will.                       *)
Offset(frames, bytes, k) == IF k <= Len(frames) THEN frames[k].at ELSE bytes

Layout ==
  /\ cut = 0 => Offset(sent, sentBytes, 1) = 0
  /\ cut = 0 => \A k \in 1 .. Len(sent) :
        Offset(sent, sentBytes, k + 1) = sent[k].at + ServerFrame(sent[k].tag)
  /\ \A k \in 1 .. Len(sent) : sent[k].at < sentBytes
  /\ \A j, k \in 1 .. Len(sent) : j < k => sent[j].at < sent[k].at

Extent ==
  connected = 1 =>
    /\ start <= end
    /\ base + end <= sentBytes

Aligned ==
  connected = 1 /\ cut = 0 => base + start = Offset(sent, sentBytes, Len(handled) + 1)

IInv ==
  /\ TypeOK
  /\ Layout
  /\ Extent
  /\ InOrderUntilCut
  /\ Aligned
  /\ RoomToReceive

-----------------------------------------------------------------------------
(* Every frame has a tag and fits in MaxServerFrame.                       *)
LEMMA FrameSizes ==
  ASSUME NEW tag \in ServerTag
  PROVE  /\ ServerBody[tag] \in Nat
         /\ ServerFrame(tag) \in Nat
         /\ ServerFrame(tag) >= 4
         /\ ServerFrame(tag) <= 80
BY DEF ServerTag, ServerBody, ServerFrame, TagSize

LEMMA GarbageIsNoTag == Garbage \notin ServerTag
BY DEF ServerTag, ServerBody, Garbage

(* What the types of the two histories give.                               *)
LEMMA HistoryTypes ==
  ASSUME TypeOK
  PROVE  /\ Len(sent) \in Nat /\ DOMAIN sent = 1 .. Len(sent)
         /\ Len(handled) \in Nat /\ DOMAIN handled = 1 .. Len(handled)
         /\ \A k \in 1 .. Len(sent) : sent[k] \in Frame
         /\ \A k \in 1 .. Len(sent) : sent[k].at \in Nat /\ sent[k].tag \in ServerTag
<1>1. sent \in Seq(Frame) /\ handled \in Seq(Frame)
  BY DEF TypeOK
<1>2. \A f \in Frame : f.at \in Nat /\ f.tag \in ServerTag
  BY DEF Frame
<1>3. \A k \in 1 .. Len(sent) : sent[k] \in Frame
  BY <1>1
<1> QED BY <1>1, <1>2, <1>3

(* A tag read at the offset of a frame is that frame's tag.                *)
LEMMA TagAtFrame ==
  ASSUME TypeOK, Layout, NEW k \in 1 .. Len(sent)
  PROVE  TagsAt(sent[k].at) = {sent[k].tag}
<1>1. DOMAIN sent = 1 .. Len(sent)
  BY HistoryTypes
<1>2. ASSUME NEW j \in 1 .. Len(sent), sent[j].at = sent[k].at PROVE j = k
  <2>1. \A i \in 1 .. Len(sent) : sent[i].at \in Nat
    BY HistoryTypes
  <2>2. ~ (j < k) /\ ~ (k < j)
    BY <1>2, <2>1 DEF Layout
  <2> QED BY <2>2
<1>3. {j \in DOMAIN sent : sent[j].at = sent[k].at} = {k}
  BY <1>1, <1>2
<1> QED BY <1>1, <1>3 DEF TagsAt

(* While no frame was cut, a whole tag in the buffer is that of the next   *)
(* frame in order.                                                         *)
LEMMA TagIsNext ==
  ASSUME IInv, connected = 1, cut = 0, NEW fill \in Nat,
         base + fill <= sentBytes, start + TagSize <= fill
  PROVE  LET k == Len(handled) + 1 IN
         /\ Len(handled) < Len(sent)
         /\ base + start = sent[k].at
         /\ TagsAt(base + start) = {sent[k].tag}
         /\ Offset(sent, sentBytes, k + 1) = base + start + ServerFrame(sent[k].tag)
<1> DEFINE k == Len(handled) + 1
<1>1. /\ base + start = Offset(sent, sentBytes, k)
      /\ Len(handled) <= Len(sent)
      /\ start + 4 <= fill
  BY DEF IInv, Aligned, InOrderUntilCut, TagSize
<1>2. base \in Nat /\ start \in Nat /\ sentBytes \in Nat
  BY DEF IInv, TypeOK
<1>3. Len(sent) \in Nat /\ Len(handled) \in Nat
  BY HistoryTypes DEF IInv
<1>4. Len(handled) < Len(sent)
  <2> SUFFICES ASSUME Len(handled) = Len(sent) PROVE FALSE
    BY <1>1, <1>3
  <2>1. Offset(sent, sentBytes, k) = sentBytes
    BY <1>3 DEF Offset
  <2> QED BY <2>1, <1>1, <1>2
<1>5. k \in 1 .. Len(sent)
  BY <1>3, <1>4
<1>6. base + start = sent[k].at
  BY <1>1, <1>5, <1>3 DEF Offset
<1>7. TagsAt(sent[k].at) = {sent[k].tag}
  BY <1>5, TagAtFrame DEF IInv
<1>8. Offset(sent, sentBytes, k + 1) = sent[k].at + ServerFrame(sent[k].tag)
  BY <1>5 DEF IInv, Layout
<1> QED BY <1>4, <1>6, <1>7, <1>8

-----------------------------------------------------------------------------
(* The invariant holds in the initial state.                               *)
LEMMA InitIInv == Init => IInv
BY BufSizeAssumption, ReconnectAssumption, BoundsAssumption
   DEF Init, IInv, TypeOK, Layout, Extent, InOrderUntilCut, Aligned, RoomToReceive,
       Offset, MaxServerFrame, Frame

(* A whole frame extends the layout and leaves the rest as it was.         *)
LEMMA ServerSendIInv ==
  ASSUME IInv, NEW tag \in Sendable, ServerSend(tag)
  PROVE  IInv'
<1> USE SendableAssumption, FrameSizes DEF IInv
<1> DEFINE f == [tag |-> tag, at |-> sentBytes]
<1>1. /\ tag \in ServerTag
      /\ f \in Frame
      /\ sent' = Append(sent, f)
      /\ sentBytes' = sentBytes + ServerFrame(tag)
      /\ UNCHANGED <<cut, conn, connected, elapsed, base, start, end, looping, handled>>
  BY DEF ServerSend, user, TypeOK, Frame
<1>2. TypeOK'
  BY <1>1 DEF TypeOK
<1>3. /\ Len(sent') = Len(sent) + 1
      /\ \A k \in 1 .. Len(sent) : sent'[k] = sent[k]
      /\ sent'[Len(sent) + 1] = f
      /\ Len(sent) \in Nat
      /\ \A k \in 1 .. Len(sent) : sent[k].at \in Nat /\ sent[k].tag \in ServerTag
  BY <1>1, HistoryTypes DEF TypeOK
<1>4. \A k \in Nat \ {0} : k <= Len(sent) + 1 => Offset(sent', sentBytes', k) = Offset(sent, sentBytes, k)
  BY <1>1, <1>3 DEF Offset
<1>5. Offset(sent', sentBytes', Len(sent) + 2) = sentBytes'
  BY <1>1, <1>3 DEF Offset
<1>6. sentBytes \in Nat /\ ServerFrame(tag) \in Nat /\ ServerFrame(tag) >= 4
  BY <1>1 DEF TypeOK
<1>7. Layout'
  <2>1. cut' = 0 => Offset(sent', sentBytes', 1) = 0
    BY <1>1, <1>3, <1>4 DEF Layout
  <2>2. ASSUME cut' = 0, NEW k \in 1 .. Len(sent')
        PROVE  Offset(sent', sentBytes', k + 1) = sent'[k].at + ServerFrame(sent'[k].tag)
    <3>1. CASE k <= Len(sent)
      BY <2>2, <3>1, <1>1, <1>3, <1>4 DEF Layout
    <3>2. CASE k = Len(sent) + 1
      <4>1. Offset(sent', sentBytes', k + 1) = sentBytes'
        BY <3>2, <1>5, <1>3
      <4>2. sent'[k].at = sentBytes /\ sent'[k].tag = tag
        BY <3>2, <1>3
      <4> QED BY <4>1, <4>2, <1>1
    <3> QED BY <3>1, <3>2, <1>3
  <2>3. \A k \in 1 .. Len(sent') : sent'[k].at < sentBytes'
    BY <1>1, <1>3, <1>6 DEF Layout
  <2>4. \A j, k \in 1 .. Len(sent') : j < k => sent'[j].at < sent'[k].at
    BY <1>1, <1>3, <1>6 DEF Layout
  <2> QED BY <2>1, <2>2, <2>3, <2>4 DEF Layout
<1>8. Extent'
  BY <1>1, <1>6 DEF Extent, TypeOK
<1>9. Len(handled) \in Nat /\ DOMAIN handled = 1 .. Len(handled)
  BY HistoryTypes
<1>10. InOrderUntilCut'
  BY <1>1, <1>3, <1>9 DEF InOrderUntilCut
<1>11. Aligned'
  BY <1>1, <1>3, <1>4, <1>9 DEF Aligned, InOrderUntilCut
<1>12. RoomToReceive'
  BY <1>1 DEF RoomToReceive
<1> QED BY <1>2, <1>7, <1>8, <1>10, <1>11, <1>12

(* After a cut only the order of the offsets is left to show.              *)
LEMMA ServerSendCutIInv ==
  ASSUME IInv, NEW tag \in Sendable, ServerSendCut(tag)
  PROVE  IInv'
<1> USE SendableAssumption, BoundsAssumption DEF IInv
<1> DEFINE f == [tag |-> tag, at |-> sentBytes]
<1>1. /\ cut < MaxCut
      /\ cut' = cut + 1
      /\ UNCHANGED <<conn, connected, elapsed, base, start, end, looping, handled>>
  BY DEF ServerSendCut, user
<1>2. tag \in ServerTag /\ ServerFrame(tag) \in Nat
  BY FrameSizes
<1>3. PICK n \in 0 .. ServerFrame(tag) - 1 :
        /\ sentBytes' = sentBytes + n
        /\ sent' = IF n < TagSize THEN sent ELSE Append(sent, f)
  BY DEF ServerSendCut
<1>4. sentBytes \in Nat /\ cut \in Nat /\ n \in Nat /\ sent \in Seq(Frame)
  BY <1>2 DEF TypeOK
<1>5. f \in Frame
  BY <1>2, <1>4 DEF Frame
<1>6. cut' \in 0 .. MaxCut /\ cut' # 0 /\ sentBytes' \in Nat /\ sentBytes <= sentBytes'
  BY <1>1, <1>3, <1>4
<1>7. /\ sent' \in Seq(Frame)
      /\ \A k \in 1 .. Len(sent') : sent'[k].at < sentBytes'
      /\ \A j, k \in 1 .. Len(sent') : j < k => sent'[j].at < sent'[k].at
  <2>1. /\ \A k \in 1 .. Len(sent) : sent[k].at < sentBytes /\ sent[k].at \in Nat
        /\ \A j, k \in 1 .. Len(sent) : j < k => sent[j].at < sent[k].at
        /\ Len(sent) \in Nat
    BY HistoryTypes DEF Layout
  <2>2. CASE n < TagSize
    BY <2>1, <2>2, <1>3, <1>4, <1>6
  <2>3. CASE ~ (n < TagSize)
    <3>1. sent' = Append(sent, f) /\ sentBytes < sentBytes'
      BY <2>3, <1>3, <1>4 DEF TagSize
    <3>2. /\ sent' \in Seq(Frame)
          /\ Len(sent') = Len(sent) + 1
          /\ \A k \in 1 .. Len(sent) : sent'[k] = sent[k]
          /\ sent'[Len(sent) + 1] = f
      BY <3>1, <1>4, <1>5
    <3> QED BY <2>1, <3>1, <3>2, <1>4, <1>6
  <2> QED BY <2>2, <2>3
<1>8. TypeOK'
  BY <1>1, <1>6, <1>7 DEF TypeOK
<1>9. Layout'
  BY <1>6, <1>7 DEF Layout
<1>10. Extent'
  <2>1. base \in Nat /\ end \in Nat
    BY DEF TypeOK
  <2> QED BY <2>1, <1>1, <1>4, <1>6 DEF Extent
<1>11. InOrderUntilCut' /\ Aligned'
  BY <1>6 DEF InOrderUntilCut, Aligned
<1>12. RoomToReceive'
  BY <1>1 DEF RoomToReceive
<1> QED BY <1>8, <1>9, <1>10, <1>11, <1>12

(* The steps that leave the buffer and the histories alone.                *)
LEMMA QuietIInv ==
  ASSUME IInv,
         \/ \E how \in {"shut", "reset"} : ServerClose(how)
         \/ Tick \/ SendFails \/ PollFails
  PROVE  IInv'
<1>1. /\ UNCHANGED <<sent, sentBytes, cut, base, start, end, looping, handled>>
      /\ conn' \in {"open", "shut", "reset"}
      /\ connected' = connected \/ connected' = 0
      /\ elapsed' \in 0 .. ReconnectAfter
  BY ReconnectAssumption
     DEF IInv, TypeOK, ServerClose, Tick, SendFails, PollFails, SetDisconnected, stream, user
<1> QED
  BY <1>1 DEF IInv, TypeOK, Layout, Extent, InOrderUntilCut, Aligned, RoomToReceive

(* A new socket starts from nothing; a failed attempt empties the buffer.  *)
LEMMA PollReconnectIInv == IInv /\ PollReconnect => IInv'
BY ReconnectAssumption, BoundsAssumption, BufSizeAssumption
   DEF PollReconnect, IInv, TypeOK, Layout, Extent, InOrderUntilCut, Aligned, RoomToReceive,
       Offset, MaxServerFrame

LEMMA PollReconnectFailsIInv == IInv /\ PollReconnectFails => IInv'
BY BufSizeAssumption
   DEF PollReconnectFails, stream, IInv, TypeOK, Layout, Extent, InOrderUntilCut, Aligned,
       RoomToReceive

-----------------------------------------------------------------------------
(* Parsing.                                                                *)

(* Where the parse finds the next message whole: it is returned in order.  *)
LEMMA ReturnInOrder ==
  ASSUME IInv, connected = 1, cut = 0, NEW fill \in Nat, base + fill <= sentBytes,
         NEW tag \in TagsAt(base + start), start + TagSize <= fill, Return(tag, fill)
  PROVE  /\ Len(handled) < Len(sent)
         /\ handled' = Append(handled, sent[Len(handled) + 1])
         /\ base' + start' = Offset(sent, sentBytes, Len(handled) + 2)
<1> DEFINE k == Len(handled) + 1
           f == [tag |-> tag, at |-> base + start]
<1>1. /\ Len(handled) < Len(sent)
      /\ base + start = sent[k].at
      /\ TagsAt(base + start) = {sent[k].tag}
      /\ Offset(sent, sentBytes, k + 1) = base + start + ServerFrame(sent[k].tag)
  BY TagIsNext
<1>2. Len(sent) \in Nat /\ Len(handled) \in Nat /\ sent[k] \in Frame /\ sent[k].tag \in ServerTag
  BY <1>1, HistoryTypes DEF IInv
<1>3. tag = sent[k].tag
  BY <1>1
<1>4. sent[k] = f
  BY <1>1, <1>2, <1>3 DEF Frame
<1>5. handled' = Append(handled, f) /\ base' = base /\ start' = start + ServerFrame(tag)
  BY DEF Return
<1>6. base \in Nat /\ start \in Nat /\ ServerFrame(tag) \in Nat
  BY <1>2, <1>3, FrameSizes DEF IInv, TypeOK
<1>7. k + 1 = Len(handled) + 2
  BY <1>2
<1> QED BY <1>1, <1>3, <1>4, <1>5, <1>6, <1>7

LEMMA ReturnIInv ==
  ASSUME IInv, connected = 1, NEW fill \in 0 .. BufSize, base + fill <= sentBytes,
         NEW tag \in ServerTag, tag \in TagsAt(base + start), start + TagSize <= fill,
         Return(tag, fill), UNCHANGED stream,
         connected' \in {0, 1}, elapsed' \in 0 .. ReconnectAfter
  PROVE  IInv'
<1> USE DEF IInv
<1> DEFINE f == [tag |-> tag, at |-> base + start]
<1>1. /\ start' = start + ServerFrame(tag) /\ start' <= fill
      /\ handled' = Append(handled, f)
      /\ end' = fill /\ looping' = 1 /\ base' = base
      /\ UNCHANGED <<sent, sentBytes, cut, conn>>
  BY FrameSizes DEF Return, HasFull, stream, TypeOK
<1>2. base \in Nat /\ start \in Nat /\ sentBytes \in Nat /\ BufSize \in Nat /\ ServerFrame(tag) \in Nat
  BY FrameSizes, BufSizeAssumption DEF TypeOK
<1>3. f \in Frame /\ handled \in Seq(Frame)
  BY <1>2 DEF Frame, TypeOK
<1>4. TypeOK'
  BY <1>1, <1>2, <1>3 DEF TypeOK
<1>5. Layout' /\ Extent' /\ RoomToReceive'
  BY <1>1 DEF Layout, Extent, RoomToReceive
<1>6. Len(sent) \in Nat /\ Len(handled) \in Nat /\ DOMAIN handled = 1 .. Len(handled)
  BY HistoryTypes
<1>7. ASSUME cut = 0
      PROVE  /\ Len(handled) < Len(sent)
             /\ handled' = Append(handled, sent[Len(handled) + 1])
             /\ base' + start' = Offset(sent, sentBytes, Len(handled) + 2)
  BY <1>7, ReturnInOrder
<1>8. /\ Len(handled') = Len(handled) + 1
      /\ DOMAIN handled' = 1 .. Len(handled) + 1
      /\ \A k \in 1 .. Len(handled) : handled'[k] = handled[k]
      /\ handled'[Len(handled) + 1] = f
  BY <1>1, <1>3, <1>6
<1>9. InOrderUntilCut'
  <2> SUFFICES ASSUME cut = 0
               PROVE  /\ Len(handled') <= Len(sent)
                      /\ \A k \in DOMAIN handled' : handled'[k] = sent[k]
    BY <1>1 DEF InOrderUntilCut
  <2>1. Len(handled) < Len(sent) /\ handled' = Append(handled, sent[Len(handled) + 1])
    BY <1>7
  <2>2. sent[Len(handled) + 1] \in Frame
    BY <2>1, <1>6, HistoryTypes
  <2>3. handled'[Len(handled) + 1] = sent[Len(handled) + 1]
    BY <2>1, <2>2, <1>3, <1>6
  <2>4. \A k \in 1 .. Len(handled) : handled[k] = sent[k]
    BY <1>6 DEF InOrderUntilCut
  <2>5. ASSUME NEW k \in DOMAIN handled' PROVE handled'[k] = sent[k]
    <3>1. k \in 1 .. Len(handled) \/ k = Len(handled) + 1
      BY <1>6, <1>8
    <3> QED BY <3>1, <2>3, <2>4, <1>8
  <2>6. Len(handled') <= Len(sent)
    BY <2>1, <1>6, <1>8
  <2> QED BY <2>5, <2>6
<1>10. Aligned'
  <2> SUFFICES ASSUME cut = 0
               PROVE  base' + start' = Offset(sent, sentBytes, Len(handled') + 1)
    BY <1>1 DEF Aligned
  <2>1. Len(handled') + 1 = Len(handled) + 2
    BY <1>6, <1>8
  <2> QED BY <2>1, <1>7
<1> QED BY <1>4, <1>5, <1>9, <1>10

(* What is left after compacting is less than one frame.                   *)
LEMMA CompactIInv ==
  ASSUME IInv, connected = 1, NEW fill \in 0 .. BufSize, end <= fill, base + fill <= sentBytes,
         fill < start + MaxServerFrame,
         Compact(fill), UNCHANGED stream,
         connected' \in {0, 1}, elapsed' \in 0 .. ReconnectAfter
  PROVE  IInv'
<1> USE DEF IInv
<1>1. /\ looping' = 0 /\ start' = 0 /\ base' = base + start /\ end' = fill - start
      /\ UNCHANGED <<sent, sentBytes, cut, conn, handled>>
  BY DEF Compact, stream
<1>2. /\ base \in Nat /\ start \in Nat /\ end \in Nat /\ sentBytes \in Nat /\ BufSize \in Nat
      /\ start <= end
  BY BufSizeAssumption DEF TypeOK, Extent
<1>3. /\ end' \in 0 .. BufSize /\ base' \in Nat
      /\ base' + end' = base + fill
      /\ base' + start' = base + start
      /\ end' < MaxServerFrame
  BY <1>1, <1>2 DEF MaxServerFrame
<1>4. TypeOK'
  BY <1>1, <1>3 DEF TypeOK
<1>5. Layout' /\ Extent' /\ RoomToReceive'
  BY <1>1, <1>3 DEF Layout, Extent, RoomToReceive
<1>6. InOrderUntilCut' /\ Aligned'
  BY <1>1, <1>3 DEF InOrderUntilCut, Aligned
<1> QED BY <1>4, <1>5, <1>6

LEMMA ParseIInv ==
  ASSUME IInv, connected = 1, NEW fill \in 0 .. BufSize, end <= fill, base + fill <= sentBytes,
         Parse(fill), UNCHANGED stream,
         connected' \in {0, 1}, elapsed' \in 0 .. ReconnectAfter
  PROVE  IInv'
<1>1. /\ start \in Nat /\ end \in Nat /\ base \in Nat /\ fill \in Nat /\ sentBytes \in Nat
      /\ start <= end
  BY BufSizeAssumption DEF IInv, TypeOK, Extent
<1>2. ASSUME NEW tag \in TagsAt(base + start) \ {Garbage}, start + TagSize <= fill, Return(tag, fill)
      PROVE  IInv'
  <2>1. tag \in ServerTag
    BY <1>2, HistoryTypes DEF TagsAt, IInv
  <2> QED BY <1>2, <2>1, ReturnIInv
<1>3. ASSUME NEW tag \in TagsAt(base + start) \ {Garbage}, ~ HasFull(tag, fill), Compact(fill)
      PROVE  IInv'
  <2>1. tag \in ServerTag
    BY <1>3, HistoryTypes DEF TagsAt, IInv
  <2>2. fill < start + MaxServerFrame
    BY <1>1, <1>3, <2>1, FrameSizes DEF HasFull, MaxServerFrame
  <2> QED BY <1>3, <2>2, CompactIInv
<1>4. ASSUME ReturnGarbage(fill) PROVE IInv'
  <2>1. end' = fill /\ looping' = 1 /\ UNCHANGED <<sent, sentBytes, cut, conn, base, start, handled>>
    BY <1>4 DEF ReturnGarbage, stream
  <2>2. start' <= end'
    BY <2>1, <1>1
  <2> QED
    BY <2>1, <2>2 DEF IInv, TypeOK, Layout, Extent, InOrderUntilCut, Aligned, RoomToReceive
<1>5. ASSUME start + TagSize > fill, Compact(fill) PROVE IInv'
  <2>1. fill < start + MaxServerFrame
    BY <1>1, <1>5 DEF TagSize, MaxServerFrame
  <2> QED BY <1>5, <2>1, CompactIInv
<1> QED BY <1>2, <1>3, <1>4, <1>5 DEF Parse

LEMMA PollBufferedIInv == IInv /\ PollBuffered => IInv'
<1> SUFFICES ASSUME IInv, PollBuffered PROVE IInv'
  OBVIOUS
<1>1. connected = 1 /\ Parse(end) /\ UNCHANGED <<stream, connected, elapsed>>
  BY DEF PollBuffered
<1>2. end \in 0 .. BufSize /\ end <= end /\ base + end <= sentBytes
  BY <1>1, BufSizeAssumption DEF IInv, TypeOK, Extent
<1>3. connected' \in {0, 1} /\ elapsed' \in 0 .. ReconnectAfter
  BY <1>1 DEF IInv, TypeOK
<1> QED BY <1>1, <1>2, <1>3, ParseIInv

(* Reading the socket extends what buf holds by bytes that were sent.      *)
LEMMA ReceiveFill ==
  ASSUME IInv, connected = 1, NEW n \in 1 .. BufSize, n <= Unread, n <= BufSize - end
  PROVE  end + n \in 0 .. BufSize /\ end <= end + n /\ base + (end + n) <= sentBytes
BY BufSizeAssumption DEF IInv, TypeOK, Unread

LEMMA PollReceiveIInv == IInv /\ PollReceive => IInv'
<1> SUFFICES ASSUME IInv, PollReceive PROVE IInv'
  OBVIOUS
<1>1. connected = 1 /\ UNCHANGED stream
  BY DEF PollReceive
<1>2. PICK n \in 1 .. BufSize : n <= Unread /\ n <= BufSize - end /\ Parse(end + n)
  BY DEF PollReceive
<1>3. end + n \in 0 .. BufSize /\ end <= end + n /\ base + (end + n) <= sentBytes
  BY <1>1, <1>2, ReceiveFill
<1>4. connected' \in {0, 1} /\ elapsed' \in 0 .. ReconnectAfter
  BY ReconnectAssumption DEF PollReceive, SetDisconnected, IInv, TypeOK
<1> QED BY <1>1, <1>2, <1>3, <1>4, ParseIInv

-----------------------------------------------------------------------------
LEMMA NextIInv == IInv /\ [Next]_vars => IInv'
<1> SUFFICES ASSUME IInv, [Next]_vars PROVE IInv'
  OBVIOUS
<1>1. CASE Environment
  BY <1>1, ServerSendIInv, ServerSendCutIInv, QuietIInv DEF Environment
<1>2. CASE Poll
  BY <1>2, PollBufferedIInv, PollReceiveIInv, QuietIInv, PollReconnectIInv,
     PollReconnectFailsIInv DEF Poll
<1>3. CASE UNCHANGED vars
  BY <1>3 DEF vars, stream, user, IInv, TypeOK, Layout, Extent, InOrderUntilCut, Aligned,
              RoomToReceive
<1> QED BY <1>1, <1>2, <1>3 DEF Next

(* IInv is an invariant of the client's receive path.                      *)
THEOREM Invariance == Spec => []IInv
<1>1. Init => IInv
  BY InitIInv
<1>2. IInv /\ [Next]_vars => IInv'
  BY NextIInv
<1> QED BY <1>1, <1>2, PTL DEF Spec

(* Every variable keeps its type.                                          *)
THEOREM TypeCorrect == Spec => []TypeOK
<1>1. IInv => TypeOK
  BY DEF IInv
<1> QED BY <1>1, Invariance, PTL

(* When the library is about to read the socket there is room for at least *)
(* one byte (line 181), even if the server's frames were cut.              *)
THEOREM RoomToReceiveHolds == Spec => []RoomToReceive
<1>1. IInv => RoomToReceive
  BY DEF IInv
<1> QED BY <1>1, Invariance, PTL

(* As long as the server's writes are whole, the game is given the first   *)
(* messages the server wrote, in order and once each (lines 225-279), on   *)
(* every socket it has had.                                                *)
THEOREM InOrderUntilCutHolds == Spec => []InOrderUntilCut
<1>1. IInv => InOrderUntilCut
  BY DEF IInv
<1> QED BY <1>1, Invariance, PTL

(* The default branch (line 261) is taken only after the server has cut a  *)
(* frame.                                                                  *)
THEOREM GarbageOnlyAfterCutHolds == Spec => []GarbageOnlyAfterCut
<1>1. IInv => GarbageOnlyAfterCut
  <2> SUFFICES ASSUME IInv, AtGarbage, cut = 0 PROVE FALSE
    BY DEF GarbageOnlyAfterCut, IInv, TypeOK
  <2> DEFINE k == Len(handled) + 1
  <2>1. connected = 1 /\ start + TagSize <= end /\ Garbage \in TagsAt(base + start)
    BY DEF AtGarbage
  <2>2. end \in Nat /\ base + end <= sentBytes
    BY <2>1, BufSizeAssumption DEF IInv, TypeOK, Extent
  <2>3. Len(handled) < Len(sent) /\ TagsAt(base + start) = {sent[k].tag}
    BY <2>1, <2>2, TagIsNext
  <2>4. sent[k].tag \in ServerTag
    BY <2>3, HistoryTypes DEF IInv
  <2> QED BY <2>1, <2>3, <2>4, GarbageIsNoTag
<1> QED BY <1>1, Invariance, PTL

-----------------------------------------------------------------------------
(* While the writes are whole the receive path implements FrameFifo.       *)

(* A parse delivers the next message, or none.                             *)
LEMMA ParseDelivers ==
  ASSUME IInv, connected = 1, cut = 0, NEW fill \in 0 .. BufSize, base + fill <= sentBytes,
         Parse(fill)
  PROVE  \/ handled' = handled
         \/ /\ Len(handled) < Len(sent)
            /\ handled' = Append(handled, sent[Len(handled) + 1])
<1>1. fill \in Nat
  BY BufSizeAssumption
<1>2. ASSUME NEW tag \in TagsAt(base + start) \ {Garbage}, start + TagSize <= fill, Return(tag, fill)
      PROVE  /\ Len(handled) < Len(sent)
             /\ handled' = Append(handled, sent[Len(handled) + 1])
  BY <1>1, <1>2, ReturnInOrder
<1>3. Compact(fill) \/ ReturnGarbage(fill) => handled' = handled
  BY DEF Compact, ReturnGarbage
<1> QED BY <1>2, <1>3 DEF Parse

LEMMA FifoStep ==
  ASSUME IInv, [Next]_vars, MaxCut = 0
  PROVE  [Fifo!Next]_(Fifo!vars)
<1> DEFINE link == IF connected = 1 THEN conn ELSE "gone"
<1> USE DEF Fifo!Next, Fifo!vars
<1>0. cut = 0 /\ conn \in {"open", "shut", "reset"} /\ connected \in {0, 1}
  BY BoundsAssumption DEF IInv, TypeOK
<1>1. Len(sent) \in Nat /\ sent \in Seq(Frame)
  BY HistoryTypes DEF IInv, TypeOK
<1>2. ASSUME NEW tag \in Sendable, ServerSend(tag) PROVE Fifo!Write
  <2> DEFINE f == [tag |-> tag, at |-> sentBytes]
  <2>1. /\ sent' = Append(sent, f) /\ f \in Frame
        /\ connected = 1 /\ conn = "open" /\ UNCHANGED <<handled, conn, connected>>
    BY <1>2, SendableAssumption DEF ServerSend, IInv, TypeOK, Frame
  <2>2. Len(sent') = Len(sent) + 1 /\ sent'[Len(sent) + 1] = f
    BY <2>1, <1>1
  <2> QED BY <2>1, <2>2 DEF Fifo!Write
<1>3. ASSUME NEW tag \in Sendable PROVE ~ ServerSendCut(tag)
  BY <1>0 DEF ServerSendCut
<1>4. ASSUME NEW how \in {"shut", "reset"}, ServerClose(how) PROVE Fifo!Close
  BY <1>4 DEF ServerClose, Fifo!Close
<1>5. ASSUME SendFails \/ PollFails PROVE Fifo!HangUp
  BY <1>5, <1>0 DEF SendFails, PollFails, NoBytes, SetDisconnected, stream, Fifo!HangUp
<1>6. Tick \/ PollReconnectFails \/ UNCHANGED vars => UNCHANGED <<sent, handled, conn, connected>>
  BY DEF Tick, PollReconnectFails, vars, stream
<1>7. ASSUME PollBuffered PROVE Fifo!Deliver \/ UNCHANGED <<sent, handled, conn, connected>>
  <2>1. connected = 1 /\ Parse(end) /\ UNCHANGED <<sent, conn, connected>>
    BY <1>7 DEF PollBuffered, stream
  <2>2. end \in 0 .. BufSize /\ base + end <= sentBytes
    BY <2>1 DEF IInv, TypeOK, Extent
  <2> QED BY <2>1, <2>2, <1>0, ParseDelivers DEF Fifo!Deliver
<1>8. ASSUME PollReceive
      PROVE  Fifo!Deliver \/ Fifo!HangUp \/ UNCHANGED <<sent, handled, conn, connected>>
  <2>1. PICK n \in 1 .. BufSize : n <= Unread /\ n <= BufSize - end /\ Parse(end + n)
    BY <1>8 DEF PollReceive
  <2>2. /\ connected = 1 /\ UNCHANGED <<sent, conn>>
        /\ IF conn = "reset" THEN connected' = 0 ELSE connected' = connected
    BY <1>8 DEF PollReceive, SetDisconnected, stream
  <2>3. end + n \in 0 .. BufSize /\ base + (end + n) <= sentBytes
    BY <2>1, <2>2, ReceiveFill
  <2>4. \/ handled' = handled
        \/ /\ Len(handled) < Len(sent)
           /\ handled' = Append(handled, sent[Len(handled) + 1])
    BY <2>1, <2>2, <2>3, <1>0, ParseDelivers
  <2> QED BY <2>2, <2>4, <1>0 DEF Fifo!Deliver, Fifo!HangUp
<1>9. ASSUME PollReconnect PROVE Fifo!Reopen
  BY <1>9 DEF PollReconnect, Fifo!Reopen
<1> QED BY <1>2, <1>3, <1>4, <1>5, <1>6, <1>7, <1>8, <1>9 DEF Next, Environment, Poll

(* If no write is cut, every socket of the client is a FIFO of whole       *)
(* messages, through any number of losses and reconnects (lines 35-313).   *)
THEOREM ImplementsFifoHolds ==
  ASSUME MaxCut = 0
  PROVE  Spec => ImplementsFifo
<1>1. Init => Fifo!Init
  BY DEF Init, Fifo!Init
<1>2. IInv /\ [Next]_vars => [Fifo!Next]_(Fifo!vars)
  BY FifoStep
<1> QED BY <1>1, <1>2, Invariance, PTL DEF Spec, ImplementsFifo, Fifo!Spec
=============================================================================
